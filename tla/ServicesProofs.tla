--------------------------- MODULE ServicesProofs ---------------------------
(***************************************************************************)
(* Theorems about the services beside the judging: the compilation cache,  *)
(* the upgrade, the testcase jobs and printing, for any number of          *)
(* programs, versions, jobs and failures.                                  *)
(***************************************************************************)
EXTENDS MCServices, Sums

(***************************************************************************)
(* The compilation cache.                                                  *)
(***************************************************************************)
\* The executables e are not older than any recompilation so far.
Fresh(e) == e >= recompile.since /\ \A p \in Programs : e >= required[p]

\* Nothing asks for a compiler that is not there yet; and unless an older
\* compilation was under way at a clearing, what is remembered and what is on
\* its way is as new as every recompilation so far, also the one under way.
CompileInv ==
    /\ CompileTypeOK
    /\ recompile.since <= compiler
    /\ \A p \in Programs : required[p] <= compiler
    /\ ~straggled =>
         /\ remembered # 0 => Fresh(remembered)
         /\ \A b \in builds : b.exe # 0 => Fresh(b.exe)
    /\ RecompiledFresh

\* Nothing is cached at first.
LEMMA CompileStarts == CompileInit => CompileInv
<1> SUFFICES ASSUME CompileInit PROVE CompileInv
  OBVIOUS
<1>1. CompileTypeOK
  <2>1. program \in [Programs -> [gen : Nat, exe : {0} \cup Compilers]]
    BY DEF CompileInit
  <2>2. recompile \in [rows : SUBSET Programs, since : {0} \cup Compilers]
    BY DEF CompileInit, NoRecompile
  <2>3. compiler \in Compilers
    BY CompileCacheAssumption DEF CompileInit, Compilers
  <2>4. straggled \in BOOLEAN
    BY DEF CompileInit
  <2> QED
    BY <2>1, <2>2, <2>3, <2>4 DEF CompileInit, CompileTypeOK
<1>2. \A p \in Programs : program[p].exe = 0 /\ required[p] = 0
  BY DEF CompileInit
<1> QED
  BY <1>1, <1>2 DEF CompileInit, CompileInv, NoRecompile, RecompiledFresh

\* Every step of a row, a worker and a recompilation keeps the types.
LEMMA CompileTypeStep == CompileTypeOK /\ [CompileNext]_compileVars => CompileTypeOK'
<1> SUFFICES ASSUME CompileTypeOK, [CompileNext]_compileVars PROVE CompileTypeOK'
  OBVIOUS
<1> USE CompileCacheAssumption DEF CompileTypeOK, Compilers, Build, NoRecompile
<1>1. CASE UNCHANGED compileVars
  BY <1>1 DEF compileVars
<1>2. ASSUME NEW p \in Programs, cachedCompilation(p) PROVE CompileTypeOK'
  BY <1>2 DEF cachedCompilation
<1>3. ASSUME NEW p \in Programs, compileRow(p) PROVE CompileTypeOK'
  BY <1>3 DEF compileRow
<1>4. ASSUME NEW p \in Programs, InvalidateBatch(p) PROVE CompileTypeOK'
  BY <1>4 DEF InvalidateBatch
<1>5. ASSUME NEW b \in builds, RunCompiler(b) PROVE CompileTypeOK'
  BY <1>5 DEF RunCompiler
<1>6. ASSUME NEW b \in builds, compiledBy(b) PROVE CompileTypeOK'
  BY <1>6 DEF compiledBy, rememberCompilation
<1>7. CASE UpgradeCompiler
  BY <1>7 DEF UpgradeCompiler
<1>8. ASSUME NEW rows \in SUBSET Programs, ClearCompilationCache(rows) PROVE CompileTypeOK'
  BY <1>8 DEF ClearCompilationCache, Recompiling
<1>9. CASE InvalidateFails
  BY <1>9 DEF InvalidateFails
<1> QED
  BY <1>1, <1>2, <1>3, <1>4, <1>5, <1>6, <1>7, <1>8, <1>9 DEF CompileNext

\* Every step of the compilations keeps the invariant.
LEMMA CompileStep == CompileInv /\ [CompileNext]_compileVars => CompileInv'
<1> SUFFICES ASSUME CompileInv, [CompileNext]_compileVars PROVE CompileInv'
  OBVIOUS
<1>0. CompileTypeOK /\ CompileTypeOK'
  BY CompileTypeStep DEF CompileInv
<1> USE <1>0, CompileCacheAssumption
    DEF CompileInv, CompileTypeOK, Compilers, Build, NoRecompile, Fresh, RecompiledFresh
<1>1. CASE UNCHANGED compileVars
  BY <1>1 DEF compileVars
<1>2. ASSUME NEW p \in Programs, cachedCompilation(p) PROVE CompileInv'
  BY <1>2 DEF cachedCompilation
<1>3. ASSUME NEW p \in Programs, compileRow(p) PROVE CompileInv'
  BY <1>3 DEF compileRow
<1>4. ASSUME NEW p \in Programs, InvalidateBatch(p) PROVE CompileInv'
  BY <1>4 DEF InvalidateBatch
<1>5. ASSUME NEW b \in builds, RunCompiler(b) PROVE CompileInv'
  BY <1>5 DEF RunCompiler
<1>6. ASSUME NEW b \in builds, compiledBy(b) PROVE CompileInv'
  BY <1>6 DEF compiledBy, rememberCompilation
<1>7. CASE UpgradeCompiler
  BY <1>7 DEF UpgradeCompiler
<1>8. ASSUME NEW rows \in SUBSET Programs, ClearCompilationCache(rows) PROVE CompileInv'
  <2>1. /\ UNCHANGED <<compiler, program, builds, required>> /\ remembered' = 0
        /\ recompile'.since = compiler
        /\ straggled' = (straggled \/ \E b \in builds : b.exe \in 1 .. compiler - 1)
    BY <1>8 DEF ClearCompilationCache, Recompiling
  <2>2. ~straggled' => ~straggled /\ \A b \in builds : b.exe # 0 => b.exe >= compiler
    <3>1. SUFFICES ASSUME ~straggled', NEW b \in builds, b.exe # 0 PROVE b.exe >= compiler
      BY <2>1
    <3>2. b.exe \in 1 .. MaxCompiler /\ compiler \in Nat
      BY <3>1
    <3>3. b.exe \notin 1 .. compiler - 1
      BY <2>1, <3>1
    <3> QED
      BY <3>2, <3>3
  <2>3. ~straggled' => \A b \in builds' : b.exe # 0 => Fresh(b.exe)'
    BY <2>1, <2>2
  <2> QED
    BY <2>1, <2>2, <2>3
<1>9. CASE InvalidateFails
  BY <1>9 DEF InvalidateFails
<1> QED
  BY <1>1, <1>2, <1>3, <1>4, <1>5, <1>6, <1>7, <1>8, <1>9 DEF CompileNext

\* A recompiled row never ends up with the executables of an older compiler
\* (Invalidate in dispatcher/reeval.go), whichever rows are compiled, taken
\* from the cache and invalidated in between, unless an older compilation was
\* already running when the cache was cleared.
THEOREM RecompilationsFresh == CompileSpec => [](CompileTypeOK /\ RecompiledFresh)
<1>1. CompileInv => CompileTypeOK /\ RecompiledFresh
  BY DEF CompileInv
<1> QED
  BY <1>1, CompileStarts, CompileStep, PTL DEF CompileSpec

(***************************************************************************)
(* The upgrade.                                                            *)
(***************************************************************************)
OnDisk == ToSet(releases)

\* The services are stopped, or of the release and the schema in use.
Consistent == schema = current /\ running \in {0, current}

\* What each stage of an upgrade finds: until the switch the old release on
\* its schema, then the new one while the migrations run, and in a rollback
\* without problems what its steps have put back so far.
StagesInv ==
    /\ upgrade.at # "none" =>
         outcome # "rollback_incomplete" /\ upgrade.prev <= upgrade.target /\ upgrade.prev # 0
    /\ upgrade.at = "none" /\ outcome # "rollback_incomplete" => Consistent
    /\ upgrade.at \in {"fetched", "backed_up"} => Consistent /\ current = upgrade.prev
    /\ upgrade.at = "stopped" => schema = current /\ current = upgrade.prev /\ running = 0
    /\ upgrade.at = "switched" =>
         current = upgrade.target /\ running = 0 /\ schema # 0 /\ schema <= upgrade.target
    /\ upgrade.at = "migrated" => current = upgrade.target /\ running = 0 /\ schema = current
    /\ upgrade.at = "started" => current = upgrade.target /\ running = current /\ schema = current
    /\ upgrade.at \notin {"none"} \cup RollbackStages => ~upgrade.problems
    /\ upgrade.at \in {"roll_switch", "roll_restore", "roll_start"} /\ ~upgrade.problems => running = 0
    /\ upgrade.at \in {"roll_restore", "roll_start"} /\ ~upgrade.problems => current = upgrade.prev
    /\ upgrade.at = "roll_start" /\ ~upgrade.problems => schema = upgrade.prev

\* What it takes to be there: a rollback follows a failure, its problems
\* another one, and so do services left stopped.
FailuresInv ==
    interruptions = 0 =>
        /\ upgrade.at # "none" => ~upgrade.cancelled
        /\ upgrade.at \in RollbackStages => failures >= 1
        /\ upgrade.at \in RollbackStages /\ upgrade.problems => failures >= 2
        /\ upgrade.at = "none" /\ outcome = "rollback_incomplete" => failures >= 2
        /\ upgrade.at \in {"none", "fetched", "backed_up"} /\ failures <= 1 => running = current


\* Appending a release, and taking one off the disk.
LEMMA ReleaseAdded ==
    ASSUME NEW s \in Seq(Versions), NEW v \in Versions
    PROVE  Append(s, v) \in Seq(Versions) /\ ToSet(Append(s, v)) = ToSet(s) \cup {v}
<1>1. /\ Append(s, v) \in Seq(Versions) /\ Len(Append(s, v)) = Len(s) + 1
      /\ Append(s, v)[Len(s) + 1] = v /\ \A k \in 1 .. Len(s) : Append(s, v)[k] = s[k]
  OBVIOUS
<1>2. DOMAIN s = 1 .. Len(s) /\ DOMAIN Append(s, v) = 1 .. Len(s) + 1 /\ Len(s) \in Nat
  BY <1>1
<1>3. \A k \in 1 .. Len(s) + 1 : k \in 1 .. Len(s) \/ k = Len(s) + 1
  BY <1>2
<1> QED
  BY <1>1, <1>2, <1>3 DEF ToSet

\* One release removed, the others stay on disk.
LEMMA ReleaseRemoved ==
    ASSUME releases \in Seq(Versions), NEW v \in Versions
    PROVE  Without(v) \in Seq(Versions) /\ ToSet(releases) \ {v} \subseteq ToSet(Without(v))
<1>1. CASE v \notin ToSet(releases)
  BY <1>1 DEF Without
<1>2. CASE v \in ToSet(releases)
  <2>0. DOMAIN releases = 1 .. Len(releases) /\ Len(releases) \in Nat
    OBVIOUS
  <2>1. PICK i \in 1 .. Len(releases) : releases[i] = v /\ Without(v) = RemoveAt(releases, i)
    <3>1. \E i \in DOMAIN releases : releases[i] = v
      BY <1>2 DEF ToSet
    <3> QED
      BY <1>2, <2>0, <3>1 DEF Without
  <2> DEFINE a == SubSeq(releases, 1, i - 1)
             b == SubSeq(releases, i + 1, Len(releases))
  <2>2. a \in Seq(Versions) /\ Len(a) = i - 1 /\ \A k \in 1 .. i - 1 : a[k] = releases[k]
    OBVIOUS
  <2>3. /\ b \in Seq(Versions) /\ Len(b) = Len(releases) - i
        /\ \A k \in 1 .. Len(releases) - i : b[k] = releases[k + i]
    OBVIOUS
  <2>4. Without(v) = a \o b
    BY <2>1 DEF RemoveAt
  <2> HIDE DEF a, b
  <2>5. a \o b \in Seq(Versions) /\ Len(a \o b) = Len(a) + Len(b)
    <3>1. a \in Seq(Versions) /\ b \in Seq(Versions)
      BY <2>2, <2>3
    <3> QED
      BY ONLY <3>1
  <2>6. ASSUME NEW k \in 1 .. Len(releases), releases[k] # v PROVE releases[k] \in ToSet(a \o b)
    <3>1. CASE k < i
      <4>1. k \in 1 .. Len(a) /\ (a \o b)[k] = releases[k]
        BY <2>0, <2>2, <2>3, <3>1
      <4>2. k \in DOMAIN (a \o b)
        BY <2>0, <2>2, <2>3, <2>5, <4>1
      <4> QED
        BY <4>1, <4>2 DEF ToSet
    <3>2. CASE k > i
      <4>1. k - i \in 1 .. Len(releases) - i /\ (k - i) + i = k
        BY <2>0, <3>2
      <4>2. k - 1 \in 1 .. Len(a) + Len(b) /\ (a \o b)[k - 1] = b[(k - 1) - Len(a)]
        BY <2>0, <2>2, <2>3, <3>2
      <4>3. b[k - i] = releases[k] /\ (k - 1) - Len(a) = k - i
        BY <2>0, <2>2, <2>3, <4>1
      <4>4. k - 1 \in DOMAIN (a \o b)
        BY <2>5, <4>2
      <4> QED
        BY <4>2, <4>3, <4>4 DEF ToSet
    <3>3. k # i
      BY <2>1, <2>6
    <3> QED
      BY <2>0, <3>1, <3>2, <3>3
  <2>7. ToSet(releases) \ {v} \subseteq ToSet(a \o b)
    BY <2>0, <2>6 DEF ToSet
  <2> QED
    BY <2>4, <2>5, <2>7
<1> QED
  BY <1>1, <1>2

\* What prune keeps are releases.
LEMMA ReleasesKept ==
    ASSUME releases \in Seq(Versions), current \in Versions
    PROVE  kept \in Seq(Versions)
<1> DEFINE others == Without(current)
           n == Len(others)
<1>1. others \in Seq(Versions) /\ n \in Nat
  BY ReleaseRemoved
<1> HIDE DEF others
<1>2. CASE n <= KeepReleases - 1
  BY <1>1, <1>2 DEF kept, others
<1>3. CASE n > KeepReleases - 1
  <2>1. n - KeepReleases + 2 >= 1 /\ n - KeepReleases + 2 \in Int
    BY <1>1, <1>3, UpgradeAssumption
  <2>2. SubSeq(others, n - KeepReleases + 2, n) \in Seq(Versions)
    BY <1>1, <2>1
  <2>3. kept = SubSeq(others, n - KeepReleases + 2, n)
    <3>1. ~(n <= KeepReleases - 1)
      BY <1>1, <1>3, UpgradeAssumption
    <3> QED
      BY <3>1 DEF kept, others
  <2> QED
    BY <2>2, <2>3
<1> QED
  BY <1>1, <1>2, <1>3, UpgradeAssumption

\* What fetch leaves on disk: the release in use, and the one it unpacked.
LEMMA Fetched ==
    ASSUME UpgradeTypeOK, NEW v \in Versions, fetch(v)
    PROVE  /\ releases' \in Seq(Versions) /\ current \in ToSet(releases')
           /\ upgrade'.at # "none" => v \in ToSet(releases')
<1> USE DEF UpgradeTypeOK
<1>1. Without(v) \in Seq(Versions) /\ ToSet(releases) \ {v} \subseteq ToSet(Without(v))
  BY ReleaseRemoved
<1>2. Append(Without(v), v) \in Seq(Versions) /\ ToSet(Append(Without(v), v)) = ToSet(Without(v)) \cup {v}
  BY <1>1, ReleaseAdded
<1>3. CASE v = current
  BY <1>3 DEF fetch
<1>4. CASE v # current
  BY <1>1, <1>2, <1>4 DEF fetch, NoUpgrade
<1> QED
  BY <1>3, <1>4

\* The upgrade under way is a record that its steps change field by field.
UpgradeRecord ==
    [at : UpgradeStages, prev : Versions \cup {0}, target : Versions \cup {0},
     cancelled : BOOLEAN, problems : BOOLEAN]

\* The progress of the command keeps its type.
LEMMA UpgradeRecordStep ==
    upgrade \in UpgradeRecord /\ current \in Versions /\ [UpgradeNext]_upgradeVars
        => upgrade' \in UpgradeRecord
<1> SUFFICES ASSUME upgrade \in UpgradeRecord, current \in Versions, [UpgradeNext]_upgradeVars
             PROVE  upgrade' \in UpgradeRecord
  OBVIOUS
<1>1. \A at \in UpgradeStages : [upgrade EXCEPT !.at = at] \in UpgradeRecord
  BY DEF UpgradeRecord
<1>2. \A at \in UpgradeStages : [upgrade EXCEPT !.at = at, !.problems = TRUE] \in UpgradeRecord
  BY DEF UpgradeRecord
<1>3. [upgrade EXCEPT !.cancelled = TRUE] \in UpgradeRecord
  BY DEF UpgradeRecord
<1>4. \/ upgrade' = upgrade
      \/ \E at \in UpgradeStages : upgrade' = [upgrade EXCEPT !.at = at]
      \/ \E at \in UpgradeStages : upgrade' = [upgrade EXCEPT !.at = at, !.problems = TRUE]
      \/ upgrade' = [upgrade EXCEPT !.cancelled = TRUE]
      \/ \E v \in Versions : fetch(v)
  BY DEF UpgradeNext, upgradeVars, BackUp, StopStep, switchTo, Migrate, StartStep, HealthStep,
         rollbackStop, rollbackSwitch, rollbackRestore, rollbackStart, Interrupt, GoTo, Problem,
         Return, UpgradeStages, RollbackStages
<1>5. ASSUME NEW v \in Versions, fetch(v) PROVE upgrade' \in UpgradeRecord
  BY <1>5 DEF fetch, NoUpgrade, UpgradeRecord, UpgradeStages
<1> QED
  BY <1>1, <1>2, <1>3, <1>4, <1>5

\* What a step does to the record, field by field.
SameTask == upgrade'.prev = upgrade.prev /\ upgrade'.target = upgrade.target

\* The command goes on to a stage.
LEMMA StageMoves ==
    ASSUME upgrade \in UpgradeRecord, NEW at, GoTo(at)
    PROVE  /\ upgrade'.at = at /\ SameTask /\ upgrade'.cancelled = upgrade.cancelled
           /\ upgrade'.problems = upgrade.problems
  BY DEF UpgradeRecord, GoTo, SameTask

\* The command ends.
LEMMA StageReturns ==
    ASSUME upgrade \in UpgradeRecord, NEW said, Return(said)
    PROVE  /\ upgrade'.at = "none" /\ SameTask /\ upgrade'.cancelled = upgrade.cancelled
           /\ upgrade'.problems = upgrade.problems /\ outcome' = said
  BY DEF UpgradeRecord, Return, SameTask

\* The command goes on with a problem to report.
LEMMA StageProblem ==
    ASSUME upgrade \in UpgradeRecord, NEW at, Problem(at)
    PROVE  /\ upgrade'.at = at /\ SameTask /\ upgrade'.cancelled = upgrade.cancelled
           /\ upgrade'.problems = TRUE
  BY DEF UpgradeRecord, Problem, SameTask

\* The disk holds the releases an upgrade may come back to or go to.
DiskInv ==
    /\ releases \in Seq(Versions) /\ current \in OnDisk
    /\ upgrade.at # "none" => upgrade.prev \in OnDisk /\ upgrade.target \in OnDisk

ScalarsOK ==
    /\ current \in Versions /\ schema \in Versions \cup {0} /\ running \in Versions \cup {0}
    /\ outcome \in {"none", "nothing_changed", "upgraded", "rolled_back", "rollback_incomplete"}
    /\ failures \in Nat /\ interruptions \in Nat

\* The types, one by one.
LEMMA UpgradeTypes == UpgradeTypeOK <=> ScalarsOK /\ upgrade \in UpgradeRecord
                                        /\ releases \in Seq(Versions) /\ current \in OnDisk
  BY DEF UpgradeTypeOK, ScalarsOK, UpgradeRecord, OnDisk

\* The releases on disk are those, whichever step fails.
LEMMA DiskStep ==
    UpgradeTypeOK /\ DiskInv /\ [UpgradeNext]_upgradeVars => DiskInv'
<1> SUFFICES ASSUME UpgradeTypeOK, DiskInv, [UpgradeNext]_upgradeVars PROVE DiskInv'
  OBVIOUS
<1>0. upgrade \in UpgradeRecord /\ current \in Versions
  BY UpgradeTypes DEF ScalarsOK
<1>1. ASSUME NEW v \in Versions, fetch(v) PROVE DiskInv'
  <2>1. /\ current' = current
        /\ upgrade'.at # "none" => upgrade'.prev = current /\ upgrade'.target = v
    BY <1>1 DEF fetch, NoUpgrade
  <2> QED
    BY <1>1, <2>1, Fetched DEF DiskInv, OnDisk
<1>2. CASE HealthStep
  <2>1. CASE releases' = Append(kept, current) /\ Return("upgraded")
    <3>1. kept \in Seq(Versions)
      BY <1>0, ReleasesKept DEF DiskInv
    <3>2. releases' \in Seq(Versions) /\ ToSet(releases') = ToSet(kept) \cup {current}
      BY <1>0, <2>1, <3>1, ReleaseAdded
    <3> QED
      BY <1>0, <1>2, <2>1, <3>2, StageReturns DEF HealthStep, DiskInv, OnDisk
  <2>2. CASE GoTo("rollback") /\ UNCHANGED releases
    BY <1>0, <1>2, <2>2, StageMoves DEF HealthStep, DiskInv, OnDisk, SameTask, At
  <2> QED
    BY <1>2, <2>1, <2>2 DEF HealthStep
<1>3. CASE UNCHANGED upgradeVars
  BY <1>3 DEF upgradeVars, DiskInv, OnDisk
<1>4. CASE /\ releases' = releases /\ upgrade.at # "none" /\ SameTask
           /\ current' \in {current, upgrade.prev, upgrade.target}
  BY <1>4 DEF DiskInv, OnDisk, SameTask
<1> USE <1>0, StageMoves, StageReturns, StageProblem DEF At
<1>5. CASE BackUp
  BY <1>4, <1>5 DEF BackUp
<1>6. CASE StopStep
  BY <1>4, <1>6 DEF StopStep
<1>7. CASE switchTo
  BY <1>4, <1>7 DEF switchTo
<1>8. CASE Migrate
  BY <1>4, <1>8 DEF Migrate, SameTask
<1>9. CASE StartStep
  BY <1>4, <1>9 DEF StartStep
<1>10. CASE rollbackStop
  BY <1>4, <1>10 DEF rollbackStop
<1>11. CASE rollbackSwitch
  BY <1>4, <1>11 DEF rollbackSwitch
<1>12. CASE rollbackRestore
  BY <1>4, <1>12 DEF rollbackRestore
<1>13. CASE rollbackStart
  BY <1>4, <1>13 DEF rollbackStart
<1>14. CASE Interrupt
  BY <1>4, <1>14 DEF Interrupt, SameTask, UpgradeRecord
<1> QED
  BY <1>1, <1>2, <1>3, <1>5, <1>6, <1>7, <1>8, <1>9, <1>10, <1>11, <1>12, <1>13, <1>14 DEF UpgradeNext

UpgradeInv == UpgradeTypeOK /\ DiskInv /\ StagesInv /\ FailuresInv /\ UpgradeSound

\* No command runs at first.
LEMMA UpgradeStarts == UpgradeInit => UpgradeInv
<1> SUFFICES ASSUME UpgradeInit PROVE UpgradeInv
  OBVIOUS
<1>1. releases \in Seq(Versions) /\ ToSet(releases) = {1}
  BY UpgradeAssumption DEF UpgradeInit, ToSet
<1> QED
  BY <1>1, UpgradeAssumption
     DEF UpgradeInit, UpgradeInv, UpgradeTypeOK, DiskInv, StagesInv, FailuresInv, UpgradeSound, OutcomeTrue,
         SchemaFits, OneFailureRecovered, NoUpgrade, Consistent, OnDisk, RollbackStages,
         UpgradeStages

\* Every step keeps the types of the other variables.
LEMMA ScalarsStep ==
    UpgradeTypeOK /\ StagesInv /\ [UpgradeNext]_upgradeVars => ScalarsOK'
<1> SUFFICES ASSUME UpgradeTypeOK, StagesInv, [UpgradeNext]_upgradeVars PROVE ScalarsOK'
  OBVIOUS
<1>0. upgrade \in UpgradeRecord /\ ScalarsOK
  BY UpgradeTypes
<1>1. \A n \in Versions \cup {0} : n \in Nat
  BY UpgradeAssumption
<1>2. ASSUME NEW v \in Versions, fetch(v) PROVE ScalarsOK'
  BY <1>0, <1>2 DEF fetch, ScalarsOK
<1>3. CASE Migrate
  <2>1. schema + 1 <= upgrade.target => schema + 1 \in Versions
    <3>1. upgrade.target \in Nat /\ schema \in Nat
      BY <1>0, <1>1 DEF UpgradeRecord, ScalarsOK
    <3> QED
      BY <1>0, <3>1, UpgradeAssumption DEF UpgradeRecord
  <2>2. schema < upgrade.target => schema + 1 <= upgrade.target
    BY <1>0, <1>1 DEF UpgradeRecord, ScalarsOK
  <2> QED
    BY <1>0, <1>3, <2>1, <2>2 DEF Migrate, ScalarsOK, Works, Fails
<1>4. CASE switchTo
  <2>1. upgrade.target \in Versions
    <3>1. upgrade.prev \in Nat \ {0} /\ upgrade.target \in Nat /\ upgrade.prev <= upgrade.target
      BY <1>0, <1>1, <1>4 DEF switchTo, At, StagesInv, UpgradeRecord
    <3>2. upgrade.target \in Versions \cup {0} /\ upgrade.target # 0
      BY <1>0, <3>1 DEF UpgradeRecord
    <3> QED
      BY <3>2
  <2> QED
    BY <1>0, <1>4, <2>1 DEF switchTo, ScalarsOK
<1>5. CASE rollbackSwitch
  <2>1. upgrade.prev \in Versions
    BY <1>0, <1>5 DEF rollbackSwitch, At, StagesInv, UpgradeRecord
  <2> QED
    BY <1>0, <1>5, <2>1 DEF rollbackSwitch, ScalarsOK
<1>6. CASE rollbackRestore
  BY <1>0, <1>6 DEF rollbackRestore, ScalarsOK, UpgradeRecord, Works, Fails
<1> USE <1>0 DEF ScalarsOK, Works, Fails, Return
<1>7. CASE BackUp \/ StopStep
  BY <1>7 DEF BackUp, StopStep
<1>8. CASE StartStep \/ HealthStep
  BY <1>8 DEF StartStep, HealthStep
<1>9. CASE rollbackStop \/ rollbackStart
  BY <1>9 DEF rollbackStop, rollbackStart
<1>10. CASE Interrupt \/ UNCHANGED upgradeVars
  BY <1>10 DEF Interrupt, upgradeVars
<1> QED
  BY <1>2, <1>3, <1>4, <1>5, <1>6, <1>7, <1>8, <1>9, <1>10 DEF UpgradeNext

\* Every step finds what its stage promises, and leaves what the next one
\* counts on.
LEMMA StagesStep ==
    UpgradeInv /\ [UpgradeNext]_upgradeVars => StagesInv' /\ FailuresInv' /\ UpgradeSound'
<1> SUFFICES ASSUME UpgradeInv, [UpgradeNext]_upgradeVars
             PROVE  StagesInv' /\ FailuresInv' /\ UpgradeSound'
  OBVIOUS
<1>0. /\ upgrade \in UpgradeRecord /\ ScalarsOK /\ ScalarsOK' /\ StagesInv /\ FailuresInv
      /\ UpgradeSound
  BY UpgradeTypes, ScalarsStep DEF UpgradeInv
<1>1. /\ upgrade.at \in UpgradeStages /\ upgrade.cancelled \in BOOLEAN /\ upgrade.problems \in BOOLEAN
      /\ upgrade.prev \in Nat /\ upgrade.target \in Nat
      /\ \A n \in Versions \cup {0} : n \in Nat
  <2>1. \A n \in Versions \cup {0} : n \in Nat
    BY UpgradeAssumption
  <2> QED
    BY <1>0, <2>1 DEF UpgradeRecord
<1> USE <1>0, <1>1, StageMoves, StageReturns, StageProblem
    DEF StagesInv, FailuresInv, UpgradeSound, OutcomeTrue, SchemaFits, OneFailureRecovered, Consistent,
        ScalarsOK, RollbackStages, At, Works, Fails, SameTask
<1>2. CASE UNCHANGED upgradeVars
  BY <1>2 DEF upgradeVars
<1>3. ASSUME NEW v \in Versions, outcome # "rollback_incomplete", fetch(v)
      PROVE  StagesInv' /\ FailuresInv' /\ UpgradeSound'
  <2>0. current # 0 /\ current \in Nat /\ v \in Nat /\ v >= current /\ upgrade.at = "none"
    BY <1>3, UpgradeAssumption DEF fetch
  <2>1. /\ UNCHANGED <<current, schema, running, interruptions>> /\ ~upgrade'.cancelled
        /\ ~upgrade'.problems /\ upgrade'.prev = current /\ upgrade'.target = v
        /\ \/ upgrade'.at = "fetched" /\ UNCHANGED <<failures, outcome>>
           \/ upgrade'.at = "none" /\ failures' = failures + 1 /\ outcome' = "nothing_changed"
    BY <1>3 DEF fetch, NoUpgrade
  <2> QED
    BY <1>3, <2>0, <2>1
<1>4. CASE BackUp
  BY <1>4 DEF BackUp
<1>5. CASE StopStep
  BY <1>5 DEF StopStep
<1>6. CASE switchTo
  BY <1>6 DEF switchTo
<1>7. CASE Migrate
  BY <1>7 DEF Migrate
<1>8. CASE StartStep
  BY <1>8 DEF StartStep
<1>9. CASE HealthStep
  BY <1>9 DEF HealthStep
<1>10. CASE rollbackStop
  <2>1. CASE Works /\ running' = 0 /\ GoTo("roll_switch")
    BY <1>10, <2>1 DEF rollbackStop
  <2>2. CASE Fails /\ UNCHANGED running /\ Problem("roll_switch")
    <3>1. /\ upgrade'.at = "roll_switch" /\ upgrade'.problems = TRUE /\ SameTask
          /\ upgrade'.cancelled = upgrade.cancelled
      BY <2>2
    <3> QED
      BY <1>10, <2>2, <3>1 DEF rollbackStop
  <2> QED
    BY <1>10, <2>1, <2>2 DEF rollbackStop
<1>11. CASE rollbackSwitch
  <2>1. CASE UNCHANGED failures /\ current' = upgrade.prev /\ GoTo("roll_restore")
    BY <1>11, <2>1 DEF rollbackSwitch
  <2>2. CASE failures' = failures + 1 /\ Problem("roll_restore")
    <3>1. /\ upgrade'.at = "roll_restore" /\ upgrade'.problems = TRUE /\ SameTask
          /\ upgrade'.cancelled = upgrade.cancelled
      BY <2>2
    <3> QED
      BY <1>11, <2>2, <3>1 DEF rollbackSwitch
  <2> QED
    BY <1>11, <2>1, <2>2 DEF rollbackSwitch
<1>12. CASE rollbackRestore
  <2>1. CASE Works /\ schema' = upgrade.prev /\ GoTo("roll_start")
    BY <1>12, <2>1 DEF rollbackRestore
  <2>2. CASE Fails /\ Problem("roll_start")
    <3>1. /\ upgrade'.at = "roll_start" /\ upgrade'.problems = TRUE /\ SameTask
          /\ upgrade'.cancelled = upgrade.cancelled
      BY <2>2
    <3> QED
      BY <1>12, <2>2, <3>1 DEF rollbackRestore
  <2> QED
    BY <1>12, <2>1, <2>2 DEF rollbackRestore
<1>13. CASE rollbackStart
  BY <1>13 DEF rollbackStart
<1>14. CASE Interrupt
  BY <1>14 DEF Interrupt, UpgradeRecord
<1> QED
  BY <1>2, <1>3, <1>4, <1>5, <1>6, <1>7, <1>8, <1>9, <1>10, <1>11, <1>12, <1>13, <1>14 DEF UpgradeNext

\* Every step of the command keeps the invariant.
LEMMA UpgradeStep == UpgradeInv /\ [UpgradeNext]_upgradeVars => UpgradeInv'
<1> SUFFICES ASSUME UpgradeInv, [UpgradeNext]_upgradeVars PROVE UpgradeInv'
  OBVIOUS
<1>1. upgrade' \in UpgradeRecord
  BY UpgradeTypes, UpgradeRecordStep DEF UpgradeInv, ScalarsOK
<1>2. ScalarsOK' /\ DiskInv'
  BY ScalarsStep, DiskStep DEF UpgradeInv
<1>3. UpgradeTypeOK'
  BY <1>1, <1>2 DEF UpgradeTypeOK, ScalarsOK, UpgradeRecord, DiskInv, OnDisk
<1> QED
  BY <1>2, <1>3, StagesStep DEF UpgradeInv

\* However its steps fail and an operator interrupts it, an upgrade tells the
\* truth about how it ended, never leaves services on the schema of another
\* release unless its rollback reports a problem, undoes a single failure
\* completely, and keeps the release in use on disk (upgrade/upgrade.go).
THEOREM UpgradesSound == UpgradeSpec => [](UpgradeTypeOK /\ UpgradeSound)
<1>1. UpgradeInv => UpgradeTypeOK /\ UpgradeSound
  BY DEF UpgradeInv
<1> QED
  BY <1>1, UpgradeStarts, UpgradeStep, PTL DEF UpgradeSpec

(***************************************************************************)
(* User tests and testcase jobs.  Bags of messages first.                  *)
(***************************************************************************)
LEMMA BagGrows ==
    ASSUME NEW B, NEW S, IsABag(B)
    PROVE  /\ IsABag(B (+) SetToBag(S))
           /\ BagToSet(B (+) SetToBag(S)) = BagToSet(B) \cup S
  BY DEF IsABag, BagToSet, SetToBag, (+)

\* A bag with one element less is a bag.
LEMMA BagShrinks ==
    ASSUME NEW B, NEW x, IsABag(B)
    PROVE  /\ IsABag(B (-) SetToBag({x}))
           /\ BagToSet(B (-) SetToBag({x})) \subseteq BagToSet(B)
  BY DEF IsABag, BagToSet, SetToBag, (-)

\* The empty bag.
LEMMA BagStarts == IsABag(EmptyBag) /\ BagToSet(EmptyBag) = {} /\ EmptyBag = SetToBag({})
  BY DEF IsABag, BagToSet, SetToBag, EmptyBag

\* The types of what is on its way, and of the rows.
PostOK ==
    /\ IsABag(messages) /\ BagToSet(messages) \subseteq Message
    /\ IsABag(results) /\ BagToSet(results) \subseteq Result
    /\ drops \in Nat /\ workerFaults \in Nat

RowsOK ==
    /\ run \in [Runs -> RunState] /\ asked \in SUBSET Runs
    /\ job \in [Jobs -> Job] /\ configured \in BOOLEAN /\ solved \in [Jobs -> Nat]

\* The types, one by one.
LEMMA JobsTypes == JobsTypeOK <=> PostOK /\ RowsOK
  BY DEF JobsTypeOK, PostOK, RowsOK

\* A message enqueued, or dropped, keeps the types.
LEMMA Enqueued ==
    ASSUME PostOK, NEW r \in Runs, NEW n \in Nat, Enqueue(r, n)
    PROVE  IsABag(messages') /\ BagToSet(messages') \subseteq Message /\ drops' \in Nat
<1> DEFINE k == [run |-> r, attempt |-> n, owned |-> TRUE]
<1>1. k \in Message
  BY DEF Message
<1>2. \/ messages' = messages (+) SetToBag({k}) /\ UNCHANGED drops
      \/ drops' = drops + 1 /\ UNCHANGED messages
  BY DEF Enqueue
<1> HIDE DEF k
<1>3. CASE messages' = messages (+) SetToBag({k}) /\ UNCHANGED drops
  BY <1>1, <1>3, BagGrows DEF PostOK
<1>4. CASE drops' = drops + 1 /\ UNCHANGED messages
  BY <1>4 DEF PostOK
<1> QED
  BY <1>2, <1>3, <1>4

\* A sweep asked for is of the run.
LEMMA Notified ==
    ASSUME drops \in Nat, asked \in SUBSET Runs, NEW r \in Runs, Notify(r)
    PROVE  drops' \in Nat /\ asked' \in SUBSET Runs /\ asked' \subseteq asked \cup {r}
  BY DEF Notify

\* The runs of tests and of jobs.
LEMMA RunIds ==
    /\ \A t \in Tests : <<t, "test">> \in Runs
    /\ \A j \in Jobs, s \in Steps : <<j, s>> \in Runs
  BY DEF Runs

\* The messages keep their type when a result is handled.
LEMMA HandledPost ==
    ASSUME JobsTypeOK, NEW m \in BagToSet(results), handleUserTestResult(m)
    PROVE  PostOK'
<1>0. PostOK /\ RowsOK /\ m \in Result /\ m.run \in Runs /\ m.attempt \in Nat
  BY JobsTypes DEF PostOK, Result
<1>1. IsABag(results') /\ BagToSet(results') \subseteq Result /\ workerFaults' \in Nat
  <2>1. CASE results' = results (-) SetToBag({m}) /\ UNCHANGED workerFaults
    BY <1>0, <2>1, BagShrinks DEF PostOK
  <2>2. CASE workerFaults' = workerFaults + 1 /\ UNCHANGED results
    BY <1>0, <2>2 DEF PostOK
  <2> QED
    BY <2>1, <2>2 DEF handleUserTestResult, AckResults
<1>2. ASSUME NEW end, NEW out, testcaseJobStep(m.run, out, end) PROVE drops' \in Nat
  <2>1. \A j \in Jobs : Notify(<<j, "output">>) => drops' \in Nat
    BY <1>0 DEF Notify, PostOK
  <2> QED
    BY <1>0, <1>2, <2>1 DEF testcaseJobStep, PostOK, Stay
<1>3. IsABag(messages') /\ BagToSet(messages') \subseteq Message /\ drops' \in Nat
  <2>1. CASE resultStale(m)
    BY <1>0, <2>1 DEF resultStale, PostOK
  <2>2. CASE resultRetry(m)
    <3>1. m.attempt + 1 \in Nat
      BY <1>0
    <3> QED
      BY <1>0, <2>2, <3>1, Enqueued DEF resultRetry
  <2>3. CASE resultGivenUp(m)
    BY <1>0, <1>2, <2>3 DEF resultGivenUp, PostOK
  <2>4. CASE resultEnded(m)
    BY <1>0, <1>2, <2>4 DEF resultEnded, PostOK
  <2> QED
    BY <2>1, <2>2, <2>3, <2>4 DEF handleUserTestResult
<1> QED
  BY <1>1, <1>3 DEF PostOK

\* A message delivered again keeps the types.
LEMMA RequeuedPost ==
    ASSUME JobsTypeOK, NEW m \in BagToSet(messages), Requeue(m)
    PROVE  PostOK'
<1>0. PostOK /\ m \in Message
  BY JobsTypes DEF PostOK
<1> DEFINE k == [m EXCEPT !.attempt = @ + 1]
           s == [m EXCEPT !.owned = FALSE]
           e == [run |-> k.run, attempt |-> k.attempt, out |-> "error"]
<1>1. k \in Message /\ s \in Message
  <2>1. m.attempt + 1 \in Nat
    BY <1>0 DEF Message
  <2> QED
    BY <1>0, <2>1 DEF Message
<1>2. e \in Result
  BY <1>1 DEF Message, Result, Outcome
<1>3. PICK L \in SUBSET {s} :
        \/ /\ messages' = (messages (-) SetToBag({m})) (+) SetToBag({k}) (+) SetToBag(L)
           /\ UNCHANGED results
        \/ /\ messages' = (messages (-) SetToBag({m})) (+) SetToBag(L)
           /\ Publish(k, "error")
  <2>1. PICK left \in {EmptyBag, SetToBag({s})} :
          \/ /\ messages' = (messages (-) SetToBag({m})) (+) SetToBag({k}) (+) left
             /\ UNCHANGED results
          \/ /\ messages' = (messages (-) SetToBag({m})) (+) left
             /\ Publish(k, "error")
    BY Zenon DEF Requeue
  <2>2. PICK L \in SUBSET {s} : left = SetToBag(L)
    BY BagStarts
  <2> QED
    BY <2>1, <2>2
<1> DEFINE A == messages (-) SetToBag({m})
           B == A (+) SetToBag({k})
<1>4. IsABag(A) /\ BagToSet(A) \subseteq Message
  BY <1>0, BagShrinks DEF PostOK
<1>5. IsABag(B) /\ BagToSet(B) \subseteq Message
  BY <1>1, <1>4, BagGrows
<1> HIDE DEF A, B
<1>6. IsABag(messages') /\ BagToSet(messages') \subseteq Message
  <2>1. L \subseteq Message
    BY <1>1
  <2>2. messages' \in {A (+) SetToBag(L), B (+) SetToBag(L)}
    BY <1>3 DEF A, B
  <2> QED
    BY <1>4, <1>5, <2>1, <2>2, BagGrows
<1>7. IsABag(results') /\ BagToSet(results') \subseteq Result
  <2>1. results' \in {results, results (+) SetToBag({e})}
    BY <1>3 DEF Publish
  <2> QED
    BY <1>0, <1>2, <2>1, BagGrows DEF PostOK
<1> QED
  BY <1>0, <1>6, <1>7 DEF PostOK, Requeue

\* Every step keeps the messages typed.
LEMMA PostStep == JobsTypeOK /\ [JobsNext]_jobVars => PostOK'
<1> SUFFICES ASSUME JobsTypeOK, [JobsNext]_jobVars PROVE PostOK'
  OBVIOUS
<1>0. PostOK /\ RowsOK
  BY JobsTypes
<1>1. CASE UNCHANGED jobVars
  BY <1>0, <1>1 DEF jobVars, PostOK
<1>2. ASSUME NEW t \in Tests, SubmitUserTest(t) PROVE PostOK'
  BY <1>0, <1>2 DEF SubmitUserTest, Notify, PostOK
<1>3. ASSUME NEW j \in Jobs, startTestcaseJobs(j) PROVE PostOK'
  <2>1. drops' \in Nat
    BY <1>0, <1>3 DEF startTestcaseJobs, Notify, PostOK
  <2> QED
    BY <1>0, <1>3, <2>1 DEF startTestcaseJobs, PostOK
<1>4. ASSUME NEW j \in Jobs, handleTestcaseJobsClear(j) PROVE PostOK'
  BY <1>0, <1>4 DEF handleTestcaseJobsClear, PostOK
<1>5. CASE RemoveLanguage
  BY <1>0, <1>5 DEF RemoveLanguage, PostOK
<1>6. ASSUME NEW r \in Runs, advanceUserTest(r) PROVE PostOK'
  <2>1. IsABag(messages') /\ BagToSet(messages') \subseteq Message /\ drops' \in Nat
    <3>1. 0 \in Nat
      OBVIOUS
    <3>2. CASE Enqueue(r, 0)
      BY <1>0, <3>1, <3>2, Enqueued
    <3>3. CASE UNCHANGED <<messages, drops>>
      BY <1>0, <3>3 DEF PostOK
    <3> QED
      BY <1>6, <3>2, <3>3 DEF advanceUserTest
  <2> QED
    BY <1>0, <1>6, <2>1 DEF advanceUserTest, PostOK
<1>7. ASSUME NEW r \in Runs, Elapse(r) PROVE PostOK'
  BY <1>0, <1>7 DEF Elapse, PostOK
<1>8. ASSUME NEW r \in Runs, HandleResultOf(r) PROVE PostOK'
  BY <1>8, HandledPost DEF HandleResultOf
<1>9. ASSUME NEW m \in BagToSet(messages), Complete(m) PROVE PostOK'
  <2>1. PICK out \in Outcome : Publish(m, out)
    BY <1>9 DEF Complete
  <2>2. [run |-> m.run, attempt |-> m.attempt, out |-> out] \in Result
    BY <1>0 DEF PostOK, Message, Result
  <2>3. IsABag(results') /\ BagToSet(results') \subseteq Result
    BY <1>0, <2>1, <2>2, BagGrows DEF Publish, PostOK
  <2>4. IsABag(messages') /\ BagToSet(messages') \subseteq Message
    BY <1>0, <1>9, BagShrinks DEF Complete, PostOK
  <2> QED
    BY <1>0, <1>9, <2>3, <2>4 DEF Complete, PostOK
<1>10. ASSUME NEW m \in BagToSet(messages), Requeue(m) PROVE PostOK'
  BY <1>10, RequeuedPost
<1> QED
  BY <1>1, <1>2, <1>3, <1>4, <1>5, <1>6, <1>7, <1>8, <1>9, <1>10
     DEF JobsNext, newUserTest, sweepUserTests, CompleteOf

\* A notified run has its row, and a job has only the runs its state tells
\* of: none before it starts, no solution run while its generator runs.
JobRunsInv ==
    /\ \A r \in asked : run[r] # "absent"
    /\ \A j \in Jobs :
         /\ job[j].state = "none" =>
              run[<<j, "input">>] = "absent" /\ run[<<j, "output">>] = "absent"
         /\ job[j].state = "input" =>
              run[<<j, "input">>] # "absent" /\ run[<<j, "output">>] = "absent" /\ solved[j] = 0
         /\ job[j].state = "output" => run[<<j, "output">>] # "absent"

JobsInv == JobsTypeOK /\ JobRunsInv /\ JobsSound

\* Nothing is under way at first.
LEMMA JobsStarts == JobsInit => JobsInv
<1> SUFFICES ASSUME JobsInit PROVE JobsInv
  OBVIOUS
<1>1. PostOK /\ RowsOK
  BY BagStarts DEF JobsInit, PostOK, RowsOK, RunState, Job, JobState
<1>2. \A j \in Jobs, st \in Steps : run[<<j, st>>] = "absent"
  BY RunIds DEF JobsInit
<1> QED
  BY <1>1, <1>2, JobsTypes
     DEF JobsInit, JobsInv, JobRunsInv, JobsSound, StepsOnce, JobMovesOn, Steps, Completed

\* A run that is unfinished or not begun goes on, and nothing else changes.
LEMMA RunGoesOn ==
    ASSUME JobsInv, NEW r \in Runs, run[r] \notin {"absent", "done", "error"},
           NEW s \in {"recent", "stale"}, run' = [run EXCEPT ![r] = s],
           UNCHANGED <<job, configured, solved>>, asked' \subseteq asked
    PROVE  RowsOK' /\ JobRunsInv' /\ JobsSound'
<1>0. RowsOK /\ JobRunsInv /\ JobsSound
  BY JobsTypes DEF JobsInv
<1>1. RowsOK'
  BY <1>0 DEF RowsOK, RunState
<1>2. \A q \in Runs : run'[q] = IF q = r THEN s ELSE run[q]
  BY <1>0 DEF RowsOK
<1>3. \A j \in Jobs, st \in Steps : <<j, st>> \in Runs
  BY RunIds
<1>4. JobRunsInv'
  BY <1>0, <1>2, <1>3 DEF JobRunsInv, RowsOK, Steps
<1>5. ASSUME NEW j \in Jobs
      PROVE  /\ solved'[j] <= 1
             /\ run'[<<j, "output">>] # "absent" => run'[<<j, "input">>] \in {"absent", "done"}
             /\ job'[j].state = "stored" =>
                  /\ \E st \in Steps : run'[<<j, st>>] = "done"
                  /\ \A st \in Steps : run'[<<j, st>>] \in {"absent", "done"}
  <2>1. \A st \in Steps : run[<<j, st>>] \in {"absent", "done"} => run'[<<j, st>>] = run[<<j, st>>]
    BY <1>2, <1>3
  <2>2. "input" \in Steps /\ "output" \in Steps
    BY DEF Steps
  <2>3. run'[<<j, "output">>] # "absent" => run[<<j, "output">>] # "absent"
    BY <1>2, <1>3, <2>2
  <2>4. /\ solved[j] <= 1
        /\ run[<<j, "output">>] # "absent" => run[<<j, "input">>] \in {"absent", "done"}
        /\ job[j].state = "stored" =>
             /\ \E st \in Steps : run[<<j, st>>] = "done"
             /\ \A st \in Steps : run[<<j, st>>] \in {"absent", "done"}
    BY <1>0 DEF JobsSound, StepsOnce
  <2> QED
    BY <2>1, <2>2, <2>3, <2>4
<1>6. JobMovesOn'
  BY <1>0, <1>2, <1>3 DEF JobsSound, JobMovesOn, Steps, Completed
<1> QED
  BY <1>1, <1>4, <1>5, <1>6 DEF JobsSound, StepsOnce

\* What is known of one job, which the steps of other jobs leave alone.
JobKnown(j) ==
    /\ job[j].state = "none" =>
         run[<<j, "input">>] = "absent" /\ run[<<j, "output">>] = "absent"
    /\ job[j].state = "input" =>
         run[<<j, "input">>] # "absent" /\ run[<<j, "output">>] = "absent" /\ solved[j] = 0
    /\ job[j].state = "output" => run[<<j, "output">>] # "absent"
    /\ solved[j] <= 1
    /\ run[<<j, "output">>] # "absent" => run[<<j, "input">>] \in {"absent", "done"}
    /\ job[j].state = "stored" =>
         /\ run[<<j, "input">>] = "done" \/ run[<<j, "output">>] = "done"
         /\ run[<<j, "input">>] \in {"absent", "done"}
         /\ run[<<j, "output">>] \in {"absent", "done"}
    /\ job[j].state \in Steps /\ Completed(<<j, job[j].state>>) =>
         j \in Fragile /\ ~configured /\ run[<<j, job[j].state>>] = "error"

AllKnown == (\A r \in asked : run[r] # "absent") /\ \A j \in Jobs : JobKnown(j)

\* The invariant, job by job.
LEMMA KnownParts == JobRunsInv /\ JobsSound <=> AllKnown
  BY DEF JobRunsInv, JobsSound, StepsOnce, JobMovesOn, AllKnown, JobKnown, Steps

\* A job whose rows stay as they are.
LEMMA OtherJobs ==
    ASSUME NEW j \in Jobs, JobKnown(j), job'[j] = job[j], solved'[j] = solved[j],
           run'[<<j, "input">>] = run[<<j, "input">>], run'[<<j, "output">>] = run[<<j, "output">>],
           configured' => configured
    PROVE  JobKnown(j)'
  BY DEF JobKnown, Steps, Completed

\* A run ends without its language: the one exception to JobMovesOn.
LEMMA RunErrs ==
    ASSUME RowsOK, AllKnown, NEW r \in Runs, run[r] # "absent", ~Completed(r), ~HasLanguage(r),
           run' = [run EXCEPT ![r] = "error"], UNCHANGED <<job, configured, solved>>,
           asked' \subseteq asked
    PROVE  RowsOK' /\ AllKnown'
<1>1. RowsOK'
  BY DEF RowsOK, RunState
<1>2. \A q \in Runs : run'[q] = IF q = r THEN "error" ELSE run[q]
  BY DEF RowsOK
<1>3. \A q \in asked' : run'[q] # "absent"
  BY <1>2 DEF RowsOK, AllKnown
<1>4. ASSUME NEW j \in Jobs PROVE JobKnown(j)'
  <2>0. JobKnown(j) /\ <<j, "input">> \in Runs /\ <<j, "output">> \in Runs
    BY RunIds DEF AllKnown, Steps
  <2>1. CASE r # <<j, "input">> /\ r # <<j, "output">>
    BY <1>2, <2>0, <2>1, OtherJobs
  <2>2. CASE r = <<j, "input">>
    <3>1. run[<<j, "output">>] = "absent" /\ j \in Fragile /\ ~configured'
      BY <2>0, <2>2 DEF JobKnown, Completed, HasLanguage
    <3>2. run'[<<j, "output">>] = "absent" /\ run'[<<j, "input">>] = "error"
      BY <1>2, <2>0, <2>2, <3>1
    <3> QED
      BY <2>0, <2>2, <3>1, <3>2 DEF JobKnown, Steps, Completed
  <2>3. CASE r = <<j, "output">>
    <3>1. j \in Fragile /\ ~configured'
      BY <2>3 DEF HasLanguage
    <3>2. run'[<<j, "input">>] = run[<<j, "input">>] /\ run'[<<j, "output">>] = "error"
      BY <1>2, <2>0, <2>3
    <3> QED
      BY <2>0, <2>3, <3>1, <3>2 DEF JobKnown, Steps, Completed
  <2> QED
    BY <2>1, <2>2, <2>3
<1> QED
  BY <1>1, <1>3, <1>4 DEF AllKnown

\* A result ends its run, and the job that waits for it moves on.
LEMMA JobMoves ==
    ASSUME RowsOK, AllKnown, drops \in Nat, NEW r \in Runs, Unfinished(r),
           NEW out \in Outcome, NEW end \in {"done", "error"}, out = "ok" => end = "done",
           UNCHANGED configured, testcaseJobStep(r, out, end)
    PROVE  RowsOK' /\ AllKnown'
<1> DEFINE ended == [run EXCEPT ![r] = end]
<1>0. ended \in [Runs -> RunState] /\ \A q \in Runs : ended[q] = IF q = r THEN end ELSE run[q]
  BY DEF RowsOK, RunState
<1> HIDE DEF ended
<1>1. CASE run' = ended /\ Stay /\ \A j \in Jobs : ~Waits(j, r)
  <2>1. RowsOK'
    BY <1>0, <1>1 DEF RowsOK, Stay
  <2>2. \A q \in asked' : run'[q] # "absent"
    BY <1>0, <1>1 DEF RowsOK, AllKnown, Stay
  <2>3. ASSUME NEW j \in Jobs PROVE JobKnown(j)'
    <3>0. JobKnown(j) /\ <<j, "input">> \in Runs /\ <<j, "output">> \in Runs
      BY RunIds DEF AllKnown, Steps
    <3>1. CASE r # <<j, "input">> /\ r # <<j, "output">>
      BY <1>0, <1>1, <3>0, <3>1, OtherJobs DEF Stay
    <3>2. CASE r = <<j, "input">>
      <4>1. run[<<j, "output">>] = "absent" /\ job[j].state \notin {"none", "input", "output", "stored"}
        BY <1>1, <3>0, <3>2 DEF JobKnown, Unfinished, Waits, Steps
      <4>2. run'[<<j, "output">>] = "absent" /\ job'[j] = job[j] /\ solved'[j] = solved[j]
        BY <1>0, <1>1, <3>0, <3>2, <4>1 DEF Stay
      <4> QED
        BY <3>0, <4>1, <4>2 DEF JobKnown, Steps
    <3>3. CASE r = <<j, "output">>
      <4>1. job[j].state \notin {"none", "input", "output", "stored"}
        BY <1>1, <3>0, <3>3 DEF JobKnown, Unfinished, Waits, Steps
      <4>2. run'[<<j, "input">>] = run[<<j, "input">>] /\ job'[j] = job[j] /\ solved'[j] = solved[j]
        BY <1>0, <1>1, <3>0, <3>3 DEF Stay
      <4>3. run[<<j, "output">>] # "absent"
        BY <3>3 DEF Unfinished
      <4> QED
        BY <3>0, <4>1, <4>2, <4>3 DEF JobKnown, Steps
    <3> QED
      BY <3>1, <3>2, <3>3
  <2> QED
    BY <2>1, <2>2, <2>3 DEF AllKnown
<1>2. ASSUME NEW j \in Jobs, Waits(j, r), run' = ended, NEW st \in {"failed", "stored"},
             SetJob(j, st), UNCHANGED <<solved, asked>>, st = "stored" => end = "done"
      PROVE  RowsOK' /\ AllKnown'
  <2>0. \A k \in Jobs : JobKnown(k) /\ <<k, "input">> \in Runs /\ <<k, "output">> \in Runs
    BY RunIds DEF AllKnown, Steps
  <2>1. job' \in [Jobs -> Job] /\ job'[j].state = st /\ \A k \in Jobs : k # j => job'[k] = job[k]
    BY <1>2 DEF RowsOK, SetJob, Job, JobState
  <2>2. RowsOK'
    BY <1>0, <1>2, <2>1 DEF RowsOK
  <2>3. \A q \in asked' : run'[q] # "absent"
    BY <1>0, <1>2 DEF RowsOK, AllKnown
  <2>4. ASSUME NEW k \in Jobs, k # j PROVE JobKnown(k)'
    <3>1. r # <<k, "input">> /\ r # <<k, "output">>
      BY <1>2, <2>4 DEF Waits
    <3> QED
      BY <1>0, <1>2, <2>0, <2>1, <2>4, <3>1, OtherJobs
  <2>5. JobKnown(j)'
    <3>1. CASE job[j].state = "input" /\ r = <<j, "input">>
      <4>1. run'[<<j, "output">>] = "absent" /\ run'[<<j, "input">>] = end
        BY <1>0, <1>2, <2>0, <3>1 DEF JobKnown
      <4> QED
        BY <1>2, <2>0, <2>1, <3>1, <4>1 DEF JobKnown, Steps
    <3>2. CASE job[j].state = "output" /\ r = <<j, "output">>
      <4>1. run'[<<j, "input">>] \in {"absent", "done"} /\ run'[<<j, "output">>] = end
        BY <1>0, <1>2, <2>0, <3>2 DEF JobKnown
      <4> QED
        BY <1>2, <2>0, <2>1, <3>2, <4>1 DEF JobKnown, Steps
    <3> QED
      BY <1>2, <3>1, <3>2 DEF Waits, Steps
  <2> QED
    BY <2>2, <2>3, <2>4, <2>5 DEF AllKnown
<1>3. ASSUME NEW j \in Jobs, Waits(j, r), job[j].state = "input", end = "done",
             run' = [ended EXCEPT ![<<j, "output">>] = "created"], SetJob(j, "output"),
             solved' = [solved EXCEPT ![j] = @ + 1], Notify(<<j, "output">>)
      PROVE  RowsOK' /\ AllKnown'
  <2>0. \A k \in Jobs : JobKnown(k) /\ <<k, "input">> \in Runs /\ <<k, "output">> \in Runs
    BY RunIds DEF AllKnown, Steps
  <2>1. job' \in [Jobs -> Job] /\ job'[j].state = "output" /\ \A k \in Jobs : k # j => job'[k] = job[k]
    BY <1>3 DEF RowsOK, SetJob, Job, JobState
  <2>2. solved' \in [Jobs -> Nat] /\ solved'[j] = 1 /\ \A k \in Jobs : k # j => solved'[k] = solved[k]
    <3>1. solved[j] = 0 /\ solved \in [Jobs -> Nat]
      BY <1>3, <2>0 DEF RowsOK, JobKnown
    <3> QED
      BY <1>3, <3>1
  <2>3. /\ run' \in [Runs -> RunState]
        /\ \A q \in Runs : run'[q] = IF q = <<j, "output">> THEN "created" ELSE ended[q]
    BY <1>0, <1>3, <2>0 DEF RunState
  <2>4. asked' \in SUBSET Runs /\ asked' \subseteq asked \cup {<<j, "output">>}
    BY <1>3, <2>0, Notified DEF RowsOK
  <2>5. RowsOK'
    BY <2>1, <2>2, <2>3, <2>4 DEF RowsOK
  <2>6. \A q \in asked' : run'[q] # "absent"
    BY <1>0, <2>3, <2>4 DEF AllKnown
  <2>7. ASSUME NEW k \in Jobs, k # j PROVE JobKnown(k)'
    <3>1. r # <<k, "input">> /\ r # <<k, "output">> /\ <<k, "output">> # <<j, "output">>
      BY <1>3, <2>7 DEF Waits
    <3> QED
      BY <1>0, <2>0, <2>1, <2>2, <2>3, <2>7, <3>1, OtherJobs
  <2>8. JobKnown(j)'
    <3>1. run'[<<j, "input">>] = "done" /\ run'[<<j, "output">>] = "created"
      BY <1>0, <1>3, <2>0, <2>3 DEF Waits
    <3> QED
      BY <2>1, <2>2, <3>1 DEF JobKnown, Steps, Completed
  <2> QED
    BY <2>5, <2>6, <2>7, <2>8 DEF AllKnown
<1>4. {j \in Jobs : Waits(j, r)} = {} => \A j \in Jobs : ~Waits(j, r)
  OBVIOUS
<1> QED
  BY <1>1, <1>2, <1>3, <1>4 DEF testcaseJobStep, ended, Outcome

\* Every step of the jobs keeps the invariant.
LEMMA JobsStep == JobsInv /\ [JobsNext]_jobVars => JobsInv'
<1> SUFFICES ASSUME JobsInv, [JobsNext]_jobVars PROVE JobsInv'
  OBVIOUS
<1>0. /\ PostOK /\ RowsOK /\ AllKnown /\ drops \in Nat
      /\ \A j \in Jobs : JobKnown(j) /\ <<j, "input">> \in Runs /\ <<j, "output">> \in Runs
  BY JobsTypes, KnownParts, RunIds DEF JobsInv, AllKnown, PostOK, Steps
<1> SUFFICES RowsOK' /\ AllKnown'
  <2>1. PostOK'
    BY PostStep DEF JobsInv
  <2>2. PostOK' /\ RowsOK' => JobsTypeOK'
    BY JobsTypes, PTL
  <2>3. AllKnown' => (JobRunsInv /\ JobsSound)'
    BY KnownParts, PTL
  <2> QED
    BY <2>1, <2>2, <2>3 DEF JobsInv
<1>1. CASE UNCHANGED <<run, asked, job, configured, solved>>
  <2>1. RowsOK'
    BY <1>0, <1>1 DEF RowsOK
  <2>2. \A j \in Jobs : JobKnown(j)'
    BY <1>0, <1>1, OtherJobs
  <2> QED
    BY <1>0, <1>1, <2>1, <2>2 DEF AllKnown
<1>2. ASSUME NEW r \in Runs, run[r] \notin {"absent", "done", "error"},
             NEW s \in {"recent", "stale"}, run' = [run EXCEPT ![r] = s],
             UNCHANGED <<job, configured, solved>>, asked' \subseteq asked
      PROVE  RowsOK' /\ AllKnown'
  <2>1. RowsOK' /\ JobRunsInv' /\ JobsSound'
    BY <1>2, RunGoesOn
  <2>2. JobRunsInv' /\ JobsSound' => AllKnown'
    BY KnownParts, PTL
  <2> QED
    BY <2>1, <2>2
<1>3. ASSUME NEW t \in Tests, SubmitUserTest(t) PROVE RowsOK' /\ AllKnown'
  <2> DEFINE r == <<t, "test">>
  <2>0. r \in Runs /\ \A j \in Jobs : <<j, "input">> # r /\ <<j, "output">> # r
    BY RunIds
  <2>1. run' = [run EXCEPT ![r] = "created"] /\ UNCHANGED <<job, configured, solved>> /\ Notify(r)
    BY <1>3 DEF SubmitUserTest, Create
  <2> HIDE DEF r
  <2>2. asked' \in SUBSET Runs /\ asked' \subseteq asked \cup {r}
    BY <1>0, <2>0, <2>1, Notified DEF RowsOK
  <2>3. run' \in [Runs -> RunState] /\ \A q \in Runs : run'[q] = IF q = r THEN "created" ELSE run[q]
    BY <1>0, <2>0, <2>1 DEF RowsOK, RunState
  <2>4. RowsOK'
    BY <1>0, <2>1, <2>2, <2>3 DEF RowsOK
  <2>5. \A q \in asked' : run'[q] # "absent"
    BY <1>0, <2>2, <2>3 DEF AllKnown
  <2>6. \A j \in Jobs : JobKnown(j)'
    BY <1>0, <2>0, <2>1, <2>3, OtherJobs
  <2> QED
    BY <2>4, <2>5, <2>6 DEF AllKnown
<1>4. ASSUME NEW j \in Jobs, startTestcaseJobs(j) PROVE RowsOK' /\ AllKnown'
  <2>1. PICK step \in Steps, out \in {"solution", "empty"} :
          /\ job' = [job EXCEPT ![j] = [state |-> step, out |-> out]]
          /\ solved' = [solved EXCEPT ![j] = IF step = "output" THEN 1 ELSE 0]
          /\ Create(<<j, step>>) /\ Notify(<<j, step>>)
    BY <1>4 DEF startTestcaseJobs
  <2>2. <<j, step>> \in Runs /\ job[j].state = "none" /\ UNCHANGED configured
    BY <1>4, RunIds DEF startTestcaseJobs
  <2>3. asked' \in SUBSET Runs /\ asked' \subseteq asked \cup {<<j, step>>}
    BY <1>0, <2>1, <2>2, Notified DEF RowsOK
  <2>4. /\ run' \in [Runs -> RunState]
        /\ \A q \in Runs : run'[q] = IF q = <<j, step>> THEN "created" ELSE run[q]
    BY <1>0, <2>1, <2>2 DEF RowsOK, RunState, Create
  <2>5. job' \in [Jobs -> Job] /\ job'[j].state = step /\ \A k \in Jobs : k # j => job'[k] = job[k]
    <3>1. [state |-> step, out |-> out] \in Job
      BY DEF Job, JobState, Steps
    <3> QED
      BY <1>0, <2>1, <3>1 DEF RowsOK
  <2>6. /\ solved' \in [Jobs -> Nat] /\ solved'[j] = IF step = "output" THEN 1 ELSE 0
        /\ \A k \in Jobs : k # j => solved'[k] = solved[k]
    BY <1>0, <2>1 DEF RowsOK
  <2>7. RowsOK'
    BY <1>0, <2>2, <2>3, <2>4, <2>5, <2>6 DEF RowsOK
  <2>8. \A q \in asked' : run'[q] # "absent"
    BY <1>0, <2>3, <2>4 DEF AllKnown
  <2>9. ASSUME NEW k \in Jobs, k # j PROVE JobKnown(k)'
    <3>1. <<k, "input">> # <<j, step>> /\ <<k, "output">> # <<j, step>>
      BY <2>9
    <3> QED
      BY <1>0, <2>2, <2>4, <2>5, <2>6, <2>9, <3>1, OtherJobs
  <2>10. JobKnown(j)'
    <3>0. run[<<j, "input">>] = "absent" /\ run[<<j, "output">>] = "absent"
      BY <1>0, <2>2 DEF JobKnown
    <3>1. CASE step = "input"
      <4>1. run'[<<j, "input">>] = "created" /\ run'[<<j, "output">>] = "absent" /\ solved'[j] = 0
        BY <1>0, <2>4, <2>6, <3>0, <3>1
      <4> QED
        BY <2>5, <3>1, <4>1 DEF JobKnown, Steps, Completed
    <3>2. CASE step = "output"
      <4>1. run'[<<j, "output">>] = "created" /\ run'[<<j, "input">>] = "absent" /\ solved'[j] = 1
        BY <1>0, <2>4, <2>6, <3>0, <3>2
      <4> QED
        BY <2>5, <3>2, <4>1 DEF JobKnown, Steps, Completed
    <3> QED
      BY <3>1, <3>2 DEF Steps
  <2> QED
    BY <2>7, <2>8, <2>9, <2>10 DEF AllKnown
<1>5. ASSUME NEW j \in Jobs, handleTestcaseJobsClear(j) PROVE RowsOK' /\ AllKnown'
  <2>1. /\ job' \in [Jobs -> Job] /\ job'[j].state = "cleared"
        /\ \A k \in Jobs : k # j => job'[k] = job[k]
    BY <1>0, <1>5 DEF handleTestcaseJobsClear, RowsOK, Job, JobState
  <2>2. UNCHANGED <<run, asked, configured, solved>>
    BY <1>5 DEF handleTestcaseJobsClear
  <2>3. \A k \in Jobs : k # j => JobKnown(k)'
    BY <1>0, <2>1, <2>2, OtherJobs
  <2>4. JobKnown(j)'
    BY <1>0, <2>1, <2>2 DEF JobKnown, Steps
  <2>5. RowsOK'
    BY <1>0, <2>1, <2>2 DEF RowsOK
  <2> QED
    BY <1>0, <2>2, <2>3, <2>4, <2>5 DEF AllKnown
<1>6. CASE RemoveLanguage
  <2>1. UNCHANGED <<run, asked, job, solved>> /\ configured' = FALSE
    BY <1>6 DEF RemoveLanguage
  <2>2. RowsOK'
    BY <1>0, <2>1 DEF RowsOK
  <2>3. \A k \in Jobs : JobKnown(k)'
    BY <1>0, <2>1, OtherJobs
  <2> QED
    BY <1>0, <2>1, <2>2, <2>3 DEF AllKnown
<1>7. ASSUME NEW r \in Runs, run[r] # "absent", advanceUserTest(r), asked' \subseteq asked
      PROVE  RowsOK' /\ AllKnown'
  <2>0. UNCHANGED <<job, configured, solved>>
    BY <1>7 DEF advanceUserTest
  <2>1. CASE Completed(r) /\ UNCHANGED run
    <3>1. RowsOK'
      BY <1>0, <1>7, <2>0, <2>1 DEF RowsOK
    <3>2. \A k \in Jobs : JobKnown(k)'
      BY <1>0, <2>0, <2>1, OtherJobs
    <3> QED
      BY <1>0, <1>7, <2>1, <3>1, <3>2 DEF AllKnown
  <2>2. CASE ~Completed(r) /\ ~HasLanguage(r) /\ run' = [run EXCEPT ![r] = "error"]
    BY <1>0, <1>7, <2>0, <2>2, RunErrs
  <2>3. CASE ~Completed(r) /\ run' = [run EXCEPT ![r] = "recent"]
    <3>1. run[r] \notin {"absent", "done", "error"}
      BY <1>7, <2>3 DEF Completed
    <3> QED
      BY <1>2, <1>7, <2>0, <2>3, <3>1
  <2> QED
    BY <1>7, <2>1, <2>2, <2>3 DEF advanceUserTest
<1>8. ASSUME NEW r \in Runs, newUserTest(r) PROVE RowsOK' /\ AllKnown'
  <2>1. run[r] # "absent" /\ asked' \subseteq asked /\ advanceUserTest(r)
    BY <1>0, <1>8 DEF newUserTest, AllKnown
  <2> QED
    BY <1>7, <2>1
<1>9. ASSUME NEW r \in Runs, sweepUserTests(r) PROVE RowsOK' /\ AllKnown'
  <2>1. run[r] # "absent" /\ asked' \subseteq asked /\ advanceUserTest(r)
    BY <1>9 DEF sweepUserTests
  <2> QED
    BY <1>7, <2>1
<1>10. ASSUME NEW r \in Runs, Elapse(r) PROVE RowsOK' /\ AllKnown'
  <2>1. /\ run[r] \notin {"absent", "done", "error"} /\ run' = [run EXCEPT ![r] = "stale"]
        /\ UNCHANGED <<job, configured, solved>> /\ asked' \subseteq asked
    BY <1>10 DEF Elapse
  <2> QED
    BY <1>2, <2>1
<1>11. ASSUME NEW m \in BagToSet(results), handleUserTestResult(m) PROVE RowsOK' /\ AllKnown'
  <2>0. m.run \in Runs /\ m.out \in Outcome /\ UNCHANGED configured
    BY <1>0, <1>11 DEF PostOK, Result, handleUserTestResult
  <2>1. CASE resultStale(m)
    BY <1>1, <2>0, <2>1 DEF resultStale, Stay
  <2>2. CASE resultRetry(m)
    <3>1. /\ run[m.run] \notin {"absent", "done", "error"} /\ run' = [run EXCEPT ![m.run] = "recent"]
          /\ UNCHANGED <<job, configured, solved>> /\ asked' \subseteq asked
      BY <2>0, <2>2 DEF resultRetry, Current, Unfinished, Stay
    <3> QED
      BY <1>2, <2>0, <3>1
  <2>3. CASE resultGivenUp(m)
    <3>1. Unfinished(m.run) /\ testcaseJobStep(m.run, "error", "error") /\ "error" \in Outcome
      BY <2>3 DEF resultGivenUp, Current, Outcome
    <3> QED
      BY <1>0, <2>0, <3>1, JobMoves
  <2>4. CASE resultEnded(m)
    <3>1. Unfinished(m.run) /\ testcaseJobStep(m.run, m.out, "done")
      BY <2>4 DEF resultEnded, Current
    <3> QED
      BY <1>0, <2>0, <3>1, JobMoves
  <2> QED
    BY <1>11, <2>1, <2>2, <2>3, <2>4 DEF handleUserTestResult
<1>12. ASSUME NEW m \in BagToSet(messages), Complete(m) \/ Requeue(m) PROVE RowsOK' /\ AllKnown'
  BY <1>1, <1>12 DEF Complete, Requeue
<1>13. CASE UNCHANGED jobVars
  BY <1>1, <1>13 DEF jobVars
<1> QED
  BY <1>3, <1>4, <1>5, <1>6, <1>8, <1>9, <1>10, <1>11, <1>12, <1>13
     DEF JobsNext, HandleResultOf, CompleteOf

\* For any number of user tests and testcase jobs, and whatever is lost,
\* duplicated or given up: a job takes each of its steps at most once and in
\* their order, stores a testcase only from runs that ended, and moves on in
\* the transaction in which its run ends (dispatcher/testcasejobs.go).
THEOREM JobsMoveOn == JobsSpec => [](JobsTypeOK /\ JobsSound)
<1>1. JobsInv => JobsTypeOK /\ JobsSound
  BY DEF JobsInv
<1> QED
  BY <1>1, JobsStarts, JobsStep, PTL DEF JobsSpec

(***************************************************************************)
(* Printing.                                                               *)
(***************************************************************************)
\* Every set of numbers has a smallest one.
LEMMA Smallest ==
    ASSUME NEW T \in SUBSET Nat, T # {}
    PROVE  Min(T) \in T
<1>1. \E x \in T : \A y \in T : x =< y
  BY Least, Zenon
<1> QED
  BY <1>1, Zenon DEF Min

\* A job the service works on is being printed, and has one copy that was not
\* lost from when lp took it until that is recorded; no other job that is not
\* recorded as printed has any.
WorksOn(j) == service.at \in {"lp", "finish"} /\ service.job = j
PrintedNow(j) ==
    /\ service.at = "finish" /\ service.job = j
    /\ service.status = "done" /\ service.text # "no printer"

JobPrinted(j) ==
    /\ Recorded(j) => copies[j] = lost[j] + 1
    /\ print[j].status # "printing" /\ ~Recorded(j) => copies[j] = lost[j]
    /\ print[j].status = "printing" /\ ~PrintedNow(j) => copies[j] = lost[j]
    /\ PrintedNow(j) => copies[j] = lost[j] + 1
    /\ WorksOn(j) => print[j].status = "printing"

PrintInv == PrintTypeOK /\ (\A j \in PrintJobs : JobPrinted(j)) /\ JobLimit /\ PageLimit

\* What the service is: not at work, or with a job.
LEMMA ServiceStates ==
    ASSUME PrintTypeOK
    PROVE  \/ service = ServiceIdle \/ service = ServiceDown
           \/ service.at = "lp" /\ service.job \in PrintJobs /\ service.attempt \in 1 .. LpAttempts
           \/ /\ service.at = "finish" /\ service.job \in PrintJobs
              /\ service.status \in {"done", "failed"} /\ service.text \in StatusTexts
  BY DEF PrintTypeOK

\* A job that nothing happens to.
LEMMA OtherPrints ==
    ASSUME NEW j \in PrintJobs, JobPrinted(j), print'[j].status = print[j].status,
           print'[j].text = print[j].text, copies'[j] = copies[j], lost'[j] = lost[j],
           PrintedNow(j)' <=> PrintedNow(j), WorksOn(j)' => WorksOn(j)
    PROVE  JobPrinted(j)'
  BY DEF JobPrinted, Recorded

\* The pages of some jobs are a sum over the numbers of pages of all of them.
PageCounts == [j \in PrintJobs |-> print[j].pages]

\* The pages of a contestant are a sum over the jobs.
LEMMA PagesTotal ==
    ASSUME NEW J \in SUBSET PrintJobs
    PROVE  PagesOf(J) = SumOver(PageCounts, J)
<1>1. \A T \in SUBSET J : T # {} => PageCounts[Chosen(T)] = print[Chosen(T)].pages
  <2>1. \A T \in SUBSET J : T # {} => Chosen(T) \in T
    BY Zenon DEF Chosen
  <2> QED
    BY <2>1 DEF PageCounts
<1>2. ASSUME NEW g
      PROVE  Rec(J, PageCounts, g) <=>
                g = [T \in SUBSET J |-> IF T = {} THEN 0
                                        ELSE print[Chosen(T)].pages + g[T \ {Chosen(T)}]]
  BY <1>1 DEF Rec
<1>3. (CHOOSE g : Rec(J, PageCounts, g))
        = CHOOSE g : g = [T \in SUBSET J |-> IF T = {} THEN 0
                                             ELSE print[Chosen(T)].pages + g[T \ {Chosen(T)}]]
  BY <1>2, Zenon
<1>4. PagesOf(J)
        = (CHOOSE g : g = [T \in SUBSET J |-> IF T = {} THEN 0
                                              ELSE print[Chosen(T)].pages + g[T \ {Chosen(T)}]])[J]
  BY Zenon DEF PagesOf, MapThenSumSet, MapThenFoldSet, Chosen
<1>5. PICK f : f = PageCounts
  OBVIOUS
<1>6. SumOver(f, J) = (CHOOSE g : Rec(J, f, g))[J]
  BY SumIs, Zenon DEF SumOver
<1> QED
  BY <1>3, <1>4, <1>5, <1>6, Zenon

\* In particular those that are due.
LEMMA DuePages == PagesOf(Due) = SumOver(PageCounts, Due)
<1>1. Due \in SUBSET PrintJobs
  BY DEF Due, Counted
<1> QED
  BY <1>1, PagesTotal, Zenon

\* Nothing is printed at first.
LEMMA PrintStarts == PrintInit => PrintInv
<1> SUFFICES ASSUME PrintInit PROVE PrintInv
  OBVIOUS
<1>1. PrintTypeOK
  BY DEF PrintInit, PrintTypeOK, Statuses, StatusTexts, ServiceDown
<1>2. Due = {}
  BY DEF Due, Counted, PrintInit
<1>3. JobLimit
  BY <1>2, FS_EmptySet, PrintingAssumption DEF JobLimit, PrintInit
<1>4. \A j \in PrintJobs : JobPrinted(j)
  BY DEF PrintInit, JobPrinted, Recorded, PrintedNow, WorksOn, ServiceDown
<1>5. PageLimit
  <2>1. PagesOf({}) = 0
    <3>1. PagesOf({}) = SumOver(PageCounts, {})
      BY PagesTotal
    <3>2. SumOver(PageCounts, {}) = 0
      BY FS_EmptySet, SumStep
    <3> QED
      BY <3>1, <3>2
  <2> QED
    BY <1>2, <2>1, PrintingAssumption DEF PageLimit
<1> QED
  BY <1>1, <1>3, <1>4, <1>5 DEF PrintInv

\* The first of the jobs with a status is one of them.
LEMMA FirstWith ==
    ASSUME PrintTypeOK, NEW st, With(st) # {}
    PROVE  Min(With(st)) \in PrintJobs /\ print[Min(With(st))].status = st
<1>1. With(st) \in SUBSET Nat /\ With(st) \subseteq PrintJobs
  BY PrintingAssumption DEF With
<1>2. Min(With(st)) \in With(st)
  BY <1>1, Smallest
<1> QED
  BY <1>2 DEF With

\* The rows of the jobs, and what the service may be.
Rows == [status : Statuses, pages : Nat, text : StatusTexts]
Working ==
    [at : {"lp"}, job : PrintJobs, attempt : 1 .. LpAttempts]
    \cup [at : {"finish"}, job : PrintJobs, status : {"done", "failed"}, text : StatusTexts]

\* A row keeps its type when its status, its text or its pages change.
LEMMA RowChanges ==
    ASSUME NEW p \in [PrintJobs -> Rows], NEW j \in PrintJobs,
           NEW st \in Statuses, NEW tx \in StatusTexts, NEW n \in Nat
    PROVE  /\ [p EXCEPT ![j].status = st] \in [PrintJobs -> Rows]
           /\ [p EXCEPT ![j].status = st, ![j].text = tx] \in [PrintJobs -> Rows]
           /\ [p EXCEPT ![j].status = st, ![j].pages = n] \in [PrintJobs -> Rows]
<1>1. /\ [p[j] EXCEPT !.status = st] \in Rows
      /\ [p[j] EXCEPT !.status = st, !.text = tx] \in Rows
      /\ [p[j] EXCEPT !.status = st, !.pages = n] \in Rows
  BY DEF Rows
<1> QED
  BY <1>1

\* A job is handed on to be finished.
LEMMA Finishing ==
    ASSUME NEW j \in PrintJobs, NEW st \in {"done", "failed"}, NEW tx \in StatusTexts,
           ToFinish(j, st, tx)
    PROVE  service' \in Working
  BY DEF ToFinish, Working

\* Every step of the contestant, the service and the staff keeps the types.
LEMMA PrintTypeStep == PrintTypeOK /\ [PrintNext]_printVars => PrintTypeOK'
<1> SUFFICES ASSUME PrintTypeOK, [PrintNext]_printVars PROVE PrintTypeOK'
  OBVIOUS
<1>0. /\ print \in [PrintJobs -> Rows] /\ service \in {ServiceIdle, ServiceDown} \cup Working
      /\ printer \in BOOLEAN /\ unrecorded \in SUBSET PrintJobs /\ unasked \in SUBSET PrintJobs
      /\ copies \in [PrintJobs -> Nat] /\ lost \in [PrintJobs -> Nat]
      /\ stops \in Nat /\ reprints \in Nat
  BY DEF PrintTypeOK, Rows, Working
<1>t. ASSUME /\ print' \in [PrintJobs -> Rows] /\ service' \in {ServiceIdle, ServiceDown} \cup Working
             /\ printer' \in BOOLEAN /\ unrecorded' \in SUBSET PrintJobs /\ unasked' \in SUBSET PrintJobs
             /\ copies' \in [PrintJobs -> Nat] /\ lost' \in [PrintJobs -> Nat]
             /\ stops' \in Nat /\ reprints' \in Nat
      PROVE  PrintTypeOK'
  BY <1>t DEF PrintTypeOK, Rows, Working
<1>s. /\ service.at = "lp" => service.job \in PrintJobs /\ service.attempt \in 1 .. LpAttempts
      /\ service.at = "finish" => /\ service.job \in PrintJobs
                                  /\ service.status \in {"done", "failed"}
                                  /\ service.text \in StatusTexts
  BY ServiceStates DEF ServiceIdle, ServiceDown
<1>o. "other" \in StatusTexts /\ "no printer" \in StatusTexts
  BY DEF StatusTexts
<1>q. \A st \in {"queued", "printing", "done", "failed"} : st \in Statuses
  BY DEF Statuses
<1>1. CASE UNCHANGED printVars
  BY <1>0, <1>1, <1>t DEF printVars
<1>2. ASSUME NEW n \in Pages, NEW free \in BOOLEAN, handlePrint(n, free) PROVE PrintTypeOK'
  <2>1. PICK j \in PrintJobs : /\ print' = [print EXCEPT ![j].status = "queued", ![j].pages = n]
                               /\ unasked' = IF free THEN unasked \cup {j} ELSE unasked
    BY <1>2, FirstWith DEF handlePrint
  <2>2. n \in Nat
    BY PrintingAssumption
  <2>3. print' \in [PrintJobs -> Rows]
    BY <1>0, <1>o, <1>q, <2>1, <2>2, RowChanges
  <2>4. unasked' \in SUBSET PrintJobs
    BY <1>0, <2>1
  <2> QED
    BY <1>0, <1>2, <1>t, <2>3, <2>4 DEF handlePrint
<1>3. CASE Run
  <2>1. \A j \in PrintJobs : [print[j] EXCEPT !.status = "queued"] \in Rows
    BY <1>0, <1>q DEF Rows
  <2>2. print' \in [PrintJobs -> Rows]
    BY <1>0, <1>3, <2>1 DEF Run
  <2> QED
    BY <1>0, <1>3, <1>t, <2>2 DEF Run
<1>4. CASE ClaimPrintJob
  <2>1. PICK j \in PrintJobs : /\ print' = [print EXCEPT ![j].status = "printing"]
                               /\ service' = [at |-> "lp", job |-> j, attempt |-> 1]
    BY <1>4, FirstWith DEF ClaimPrintJob
  <2>2. print' \in [PrintJobs -> Rows]
    BY <1>0, <1>o, <1>q, <2>1, RowChanges
  <2>3. service' \in Working
    BY <2>1, PrintingAssumption DEF Working
  <2> QED
    BY <1>0, <1>4, <1>t, <2>2, <2>3 DEF ClaimPrintJob
<1>5. CASE printRefused \/ printSkipped
  <2>1. service.job \in PrintJobs
    BY <1>5, <1>s DEF printRefused, printSkipped
  <2>2. service' \in Working
    BY <1>5, <1>o, <2>1, Finishing DEF printRefused, printSkipped
  <2> QED
    BY <1>0, <1>5, <1>t, <2>2 DEF printRefused, printSkipped
<1>6. CASE lp
  <2>1. service.job \in PrintJobs /\ service.attempt \in 1 .. LpAttempts /\ service.at = "lp"
    BY <1>6, <1>s DEF lp
  <2>2. copies' \in [PrintJobs -> Nat]
    BY <1>0, <1>6, <2>1 DEF lp
  <2>3. \/ service.attempt < LpAttempts /\ service' = [service EXCEPT !.attempt = @ + 1]
        \/ ToFinish(service.job, "failed", "other") \/ ToFinish(service.job, "done", "other")
    BY <1>6 DEF lp
  <2>4. ASSUME service.attempt < LpAttempts, service' = [service EXCEPT !.attempt = @ + 1]
        PROVE  service' \in Working
    <3>1. service \in [at : {"lp"}, job : PrintJobs, attempt : 1 .. LpAttempts]
      BY <1>0, <2>1 DEF Working, ServiceIdle, ServiceDown
    <3>2. service.attempt + 1 \in 1 .. LpAttempts
      BY <2>1, <2>4, PrintingAssumption
    <3> QED
      BY <2>4, <3>1, <3>2 DEF Working
  <2>5. service' \in Working
    BY <1>o, <2>1, <2>3, <2>4, Finishing
  <2> QED
    BY <1>0, <1>6, <1>t, <2>2, <2>5 DEF lp
<1>7. CASE FinishPrintJob
  <2>1. /\ service.job \in PrintJobs /\ service.status \in {"done", "failed"}
        /\ service.text \in StatusTexts
    BY <1>7, <1>s DEF FinishPrintJob
  <2>2. print' \in [PrintJobs -> Rows]
    BY <1>0, <1>7, <1>q, <2>1, RowChanges DEF FinishPrintJob
  <2> QED
    BY <1>0, <1>7, <1>t, <2>2 DEF FinishPrintJob
<1>8. ASSUME CopyLost PROVE lost' \in [PrintJobs -> Nat]
  <2>1. CASE lost' = lost
    BY <1>0, <2>1
  <2>2. CASE service.at = "finish" /\ lost' = [lost EXCEPT ![service.job] = @ + 1]
    BY <1>0, <1>s, <2>2
  <2> QED
    BY <1>8, <2>1, <2>2 DEF CopyLost
<1>9. CASE FinishError
  <2>1. service.job \in PrintJobs /\ lost' \in [PrintJobs -> Nat]
    BY <1>8, <1>9, <1>s DEF FinishError
  <2> QED
    BY <1>0, <1>9, <1>t, <2>1 DEF FinishError
<1>10. CASE StopService
  <2>1. lost' \in [PrintJobs -> Nat]
    BY <1>8, <1>10 DEF StopService
  <2> QED
    BY <1>0, <1>10, <1>t, <2>1 DEF StopService
<1>11. ASSUME NEW j \in PrintJobs, RequeuePrintJob(j) PROVE PrintTypeOK'
  <2>1. print' \in [PrintJobs -> Rows]
    BY <1>0, <1>11, <1>o, <1>q, RowChanges DEF RequeuePrintJob
  <2> QED
    BY <1>0, <1>11, <1>t, <2>1 DEF RequeuePrintJob
<1>12. ASSUME NEW j \in PrintJobs, CancelPrintJob(j) PROVE PrintTypeOK'
  <2>1. print' \in [PrintJobs -> Rows]
    BY <1>0, <1>12, <1>o, <1>q, RowChanges DEF CancelPrintJob
  <2> QED
    BY <1>0, <1>12, <1>t, <2>1 DEF CancelPrintJob
<1> QED
  BY <1>1, <1>2, <1>3, <1>4, <1>5, <1>6, <1>7, <1>9, <1>10, <1>11, <1>12 DEF PrintNext, Serve

\* What the service is when it hands a job on.
LEMMA Finished ==
    ASSUME NEW j, NEW st, NEW tx, ToFinish(j, st, tx)
    PROVE  service'.at = "finish" /\ service'.job = j /\ service'.status = st /\ service'.text = tx
  BY DEF ToFinish

\* Every step accounts for the copies it makes.
LEMMA CopiesStep ==
    PrintInv /\ [PrintNext]_printVars => \A j \in PrintJobs : JobPrinted(j)'
<1> SUFFICES ASSUME PrintInv, [PrintNext]_printVars, NEW i \in PrintJobs PROVE JobPrinted(i)'
  OBVIOUS
<1>0. /\ PrintTypeOK /\ PrintTypeOK' /\ (\A j \in PrintJobs : JobPrinted(j)) /\ JobPrinted(i)
      /\ print \in [PrintJobs -> [status : Statuses, pages : Nat, text : StatusTexts]]
      /\ copies \in [PrintJobs -> Nat] /\ lost \in [PrintJobs -> Nat]
  BY PrintTypeStep DEF PrintInv, PrintTypeOK
<1> USE <1>0, ServiceStates DEF ServiceIdle, ServiceDown
<1>1. CASE UNCHANGED printVars
  BY <1>1, OtherPrints DEF printVars, PrintedNow, WorksOn
<1>2. ASSUME NEW n \in Pages, NEW free \in BOOLEAN, handlePrint(n, free) PROVE JobPrinted(i)'
  <2>1. PICK j \in PrintJobs : /\ print[j].status = "absent"
                               /\ print' = [print EXCEPT ![j].status = "queued", ![j].pages = n]
    BY <1>2, FirstWith DEF handlePrint
  <2>2. UNCHANGED <<service, copies, lost>>
    BY <1>2 DEF handlePrint
  <2>3. print' = [print EXCEPT ![j] = [print[j] EXCEPT !.status = "queued", !.pages = n]]
    BY <2>1
  <2>4. /\ print'[i].status = IF i = j THEN "queued" ELSE print[i].status
        /\ print'[i].text = print[i].text
    BY <2>3
  <2> QED
    BY <2>1, <2>2, <2>4 DEF JobPrinted, Recorded, PrintedNow, WorksOn
<1>3. CASE Run
  <2>1. UNCHANGED <<copies, lost>> /\ service.at = "down" /\ service'.at = "idle"
    BY <1>3 DEF Run
  <2>2. /\ print'[i].status = IF print[i].status = "printing" THEN "queued" ELSE print[i].status
        /\ print'[i].text = print[i].text
    BY <1>3 DEF Run
  <2> QED
    BY <2>1, <2>2 DEF JobPrinted, Recorded, PrintedNow, WorksOn
<1>4. CASE ClaimPrintJob
  <2>1. PICK j \in PrintJobs : /\ print[j].status = "queued"
                               /\ print' = [print EXCEPT ![j].status = "printing"]
                               /\ service' = [at |-> "lp", job |-> j, attempt |-> 1]
    BY <1>4, FirstWith DEF ClaimPrintJob
  <2>2. UNCHANGED <<copies, lost>> /\ service.at = "idle"
    BY <1>4 DEF ClaimPrintJob
  <2>3. /\ print'[i].status = IF i = j THEN "printing" ELSE print[i].status
        /\ print'[i].text = print[i].text
        /\ service'.at = "lp" /\ service'.job = j
    BY <2>1
  <2> QED
    BY <2>1, <2>2, <2>3 DEF JobPrinted, Recorded, PrintedNow, WorksOn
<1>5. CASE printRefused \/ printSkipped
  <2>1. /\ service.at = "lp" /\ UNCHANGED <<print, copies, lost>>
        /\ \/ ToFinish(service.job, "failed", "other")
           \/ ToFinish(service.job, "done", "no printer")
    BY <1>5 DEF printRefused, printSkipped
  <2>2. /\ service'.at = "finish" /\ service'.job = service.job
        /\ service'.status = "failed" \/ service'.text = "no printer"
    BY <2>1, Finished
  <2> QED
    BY <2>1, <2>2 DEF JobPrinted, Recorded, PrintedNow, WorksOn
<1>6. CASE lp
  <2>1. service.at = "lp" /\ service.job \in PrintJobs /\ UNCHANGED <<print, lost>>
    BY <1>6 DEF lp
  <2>2. PICK error \in BOOLEAN :
          /\ copies' = IF error THEN copies ELSE [copies EXCEPT ![service.job] = @ + 1]
          /\ \/ error /\ service' = [service EXCEPT !.attempt = @ + 1]
             \/ error /\ ToFinish(service.job, "failed", "other")
             \/ ~error /\ ToFinish(service.job, "done", "other")
    BY <1>6 DEF lp
  <2>3. copies'[i] = IF ~error /\ i = service.job THEN copies[i] + 1 ELSE copies[i]
    BY <2>1, <2>2
  <2>4. /\ service'.job = service.job /\ service'.at \in {"lp", "finish"}
        /\ PrintedNow(i)' => ~error /\ i = service.job
    <3>1. CASE error /\ service' = [service EXCEPT !.attempt = @ + 1]
      <4>1. service \in [at : {"lp"}, job : PrintJobs, attempt : 1 .. LpAttempts]
        BY <2>1 DEF PrintTypeOK
      <4>2. service'.at = "lp" /\ service'.job = service.job
        BY <3>1, <4>1
      <4> QED
        BY <4>2 DEF PrintedNow
    <3>2. CASE error /\ ToFinish(service.job, "failed", "other")
      <4>1. /\ service'.at = "finish" /\ service'.job = service.job
            /\ service'.status = "failed" /\ service'.text = "other"
        BY <3>2, Finished
      <4> QED
        BY <4>1 DEF PrintedNow
    <3>3. CASE ~error /\ ToFinish(service.job, "done", "other")
      <4>1. /\ service'.at = "finish" /\ service'.job = service.job
            /\ service'.status = "done" /\ service'.text = "other"
        BY <3>3, Finished
      <4> QED
        BY <3>3, <4>1 DEF PrintedNow
    <3> QED
      BY <2>2, <3>1, <3>2, <3>3
  <2>5. ~error /\ i = service.job => PrintedNow(i)'
    <3> SUFFICES ASSUME ~error, i = service.job PROVE PrintedNow(i)'
      OBVIOUS
    <3>1. ToFinish(service.job, "done", "other")
      BY <2>2
    <3>2. /\ service'.at = "finish" /\ service'.job = service.job
          /\ service'.status = "done" /\ service'.text = "other"
      BY <3>1, Finished
    <3> QED
      BY <3>2 DEF PrintedNow
  <2>6. CASE i # service.job
    BY <2>1, <2>3, <2>4, <2>6, OtherPrints DEF PrintedNow, WorksOn
  <2>7. CASE i = service.job
    <3>1. copies[i] = lost[i] /\ print[i].status = "printing" /\ ~Recorded(i)
      BY <2>1, <2>7 DEF JobPrinted, Recorded, PrintedNow, WorksOn
    <3>2. print'[i].status = "printing" /\ ~Recorded(i)' /\ lost'[i] = lost[i]
      BY <2>1, <3>1 DEF Recorded
    <3> QED
      BY <2>2, <2>3, <2>4, <2>5, <2>7, <3>1, <3>2 DEF JobPrinted
  <2> QED
    BY <2>6, <2>7
<1>7. CASE FinishPrintJob
  <2>1. /\ service.at = "finish" /\ service.job \in PrintJobs
        /\ service.status \in {"done", "failed"}
        /\ service'.at = "idle" /\ UNCHANGED <<copies, lost>>
    BY <1>7 DEF FinishPrintJob
  <2>2. print[service.job].status = "printing"
    BY <2>1 DEF JobPrinted, WorksOn
  <2>3. /\ print'[i].status = IF i = service.job THEN service.status ELSE print[i].status
        /\ print'[i].text = IF i = service.job THEN service.text ELSE print[i].text
    BY <1>7, <2>1, <2>2 DEF FinishPrintJob
  <2> QED
    BY <2>1, <2>2, <2>3 DEF JobPrinted, Recorded, PrintedNow, WorksOn
<1>8. ASSUME CopyLost, service'.at \in {"idle", "down"}, UNCHANGED <<print, copies>>
      PROVE  JobPrinted(i)'
  <2>1. lost'[i] = IF PrintedNow(i) THEN lost[i] + 1 ELSE lost[i]
    BY <1>8 DEF CopyLost, PrintedNow
  <2>2. ~PrintedNow(i)' /\ ~WorksOn(i)' /\ (Recorded(i)' <=> Recorded(i))
    BY <1>8 DEF PrintedNow, WorksOn, Recorded
  <2>3. PrintedNow(i) => print[i].status = "printing"
    BY DEF PrintedNow, WorksOn, JobPrinted
  <2> QED
    BY <1>8, <2>1, <2>2, <2>3 DEF JobPrinted, Recorded
<1>9. CASE FinishError
  BY <1>8, <1>9 DEF FinishError
<1>10. CASE StopService
  BY <1>8, <1>10 DEF StopService
<1>11. ASSUME NEW j \in PrintJobs, RequeuePrintJob(j) PROVE JobPrinted(i)'
  <2>1. /\ print[j].status \in {"done", "failed"} /\ UNCHANGED service
        /\ print'[i].status = IF i = j THEN "queued" ELSE print[i].status
        /\ print'[i].text = IF i = j THEN "other" ELSE print[i].text
        /\ copies'[i] = (IF i = j THEN 0 ELSE copies[i])
        /\ lost'[i] = (IF i = j THEN 0 ELSE lost[i])
    BY <1>11 DEF RequeuePrintJob
  <2> QED
    BY <2>1 DEF JobPrinted, Recorded, PrintedNow, WorksOn
<1>12. ASSUME NEW j \in PrintJobs, CancelPrintJob(j) PROVE JobPrinted(i)'
  <2>1. /\ print[j].status = "queued" /\ UNCHANGED <<service, copies, lost>>
        /\ print'[i].status = IF i = j THEN "failed" ELSE print[i].status
        /\ i # j => print'[i].text = print[i].text
    BY <1>12 DEF CancelPrintJob
  <2> QED
    BY <2>1 DEF JobPrinted, Recorded, PrintedNow, WorksOn
<1> QED
  BY <1>1, <1>2, <1>3, <1>4, <1>5, <1>6, <1>7, <1>9, <1>10, <1>11, <1>12 DEF PrintNext, Serve

\* A request that asks for the limits counts all that count, among them the
\* jobs that are due.
LEMMA UsedCounts == PrintTypeOK => Counted = Used /\ Due \subseteq Counted
  BY DEF PrintTypeOK, Counted, Due, Used, With, Statuses

\* What the steps do to the jobs that are due: a request adds its own, unless
\* its participation is unrestricted, and no other step adds any.
LEMMA DueStep ==
    PrintTypeOK /\ [PrintNext]_printVars =>
        \/ Due' \subseteq Due /\ (\A k \in Due : print'[k].pages = print[k].pages)
        \/ \E n \in Pages, j \in PrintJobs :
              /\ WithinLimits(n) /\ j \notin Due /\ Due' \subseteq Due \cup {j}
              /\ print'[j].pages = n /\ \A k \in Due : print'[k].pages = print[k].pages
<1> SUFFICES ASSUME PrintTypeOK, [PrintNext]_printVars
             PROVE  \/ Due' \subseteq Due /\ (\A k \in Due : print'[k].pages = print[k].pages)
                    \/ \E n \in Pages, j \in PrintJobs :
                          /\ WithinLimits(n) /\ j \notin Due /\ Due' \subseteq Due \cup {j}
                          /\ print'[j].pages = n
                          /\ \A k \in Due : print'[k].pages = print[k].pages
  OBVIOUS
<1> DEFINE Kept == Due' \subseteq Due /\ (\A k \in Due : print'[k].pages = print[k].pages)
<1>0. print \in [PrintJobs -> [status : Statuses, pages : Nat, text : StatusTexts]]
  BY DEF PrintTypeOK
<1>1. ASSUME NEW n \in Pages, NEW free \in BOOLEAN, handlePrint(n, free)
      PROVE  \/ Kept
             \/ \E m \in Pages, j \in PrintJobs :
                   /\ WithinLimits(m) /\ j \notin Due /\ Due' \subseteq Due \cup {j}
                   /\ print'[j].pages = m
                   /\ \A k \in Due : print'[k].pages = print[k].pages
  <2>1. PICK j \in PrintJobs : /\ print[j].status = "absent"
                               /\ print' = [print EXCEPT ![j].status = "queued", ![j].pages = n]
                               /\ unasked' = IF free THEN unasked \cup {j} ELSE unasked
    BY <1>1, FirstWith DEF handlePrint
  <2>2. /\ \A k \in PrintJobs : k # j => print'[k] = print[k]
        /\ print'[j].pages = n
    BY <1>0, <2>1
  <2>3. j \notin Due /\ Due \subseteq PrintJobs
    BY <2>1 DEF Due, Counted
  <2>4. Due' \subseteq Due \cup {j}
    BY <2>1, <2>2 DEF Due, Counted
  <2>5. CASE free
    <3>1. Due' \subseteq Due
      BY <2>1, <2>4, <2>5 DEF Due
    <3> QED
      BY <2>2, <2>3, <3>1
  <2>6. CASE ~free
    BY <1>1, <2>2, <2>3, <2>4, <2>6 DEF handlePrint
  <2> QED
    BY <2>5, <2>6
<1>2. ASSUME NEW j \in PrintJobs, RequeuePrintJob(j) PROVE Kept
  <2>1. /\ \A k \in PrintJobs : k # j => print'[k] = print[k]
        /\ \A k \in PrintJobs : print'[k].pages = print[k].pages
    BY <1>0, <1>2 DEF RequeuePrintJob
  <2>2. CASE print[j].status = "failed"
    BY <1>2, <2>1, <2>2 DEF RequeuePrintJob, Due, Counted
  <2>3. CASE print[j].status # "failed"
    BY <1>2, <2>1, <2>3 DEF RequeuePrintJob, Due, Counted
  <2> QED
    BY <2>2, <2>3
<1> USE <1>0 DEF Due, Counted
<1>3. CASE UNCHANGED <<print, unasked>>
  BY <1>3
<1>4. CASE Run
  BY <1>4 DEF Run
<1>5. CASE ClaimPrintJob
  <2>1. PICK j \in PrintJobs : /\ print[j].status = "queued"
                               /\ print' = [print EXCEPT ![j].status = "printing"]
    BY <1>5, FirstWith DEF ClaimPrintJob
  <2> QED
    BY <1>5, <2>1 DEF ClaimPrintJob
<1>6. CASE FinishPrintJob
  BY <1>6, ServiceStates DEF FinishPrintJob, ServiceIdle, ServiceDown
<1>7. ASSUME NEW j \in PrintJobs, CancelPrintJob(j) PROVE Kept
  BY <1>7 DEF CancelPrintJob
<1>8. CASE printRefused \/ printSkipped \/ lp \/ FinishError \/ StopService \/ UNCHANGED printVars
  BY <1>3, <1>8 DEF printRefused, printSkipped, lp, FinishError, StopService, printVars
<1> QED
  BY <1>1, <1>2, <1>4, <1>5, <1>6, <1>7, <1>8 DEF PrintNext, Serve

\* The number of the jobs that are due stays within the limit.
LEMMA LimitStep == PrintInv /\ [PrintNext]_printVars => JobLimit'
<1> SUFFICES ASSUME PrintInv, [PrintNext]_printVars, MaxPrintJobs > 0
             PROVE  Cardinality(Due') <= MaxPrintJobs
  BY DEF JobLimit
<1>0. PrintTypeOK /\ MaxPrintJobs \in Nat /\ Cardinality(Due) <= MaxPrintJobs
  BY PrintingAssumption DEF PrintInv, JobLimit
<1>1. /\ IsFiniteSet(Due) /\ Cardinality(Due) \in Nat
      /\ IsFiniteSet(Counted) /\ Cardinality(Counted) \in Nat
      /\ Cardinality(Due) <= Cardinality(Counted)
  BY FS_Subset, FS_CardinalityType, PrintingAssumption DEF Counted, Due
<1>2. CASE Due' \subseteq Due
  <2>1. IsFiniteSet(Due') /\ Cardinality(Due') <= Cardinality(Due)
    BY <1>1, <1>2, FS_Subset
  <2>2. Cardinality(Due') \in Nat
    BY <2>1, FS_CardinalityType
  <2> QED
    BY <1>0, <1>1, <2>1, <2>2
<1>3. ASSUME NEW n \in Pages, NEW j \in PrintJobs, WithinLimits(n), Due' \subseteq Due \cup {j}
      PROVE  Cardinality(Due') <= MaxPrintJobs
  <2>1. Cardinality(Counted) < MaxPrintJobs
    BY <1>0, <1>3, UsedCounts DEF WithinLimits
  <2>2. IsFiniteSet(Due \cup {j}) /\ Cardinality(Due \cup {j}) <= Cardinality(Due) + 1
    <3>1. /\ IsFiniteSet(Due \cup {j})
          /\ Cardinality(Due \cup {j}) = Cardinality(Due) \/ Cardinality(Due \cup {j}) = Cardinality(Due) + 1
      BY <1>1, FS_AddElement
    <3> QED
      BY <1>1, <3>1
  <2>3. IsFiniteSet(Due') /\ Cardinality(Due') <= Cardinality(Due \cup {j})
    BY <1>3, <2>2, FS_Subset
  <2>4. Cardinality(Due') \in Nat /\ Cardinality(Due \cup {j}) \in Nat
    BY <2>2, <2>3, FS_CardinalityType
  <2> QED
    BY <1>0, <1>1, <2>1, <2>2, <2>3, <2>4
<1> QED
  BY <1>0, <1>2, <1>3, DueStep

\* So do their pages.
LEMMA PagesStep == PrintInv /\ [PrintNext]_printVars => PageLimit'
<1> SUFFICES ASSUME PrintInv, [PrintNext]_printVars, MaxTotalPages # NoLimit
             PROVE  PagesOf(Due)' <= MaxTotalPages
  BY DEF PageLimit
<1>0. /\ PrintTypeOK /\ PrintTypeOK' /\ MaxTotalPages \in Nat
      /\ print \in [PrintJobs -> [status : Statuses, pages : Nat, text : StatusTexts]]
      /\ print' \in [PrintJobs -> [status : Statuses, pages : Nat, text : StatusTexts]]
      /\ IsFiniteSet(PrintJobs) /\ Due \in SUBSET PrintJobs /\ Due' \in SUBSET PrintJobs
      /\ Counted \in SUBSET PrintJobs
  BY PrintTypeStep, PrintingAssumption DEF PrintInv, PrintTypeOK, Due, Counted
<1>1. PageCounts \in [PrintJobs -> Nat] /\ PageCounts' \in [PrintJobs -> Nat]
  BY <1>0 DEF PageCounts
<1>2. PagesOf(Due) = SumOver(PageCounts, Due)
  BY DuePages
<1>3. PagesOf(Due)' = SumOver(PageCounts', Due')
  <2>1. (PagesOf(Due) = SumOver(PageCounts, Due))'
    BY DuePages, PTL
  <2> QED
    BY <2>1
<1>4. /\ SumOver(PageCounts, Due) \in Nat
      /\ SumOver(PageCounts', Due) \in Nat
      /\ SumOver(PageCounts', Due') \in Nat
      /\ SumOver(PageCounts, Counted) \in Nat
  BY <1>0, <1>1, TotalNat
<1>5. SumOver(PageCounts, Due) <= MaxTotalPages
  BY <1>2 DEF PrintInv, PageLimit
<1>6. ASSUME \A k \in Due : print'[k].pages = print[k].pages
      PROVE  SumOver(PageCounts', Due) = SumOver(PageCounts, Due)
  <2>1. \A k \in Due : PageCounts'[k] = PageCounts[k]
    BY <1>0, <1>6 DEF PageCounts
  <2>2. IsFiniteSet(Due)
    BY <1>0, FS_Subset
  <2> QED
    BY <2>1, <2>2, TotalSame
<1>7. ASSUME Due' \subseteq Due, \A k \in Due : print'[k].pages = print[k].pages
      PROVE  PagesOf(Due)' <= MaxTotalPages
  <2>1. SumOver(PageCounts', Due') <= SumOver(PageCounts', Due)
    BY <1>0, <1>1, <1>7, TotalMonotonic
  <2> QED
    BY <1>0, <1>3, <1>4, <1>5, <1>6, <1>7, <2>1
<1>8. ASSUME NEW n \in Pages, NEW j \in PrintJobs, WithinLimits(n), j \notin Due,
             Due' \subseteq Due \cup {j}, print'[j].pages = n,
             \A k \in Due : print'[k].pages = print[k].pages
      PROVE  PagesOf(Due)' <= MaxTotalPages
  <2>0. n \in Nat
    BY <1>8, PrintingAssumption
  <2>1. PagesOf(Counted) + n <= MaxTotalPages
    BY <1>0, <1>8, UsedCounts DEF WithinLimits, UsedPages
  <2>2. PagesOf(Counted) = SumOver(PageCounts, Counted)
    BY <1>0, PagesTotal
  <2>3. SumOver(PageCounts, Due) <= SumOver(PageCounts, Counted)
    <3>1. Due \subseteq Counted
      BY <1>0, UsedCounts
    <3> QED
      BY <1>0, <1>1, <3>1, TotalMonotonic
  <2>4. PICK f, D, E : f = PageCounts' /\ D = Due /\ E = Due'
    OBVIOUS
  <2>5. /\ f \in [PrintJobs -> Nat] /\ D \in SUBSET PrintJobs /\ E \in SUBSET PrintJobs
        /\ D \cup {j} \in SUBSET PrintJobs /\ (D \cup {j}) \ {j} = D /\ j \in D \cup {j}
        /\ E \subseteq D \cup {j} /\ f[j] = n
    BY <1>0, <1>1, <1>8, <2>4 DEF PageCounts
  <2>6. SumOver(f, D \cup {j}) = f[j] + SumOver(f, (D \cup {j}) \ {j})
    <3>1. IsFiniteSet(PrintJobs)
      BY <1>0
    <3>2. PICK V : V = D \cup {j}
      OBVIOUS
    <3>3. V \in SUBSET PrintJobs /\ j \in V
      BY <2>5, <3>2
    <3>4. SumOver(f, V) = f[j] + SumOver(f, V \ {j})
      BY ONLY <2>5, <3>1, <3>3, TotalRemove
    <3> QED
      BY <3>2, <3>4, Zenon
  <2>7. SumOver(f, E) <= SumOver(f, D \cup {j})
    BY ONLY PrintingAssumption, <2>5, TotalMonotonic
  <2>8. SumOver(f, D \cup {j}) = n + SumOver(f, D)
    BY <2>5, <2>6
  <2>9. SumOver(f, D) = SumOver(PageCounts, Due)
    BY <1>6, <1>8, <2>4
  <2>10. SumOver(f, E) = PagesOf(Due)' /\ SumOver(f, E) \in Nat
    BY <1>3, <1>4, <2>4
  <2> QED
    BY <1>0, <1>4, <2>0, <2>1, <2>2, <2>3, <2>7, <2>8, <2>9, <2>10
<1> QED
  BY <1>0, <1>7, <1>8, DueStep

\* For any number of documents, with and without a printer, however the
\* service stops, lp fails and the staff cancels and reprints: lp takes a
\* document once for each time a person queued it, and once more for each
\* outcome that was not recorded; a job that is done and does not say that
\* there is no printer is on paper, any other is not; and the contestant has
\* no more jobs and pages than the limits, but for those that were queued
\* without asking for them (printing/service.go, contestweb/printing.go).
THEOREM PrintsAccounted == PrintSpec => [](PrintTypeOK /\ PrintsSound)
<1>1. PrintInv /\ [PrintNext]_printVars => PrintInv'
  BY PrintTypeStep, CopiesStep, LimitStep, PagesStep DEF PrintInv
<1>2. PrintInv => PrintTypeOK /\ PrintsSound
  BY DEF PrintInv, PrintsSound, PrintedOnce, JobPrinted
<1> QED
  BY <1>1, <1>2, PrintStarts, PTL DEF PrintSpec

(***************************************************************************)
(* All of them together.                                                   *)
(***************************************************************************)
\* The safety of the services, side by side.
THEOREM ServicesSafe ==
    Spec => [](JobsSound /\ RecompiledFresh /\ PrintsSound /\ UpgradeSound)
<1> DEFINE Inv == JobsInv /\ CompileInv /\ PrintInv /\ UpgradeInv
<1>1. Init => Inv
  BY JobsStarts, CompileStarts, PrintStarts, UpgradeStarts DEF Init
<1>2. Inv /\ [Next]_vars => Inv'
  <2> SUFFICES ASSUME Inv, [Next]_vars PROVE Inv'
    OBVIOUS
  <2>1. /\ [JobsNext]_jobVars /\ [CompileNext]_compileVars
        /\ [PrintNext]_printVars /\ [UpgradeNext]_upgradeVars
    BY DEF Next, vars
  <2>2. PrintInv'
    BY <2>1, PrintTypeStep, CopiesStep, LimitStep, PagesStep DEF PrintInv
  <2> QED
    BY <2>1, <2>2, JobsStep, CompileStep, UpgradeStep
<1>3. Inv => JobsSound /\ RecompiledFresh /\ PrintsSound /\ UpgradeSound
  BY DEF JobsInv, CompileInv, PrintInv, PrintsSound, PrintedOnce, JobPrinted, UpgradeInv
<1> QED
  BY <1>1, <1>2, <1>3, PTL DEF Spec

=============================================================================
