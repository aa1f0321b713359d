SPECIFICATION Spec
CONSTANTS
    Tests = {t1}
    Jobs = {j1}
    Fragile = {t1, j1}
    MaxAttempts = 2
    MaxStarted = 1
    MaxOutstanding = 1
    MaxDrops = 1
    MaxWorkerFaults = 1
    Programs = {p1, p2}
    MaxCompiler = 2
    MaxRecompiles = 1
    PrintJobs = {1, 2, 3}
    Pages = {1, 2}
    MaxPrintJobs = 2
    MaxTotalPages = 3
    NoLimit = NoLimit
    LpAttempts = 2
    MaxStops = 1
    MaxReprints = 1
    Versions = {1, 2, 3}
    KeepReleases = 2
    MaxStepFailures = 2
    MaxInterrupts = 1
    Characters <- MCCharacters
    MaxText = 3
    bufSize = 2
    absTol = 0
    relTol = 1
    Metas <- MCMetas
    JudgeMetas <- MCJudgeMetas
    TaskTypes = {"Batch", "TwoSteps", "OutputOnly", "Communication", "Interactive"}
    Processes = 2
    LimitsModes = {"per_process", "total"}
    TimeLimit = 2
    MemoryLimit = 100
    NumTestcases = 2
    MaxBoxFaults = 1
    MaxJobs = 2
INVARIANTS TypeOK JobsSound RecompiledFresh PrintsSound UpgradeSound WorkSound
PROPERTIES ServicesSettle
CHECK_DEADLOCK FALSE
