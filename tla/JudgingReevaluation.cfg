SPECIFICATION FairSpec
CONSTANTS
  Submissions = {s1}
  Imported = {}
  Unfinished = {}
  Misconfigured = {}
  Testcases = {1, 2}
  FirstTestcases = {1, 2}
  Slots = {w1}
  MaxAttempts = 2
  TestcasesPerJob = 2
  ShortCircuit = FALSE
  ScoreTypeValid = TRUE
  Levels = {"compilation", "evaluation"}
  MaxInvalidations = 1
  MaxRequeues = 0
  MaxOutstanding = 1
  MaxDrops = 1
  MaxCrashes = 1
  MaxEdits = 0
INVARIANTS GenerationFence ScoredMeansJudged
PROPERTIES FinishedIsFinal EventuallyFinished
CHECK_DEADLOCK FALSE
