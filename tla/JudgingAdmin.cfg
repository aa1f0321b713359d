SPECIFICATION FairSpec
CONSTANTS
  Submissions = {s1}
  Imported = {s1}
  Unfinished = {}
  Misconfigured = {s1}
  Testcases = {1, 2}
  FirstTestcases = {1}
  Slots = {w1}
  MaxAttempts = 2
  TestcasesPerJob = 1
  ShortCircuit = TRUE
  ScoreTypeValid = TRUE
  Levels = {"compilation", "evaluation", "score"}
  MaxInvalidations = 1
  MaxRequeues = 1
  MaxOutstanding = 1
  MaxDrops = 0
  MaxCrashes = 1
  MaxEdits = 1
PROPERTIES EventuallyFinished
CHECK_DEADLOCK FALSE
