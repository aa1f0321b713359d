SPECIFICATION Spec
CONSTANTS
  Submissions = {s1}
  Imported = {}
  Unfinished = {}
  Misconfigured = {}
  Testcases = {1, 2}
  FirstTestcases = {1, 2}
  Slots = {w1}
  MaxAttempts = 2
  TestcasesPerJob = 1
  ShortCircuit = FALSE
  ScoreTypeValid = TRUE
  Levels = {}
  MaxInvalidations = 0
  MaxRequeues = 0
  MaxOutstanding = 2
  MaxDrops = 0
  MaxCrashes = 1
  MaxEdits = 0
INVARIANTS TypeOK SystemErrorEarned NoWorkLost
PROPERTIES ImplementsLife
CHECK_DEADLOCK FALSE
