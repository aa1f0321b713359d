SPECIFICATION PartsSpec
CONSTANTS
  Submissions = {1, 2}
  Official = {1, 2}
  Datasets = {d1}
  FirstLive = d1
  NoDataset = none
  Subtasks = {1, 2}
  MaxPoints = 1
  Parts = {"races"}
  Outcomes <- MCOutcomes
  ScoreMode = "max_subtask"
  Shards = {p1, p2}
  Adjustments = {}
  MaxChanges = 0
  MaxRestarts = 0
  MaxFailures = 0
  MaxLosses = 0
INVARIANT TaskScoreExact
CHECK_DEADLOCK FALSE
