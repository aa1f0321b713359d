SPECIFICATION PartsSpec
CONSTANTS
  Parts = {"counting", "datasets"}
  Submissions = {1, 2}
  Official = {1, 2}
  Datasets = {d1, d2}
  FirstLive = d1
  NoDataset = none
  Subtasks = {1}
  MaxPoints = 1
  Outcomes <- MCOutcomes
  ScoreMode = "max_tokened_last"
  Shards = {p1}
  Adjustments = {2}
  MaxChanges = 1
  MaxRestarts = 1
  MaxFailures = 1
  MaxLosses = 1
INVARIANTS AdjustmentKept EveryChangeAggregated
CHECK_DEADLOCK FALSE
