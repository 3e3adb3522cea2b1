SPECIFICATION FairSpec
CONSTANTS
  tests = tests
  lint = lint
  Verifier = {tests, lint}
  Order <- TestsFirst
  Required = {tests}
  Objective = {tests, lint}
  MaxTurns = 3
  MaxToolCalls = 4
  RepairAttempts = 1
  MaxBatch = 2
  MaxTasks = 2
  MaxVersions = 2
  Budgets = {6, 9, 12, 15}
  MaxExchanges = 5
  FullBytes = 4
  TrimmedBytes = 2
  CallId = {"a", "b"}
  ToolName = {"read", "other"}
  Tools = {"read"}
  MaxCalls = 2
INVARIANTS
  PassedMeansCheckedOnLatest
  ExecutionsWithinBudget
  CallsAreWhole
  PromptsAreCoherent
PROPERTIES
  NothingAfterUnknown
  RepairFollowsFreshFailure
  TaskEnds
CHECK_DEADLOCK FALSE
