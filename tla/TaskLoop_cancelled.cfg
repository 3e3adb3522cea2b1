SPECIFICATION Spec
CONSTANTS
  tests = tests
  lint = lint
  Verifier = {tests, lint}
  Order <- TestsFirst
  Required = {tests}
  Objective = {tests, lint}
  MaxTurns = 3
  MaxToolCalls = 4
  RepairAttempts = 1
  MaxBatch = 2
  MaxTasks = 1
  MaxVersions = 3
  Budgets = {9}
  MaxExchanges = 1
  FullBytes = 4
  TrimmedBytes = 2
  CallId = {"a", "b"}
  ToolName = {"read"}
  Tools = {"read"}
  MaxCalls = 1
INVARIANTS
  StoppedTaskIsNotVerified
CHECK_DEADLOCK FALSE
