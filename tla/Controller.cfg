SPECIFICATION FairSpec
CONSTANTS
  task = task
  dispose = dispose
  diff = diff
  inspect = inspect
  models = models
  Command = {task, dispose, diff, inspect, models}
  Palette <- Chosen
  Kind <- Kinds
  Asks <- Requests
INVARIANTS
  Orderly
  ShownIsWaitedFor
PROPERTIES
  CancelEnds
CHECK_DEADLOCK FALSE
