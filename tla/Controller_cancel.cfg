SPECIFICATION Spec
CONSTANTS
  task = task
  dispose = dispose
  diff = diff
  inspect = inspect
  models = models
  Command = {task, diff}
  Palette <- Chosen
  Kind <- Kinds
  Asks <- Requests
INVARIANTS
  RunningTaskIsCancellable
CHECK_DEADLOCK FALSE
