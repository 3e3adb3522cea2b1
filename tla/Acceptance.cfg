SPECIFICATION Spec
CONSTANTS
  Order <- Paths
  Kind <- Kinds
  Tracked = {"application", "routes", "test"}
  Ignored = {".rspec"}
  InitialContent <- Checkout
  Explicit = {"test"}
  Subject = {"application"}
  Version = {"v1", "v2"}
  Declaring = {"v1"}
  Configuring = {"v2"}
  MaxInventory = 4
  MaxContext = 2
  MaxNarrow = 1
  MaxEdits = 2
  MaxWork = 1
  MaxTasks = 1
INVARIANTS
  ContextIsRanked
PROPERTIES
  BaselineIsReviewed
  VerifiedOnBaseline
CHECK_DEADLOCK FALSE
