SPECIFICATION FairSpec
CONSTANTS
  UserText = {"mine", "yours"}
  Setting = {"default", "changed"}
  MaxCalls = 2
  MaxEdits = 2
  MaxKills = 1
INVARIANTS
  UserFileIsKept
  PassedIsTrue
PROPERTIES
  StartsAreAuthorised
  UserTextIsRead
  ExecutionEnds
CHECK_DEADLOCK FALSE
