SPECIFICATION LiveSpec
CONSTANTS
  NoSession = NoSession
  NoEffect = NoEffect
  Session = {s1, s2}
  Effect = {e1, e2}
  MaxCrashes = 1
INVARIANTS
  NoOverlap
  NothingIsInferred
PROPERTIES
  StartsOnSettledWorktree
  KeepsPromise
  LeaseIsReleased
  GuardsAreCleared
CHECK_DEADLOCK FALSE
