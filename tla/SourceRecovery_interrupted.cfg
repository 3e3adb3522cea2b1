SPECIFICATION Spec
CONSTANTS
  Operation = {o1, o2, o3}
  NoOperation = NoOperation
  MaxKills = 3
SYMMETRY Symmetry
CHECK_DEADLOCK FALSE
INVARIANTS
  InterruptedWorkIsRecoverable
