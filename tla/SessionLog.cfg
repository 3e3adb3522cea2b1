SPECIFICATION Spec
CONSTANTS
  Proc = {p1, p2}
  Reader = {r1}
  NoProc = NoProc
  Mixed = Mixed
  MaxEvents = 4
  MaxLines = 3
  MaxCrashes = 2
  MaxDuplicates = 1
SYMMETRY Symmetry
INVARIANTS
  TypeOK
  LogStaysReadable
  MemoryAndProjectionAgree
  ReadsAreHistory
PROPERTIES
  ImplementsDurableLog
CHECK_DEADLOCK FALSE
