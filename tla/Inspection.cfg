SPECIFICATION FairSpec
CONSTANTS
  Command = {c1, c2}
  Flow <- ThreeSteps
  MaxCommands = 4
INVARIANTS
  TypeOK
  BrowserIsCovered
  PassedIsEarned
  TakeoverHolds
PROPERTIES
  OutcomeIsFinal
  InspectionEnds
CHECK_DEADLOCK FALSE
