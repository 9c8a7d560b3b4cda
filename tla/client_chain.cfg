CONSTANTS
  MaxCards = 3
  Unfilled = Unfilled
  Results <- MCResults
  Attempts <- MCAttempts
  SelfCycles = 3
  MaxRules = 6
SPECIFICATION Spec
INVARIANTS
  TypeOK
  DraftWellLinked
  RoutesAsPlanned
  LoopedIffOnRing
  ReadBackInOrder
CHECK_DEADLOCK FALSE
