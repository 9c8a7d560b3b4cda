SPECIFICATION Spec
CONSTANTS
  e1 = e1
  e2 = e2
  Endpoints <- MCEndpoints
  Sides <- MCSides
  Capacity = 2
  Interval = 1
  MaxLag = 0
  MaxBasisAge = 1
  MaxLatency = 1
  Silence = 2
  MaxTime = 3
  MaxUpdates = 1
  MaxProbes = 1
SYMMETRY MCSymmetry
INVARIANTS TypeOK SignalsFresh BudgetHeld
CHECK_DEADLOCK FALSE
