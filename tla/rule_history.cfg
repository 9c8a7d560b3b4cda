SPECIFICATION HistorySpec
CONSTANTS
  shown = shown
  leftover = leftover
  Walkers <- MCWalkers
  PageLimit = 2
  MaxFires = 4
  MaxFaults = 2
CHECK_DEADLOCK FALSE
INVARIANTS NothingSkipped
