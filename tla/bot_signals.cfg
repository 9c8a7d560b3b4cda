SPECIFICATION Spec
CONSTANTS
  w1 = w1
  w2 = w2
  Works <- MCWorks
  Modes <- MCAllModes
  Quoted = 1
  Slip = 0
  External = 0
  MaxSignals = 2
  MaxTxs = 2
  MaxRestarts = 1
SYMMETRY MCSymmetry
INVARIANTS TypeOK LiveSaleBacked LiveCloseSold UntrackedBuyExplained
CHECK_DEADLOCK FALSE
