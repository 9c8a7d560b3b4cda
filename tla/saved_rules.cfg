SPECIFICATION FairSpec
CONSTANTS
  A = A
  B = B
  a1 = a1
  NoWallet = NoWallet
  Wallets <- MCWallets
  Chains <- MCChains
  OwnerOf <- MCOwnerOf
  Existing = {}
  MaxSwitches = 3
  MaxErrors = 1
  MaxEvents = 2
CHECK_DEADLOCK FALSE
INVARIANTS TypeOK
PROPERTIES OpenRulesStaySaved RowsSettle
