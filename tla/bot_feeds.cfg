SPECIFICATION FeedsFairSpec
CONSTANTS
  p1 = p1
  p2 = p2
  f1 = f1
  f2 = f2
  Order <- MCOrder
  Feeds = {f1, f2}
  Rows <- MCRows
  None = None
  Bad = Bad
  Servers = {1, 2}
  Budget = 2
  MaxEdits = 1
  MaxFaults = 1
  MaxReads = 2
INVARIANTS FeedsTypeOK SubscribedToIndexed
PROPERTIES PairsConverge
CHECK_DEADLOCK FALSE
