SPECIFICATION FairCheckSpec
CONSTANTS
  a = a
  b = b
  ka = ka
  kb = kb
  NoThread = NoThread
  fwdrs <- Pair
  Pri <- PairTiers
  MaxFailures = 1
  CountBound = 2
  Threads = {ka, kb}
  Checks <- TwoCheckers
  CheckDisabledOnly = FALSE
  MaxWait = 1
CHECK_DEADLOCK FALSE
INVARIANTS NoDuplicates DisabledLeaves
PROPERTIES Recovers Detects SomeoneServes CheckersExit
