SPECIFICATION ReloadFairSpec
CONSTANTS
  Fwdr = {a, b}
  MaxGenerations = 3
  WithTLS = TRUE
INVARIANTS PublishedIsWarm
PROPERTY OldCheckersEnd
