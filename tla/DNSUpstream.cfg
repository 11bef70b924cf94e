SPECIFICATION FairSpec
CONSTANTS
  N = 3
  IndexMod = 7
  Queries = {q1, q2}
INVARIANTS AllTriedAlone
PROPERTY OneServerSuffices
