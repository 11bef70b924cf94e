SPECIFICATION NatFairSpec
CONSTANTS
  Srcs = {a1, a2}
  Sessions = {s1, s2, s3}
  NoSession = NoSession
  ChanCap = 2
INVARIANTS TableIsOpen
PROPERTIES NeverStuckOnLive
CHECK_DEADLOCK FALSE
