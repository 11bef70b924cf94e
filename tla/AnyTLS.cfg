SPECIFICATION Spec
CONSTANTS
  Users = {u1, u2}
  Sessions = {1, 2}
  Opens = 2
  Streams = 2
  Frames <- MCFrames
  QueueCap = 2
  WireCap = 1
INVARIANTS ExclusiveUse DrainInOrder
PROPERTIES DeadSessionEnds ClosedClientEmpties
CHECK_DEADLOCK FALSE
