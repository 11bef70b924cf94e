SPECIFICATION Spec
CONSTANTS
  CodecSet <- MCCodecs
  Total = 5
  WriteSizes = {1, 2, 4}
  ReadSizes = {1, 3, 4}
  Chunk = 3
  RecordLen = 4
  PacketMax = 9
  Units = {2, 3}
  MaskLen = 2
  CountMod = 3
INVARIANTS ReadsWritten
PROPERTIES AllArrives
CHECK_DEADLOCK FALSE
