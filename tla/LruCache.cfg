SPECIFICATION CacheSpec
CONSTANTS
  Key = {k1, k2, k3}
  Val = {v1, v2}
  NoVal = NoVal
  nil = nil
  Sizes = {1, 3}
PROPERTY Implements
