SPECIFICATION Spec
CONSTANTS
  k1 = k1
  k2 = k2
  k3 = k3
  k4 = k4
  Keys <- MCKeys
  Sizes = {1, 2, 3, 5}
  MaxEntries = 3
  MaxTotalBytes = 4
  MaxOps = 7
SYMMETRY Digests
CHECK_DEADLOCK FALSE
INVARIANTS
  TypeOK
  WithinLimits
PROPERTIES
  EvictsRightly
