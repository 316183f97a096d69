SPECIFICATION FSSpec
CONSTANTS
  Thread = {t1, t2}
  Key = {k1, k2}
  Value = {v1, v2}
  None = None
  Garbage = Garbage
  Faults = {"write"}
SYMMETRY Symmetry
PROPERTY
  FlushZeroMeansSaved
