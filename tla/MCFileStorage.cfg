SPECIFICATION FSSpec
CONSTANTS
  Thread = {t1, t2}
  Key = {k1, k2}
  Value = {v1, v2}
  None = None
  Garbage = Garbage
  Faults = {"open", "crash"}
SYMMETRY Symmetry
INVARIANTS
  FSTypeOK
  BufferFits
  NodesStay
  CleanMeansSaved
PROPERTY
  ImplementsKVStore
