SPECIFICATION Spec
CONSTANTS
  Thread = {t1}
  Kernel = {k1, k2}
  InfoKey = InfoKey
  Platform = {p1, p2, p3}
  PrecompiledFor = p2
  Updates = "new"
  None = None
  Garbage = Garbage
  Faults = {"open"}
INVARIANT
  ProgramsMatchDriver
