SPECIFICATION Spec
CONSTANTS
  Thread = {t1}
  Kernel = {k1, k2}
  InfoKey = InfoKey
  Platform = {p1, p2}
  PrecompiledFor = None
  Updates = "any"
  None = None
  Garbage = Garbage
  Faults = {}
INVARIANT
  ProgramsMatchDriver
