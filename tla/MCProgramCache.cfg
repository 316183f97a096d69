SPECIFICATION Spec
CONSTANTS
  Thread = {t1, t2}
  Kernel = {k1, k2}
  InfoKey = InfoKey
  Platform = {p1}
  PrecompiledFor = None
  Updates = "no"
  None = None
  Garbage = Garbage
  Faults = {"open", "crash"}
INVARIANTS
  TypeOK
  OneProgramPerKernel
  CompiledIsStored
PROPERTIES
  SavedIsReused
  CallsReturn
