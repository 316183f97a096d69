SPECIFICATION Spec
CONSTANTS
  Name <- Names
  Block = {"p", "q"}
  Pad = 1
  Faults = {"alloc"}
  Nets <- SafeNets
  Shapes <- Small
  Profiles = {FALSE, TRUE}
  MaxRuns = 2
INVARIANTS
  TypeOK
  OutputsAreRight
  OnlyLiveMemory
  ArgsAreCurrent
  FatalIsJustified
  OneOwner
