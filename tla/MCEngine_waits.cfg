SPECIFICATION Spec
CONSTANTS
  Name <- Names
  Block = {"p", "q"}
  Pad = 1
  Faults = {}
  Nets <- ReshapeNets
  Shapes <- OneChannel
  Profiles = {FALSE, TRUE}
  MaxRuns = 2
PROPERTY
  WaitFnIsSet
