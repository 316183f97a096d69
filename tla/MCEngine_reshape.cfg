SPECIFICATION Spec
CONSTANTS
  Name <- Names
  Block = {"p", "q"}
  Pad = 1
  Faults = {}
  Nets <- ReshapeNets
  Shapes <- Small
  Profiles = {FALSE, TRUE}
  MaxRuns = 2
PROPERTY
  ReusedImageMayBeReshaped
