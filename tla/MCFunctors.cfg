SPECIFICATION Spec
CONSTANTS
  TileArea = 8
  Faults = {"alloc"}
  FunctorSet <- MCFunctorSet
  DeviceSet <- MCDeviceSet
INVARIANTS
  LaunchedAsFresh
  LaunchCoversOutput
