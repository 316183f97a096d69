SPECIFICATION Spec
CONSTANTS
  GemmBlockSize = 10
  TileArea = 8
  CostPerGroup = 8
  Calls <- MCCalls
INVARIANTS
  MatrixProductsRight
  WinogradIsConvolution
  ConvolutionRight
  ReadsWithinPad
  DataMovedRight
  EltwiseRight
  AggregatesRight
  
  ProposalsRight
  WorkCoveredOnce
