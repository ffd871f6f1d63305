CONSTANTS
  NumFuncs = 1
  kPlaceholderMarker = 1000000000
  kMaxMemSize = 3
  Names = {"a"}
  FunctionChoices <- MCOneFunction
  GlobalChoices <- MCGlobals
  SegmentChoices <- MCNoSegments
  MemLog2Choices = {0, 2, 3}
  ModuleSize = 8

SPECIFICATION Spec

INVARIANT GlobalsLaidOut
