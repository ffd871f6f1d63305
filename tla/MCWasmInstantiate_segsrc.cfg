CONSTANTS
  NumFuncs = 1
  kPlaceholderMarker = 1000000000
  kMaxMemSize = 3
  Names = {"a"}
  FunctionChoices <- MCOneFunction
  GlobalChoices <- MCNoGlobals
  SegmentChoices <- MCSegments
  MemLog2Choices = {0, 2, 3}
  ModuleSize = 8

SPECIFICATION Spec

INVARIANT SegmentSourceInModule
