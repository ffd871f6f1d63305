CONSTANTS
  NumFuncs = 2
  kPlaceholderMarker = 1000000000
  kMaxMemSize = 2
  Names = {"a", "b"}
  FunctionChoices <- MCFunctions
  GlobalChoices <- MCNoGlobals
  SegmentChoices <- MCNoSegments
  MemLog2Choices = {1, 3}
  ModuleSize = 8

SPECIFICATION Spec

INVARIANT TypeOK
INVARIANT InstantiatedCallsResolved
