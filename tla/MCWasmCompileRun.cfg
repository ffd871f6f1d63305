CONSTANTS
  NumFuncs = 2
  kPlaceholderMarker = 1000000000
  FunctionChoices <- MCFunctions
  GlobalChoices <- MCGlobals
  SegmentChoices <- MCNoSegments
  MemLog2Choices = {1, 31, 32}
  CompileOutcomes = {"code", "graph_error", "no_code"}

SPECIFICATION Spec

INVARIANT TypeOK
INVARIANT DriverGlobalsLaidOut
