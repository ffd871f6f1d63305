CONSTANTS
  NumFuncs = 2
  kPlaceholderMarker = 1000000000
  FunctionChoices <- MCFunctions
  GlobalChoices <- MCGlobals
  SegmentChoices <- MCNoSegments
  MemLog2Choices = {1}
  CompileOutcomes = {"code", "graph_error"}

SPECIFICATION Spec


INVARIANT NoPlaceholderCallsAtRun
