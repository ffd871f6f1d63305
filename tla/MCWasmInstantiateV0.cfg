\* Two functions with distinct or equal names; memory exported or not.
CONSTANTS
  NumFuncs = 2
  kMaxMemSize = 2
  Names = {"a", "b"}
  FunctionChoices <- MCFunctions
  SegmentChoices <- MCNoSegments
  MemLog2Choices = {1}

SPECIFICATION Spec

INVARIANT ExportsAddedOnce
