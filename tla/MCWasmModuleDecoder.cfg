CONSTANTS
  kMinModuleSize = 8
  kMaxModuleSize = 100
  ModuleSizes = {4, 33, 70}
  CountChoices = {0, 1, 2}
  SigChoices <- MCSigChoices
  OffsetChoices <- MCOffsetChoices
  CallChoices <- MCCallChoices
  VerifyChoices = {FALSE, TRUE}

SPECIFICATION Spec

INVARIANT TypeOK
INVARIANT FirstErrorKept
INVARIANT LayoutMatchesHeader
