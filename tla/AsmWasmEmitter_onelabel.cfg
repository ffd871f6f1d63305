\* spec.md 4.4 and the Loop tests of part_000: a Loop opens one label.
CONSTANTS
  LoopLabels = 1
  MaxDepth = 3
  MaxStmts = 2
  MaxNodes = 5
  Kinds = {"expr", "block", "if", "while", "break", "continue", "return"}
  Self <- MCSelf
  Params <- MCParams
  VarType <- MCVarType
  FuncSig <- MCFuncSig
  BinOpChoices = {}
  MaxExprDepth = 1
  MaxExprNodes = 0

SPECIFICATION Spec

INVARIANT LabelsResolve
