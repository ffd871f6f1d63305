\* The emitter's own convention: a Loop opens an exit and a continue label.
CONSTANTS
  LoopLabels = 2
  MaxDepth = 3
  MaxStmts = 2
  MaxNodes = 5
  Kinds = {"expr", "block", "if", "while", "break", "continue", "return"}
  Self <- MCSelf
  Params <- MCParams
  VarType <- MCVarType
  FuncSig <- MCFuncSig
  BinOpChoices = {"ADD", "BIT_OR", "EQ", "NOT"}
  MaxExprDepth = 2
  MaxExprNodes = 2

SPECIFICATION Spec

INVARIANT TypeOK
INVARIANT ExprWellFormed
