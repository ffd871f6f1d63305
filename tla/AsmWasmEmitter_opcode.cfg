\* One expression statement in g(p), with the < and >>> operators nested
\* three deep: enough for a compare whose operands are a fixnum literal and
\* an unsigned shift.
CONSTANTS
  LoopLabels = 2
  MaxDepth = 1
  MaxStmts = 1
  MaxNodes = 1
  Kinds = {"expr"}
  Self <- MCSelf
  Params <- MCParams
  VarType <- MCVarType
  FuncSig <- MCFuncSig
  BinOpChoices = {"LT", "SHR"}
  MaxExprDepth = 3
  MaxExprNodes = 2

SPECIFICATION Spec

INVARIANT OpcodeMatchesOperands
