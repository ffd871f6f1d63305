---------------------------- MODULE AsmWasmEmitter ----------------------------
(***************************************************************************)
(* AsmWasmBuilderImpl (src/src/wasm/asm-wasm-builder.cc) inside one        *)
(* function declaration: the AST visitor that writes the bytecode of one   *)
(* asm.js function.                                                         *)
(* The recursive visitor is a machine with an explicit stack of pending    *)
(* calls (work); each Visit* handler is one action, and the code a handler *)
(* runs after a nested Visit returns is a continuation task on the stack.  *)
(*                                                                         *)
(* The AST is read once, in visiting order, so each statement is chosen    *)
(* as the visitor reaches it: which handler fires is the statement's kind. *)
(* Expression statements are visited node by node, each with the type the  *)
(* asm.js typer gave it; the conditions of if and while and the returned   *)
(* value stay one "Expr" token, as they open no label.                     *)
(*                                                                         *)
(* Ghost state gives the reference the Br depths are checked against: the  *)
(* bytecode labels that the Block and Loop opcodes written so far open      *)
(* around the end of code (spec.md 4.4: Block opens one label, Loop opens   *)
(* LoopLabels of them), and the AST statements enclosing the visitor.       *)
(***************************************************************************)
EXTENDS Integers, Sequences, FiniteSets, TLC

CONSTANTS
  LoopLabels,   \* labels a Loop opcode opens in the bytecode
  MaxDepth,     \* bound on the nesting of compound AST statements
  MaxStmts,     \* bound on the statements of one statement list
  MaxNodes,     \* no compound statement is started past this many statements
  Kinds,        \* the statement kinds the input may contain
  Self,         \* the variable of the function declaration being visited
  Params,       \* its parameters, in order
  VarType,      \* the asm.js type of each local: "int" or "double"
  FuncSig,      \* each function variable's [params, ret]
  BinOpChoices, \* the operator tokens the input may contain
  MaxExprDepth, \* bound on the nesting of expressions
  MaxExprNodes  \* no composite expression past this many statements

StmtKinds == {"expr", "block", "if", "while", "break", "continue", "return"}
Compound == {"block", "if", "while"}
Ops == {"Block", "Loop", "If", "IfThen", "Br", "Nop", "Expr"}
ExprOps == {"I32Const", "F64Const", "GetLocal", "SetLocal", "Index",
            "CallFunction", "BoolNot"}
BodyId == 0                                   \* the function literal
NoLabel == [owner |-> -1, role |-> "none"]    \* a depth past every label

VARIABLES
  in_function_,       \* AsmWasmBuilderImpl::in_function_
  block_depth_,       \* AsmWasmBuilderImpl::block_depth_
  breakable_blocks_,  \* <<[stmt, loop]>>: the (BreakableStatement*, bool) pairs
  code,               \* the function builder's body: <<[op, arg]>>
  work,               \* the visitor's pending calls, top first
  jumped,             \* stmt->IsJump() of the statement last visited
  nodes,              \* ghost: ids handed to AST statements so far
  scopes,             \* ghost: enclosing AST statements <<[id, kind, labeled]>>
  labels,             \* ghost: bytecode labels open at the end of code
  jumps,              \* ghost: for each Br of a jump, [resolved, intended]
  is_set_op_,         \* AsmWasmBuilderImpl::is_set_op_
  local_variables_,   \* local variable -> index (LookupOrInsertLocal)
  functions_,         \* function variable -> index (LookupOrInsertFunction)
  exprs,              \* ghost: each expression statement's written range
  binops              \* ghost: each operator's operand types and opcode row

expr_vars == <<is_set_op_, local_variables_, functions_, exprs, binops>>
vars == <<in_function_, block_depth_, breakable_blocks_, code, work, jumped,
          nodes, scopes, labels, jumps, expr_vars>>

Tok(op, arg) == [op |-> op, arg |-> arg]
Task(t, n, id, flag, lvl) ==
  [t |-> t, n |-> n, id |-> id, flag |-> flag, lvl |-> lvl, ty |-> "", var |-> ""]
(* A pending Visit of an expression the typer gave type ty, at depth lvl,  *)
(* and of a variable proxy in the target or callee position.                *)
ExprTask(ty, lvl) == [Task("expr", 0, 0, FALSE, lvl) EXCEPT !.ty = ty]
VarTask(t, v) == [Task(t, 0, 0, FALSE, 0) EXCEPT !.var = v]
Top == Head(work)
Label(owner, role) == [owner |-> owner, role |-> role]

(* The labels a While's Loop opens, outermost first: its exit and, when a  *)
(* Loop opens two, the continue label inside it.                           *)
LoopLabelSeq(id) ==
  IF LoopLabels = 2 THEN <<Label(id, "exit"), Label(id, "continue")>>
  ELSE <<Label(id, "exit")>>

(* The label Br depth reaches from the end of code: depth 0 is the         *)
(* innermost open label.                                                    *)
Resolve(d) == IF d < Len(labels) THEN labels[Len(labels) - d] ELSE NoLabel

(* The loops of VisitContinueStatement and VisitBreakStatement: walk       *)
(* breakable_blocks_ from the top, adding 2 for a loop and 1 for a block    *)
(* until the target; a break to a loop adds one more.  Without a target the *)
(* walk runs off the bottom (DCHECK(i >= 0)) with the whole distance.        *)
RECURSIVE ContinueWalk(_, _, _, _)
ContinueWalk(bb, target, i, d) ==
  IF i = 0 \/ bb[i].stmt = target THEN d
  ELSE ContinueWalk(bb, target, i - 1, d + (IF bb[i].loop THEN 2 ELSE 1))

RECURSIVE BreakWalk(_, _, _, _)
BreakWalk(bb, target, i, d) ==
  IF i = 0 THEN d
  ELSE IF bb[i].stmt = target THEN d + (IF bb[i].loop THEN 1 ELSE 0)
  ELSE BreakWalk(bb, target, i - 1, d + (IF bb[i].loop THEN 2 ELSE 1))

BreakDistance(bb, target) == BreakWalk(bb, target, Len(bb), 0)
ContinueDistance(bb, target) == ContinueWalk(bb, target, Len(bb), 0)

(* Targets the parser can give a break (an enclosing loop or labelled       *)
(* block) and a continue (an enclosing loop).                               *)
BreakTargets == {scopes[k].id : k \in {k \in DOMAIN scopes :
                   scopes[k].kind = "while" \/ scopes[k].labeled}}
ContinueTargets == {scopes[k].id : k \in {k \in DOMAIN scopes :
                      scopes[k].kind = "while"}}

-----------------------------------------------------------------------------
(* Expressions.  An expression is visited as a bound asm.js type the typer  *)
(* (not in src/) gave it; fixnum is both signed and unsigned.              *)
IntTypes == {"fixnum", "signed", "unsigned", "int"}
ExprTypes == IntTypes \cup {"double"}

(* TypeIndexOf(expr): the first of kAsmSigned, kAsmUnsigned, kAsmInt,      *)
(* kAsmFloat, kAsmDouble the type Is.                                      *)
TypeIndexOf(ty) ==
  CASE ty \in {"fixnum", "signed"} -> 0
    [] ty = "unsigned"             -> 1
    [] ty = "int"                  -> 0
    [] ty = "double"               -> 3

(* TypeIndexOf(left, right, ignore_sign): the left operand's index; the   *)
(* DCHECK on the right one is compiled out of release builds.              *)
TypeIndexOf2(l, r, ignore_sign) == TypeIndexOf(l)

(* TypeFrom: the wasm local type of an asm.js type. *)
TypeFrom(ty) == IF ty \in IntTypes THEN "I32" ELSE "F64"

(* The BINOP_CASE rows of VisitBinaryOperation and VisitCompareOperation:  *)
(* the opcode stem, the table macro and ignore_sign.                       *)
Row(name, table, ignore) == [name |-> name, table |-> table, ignore |-> ignore]
BinopRows ==
  [ADD |-> Row("Add", "NON_SIGNED", TRUE), SUB |-> Row("Sub", "NON_SIGNED", TRUE),
   MUL |-> Row("Mul", "NON_SIGNED", TRUE), DIV |-> Row("Div", "SIGNED", FALSE),
   BIT_OR |-> Row("Ior", "NON_SIGNED_INT", TRUE),
   BIT_XOR |-> Row("Xor", "NON_SIGNED_INT", TRUE),
   SHL |-> Row("Shl", "NON_SIGNED_INT", TRUE),
   SAR |-> Row("ShrS", "NON_SIGNED_INT", TRUE),
   SHR |-> Row("ShrU", "NON_SIGNED_INT", TRUE)]
CompareRows ==
  [EQ |-> Row("Eq", "NON_SIGNED", FALSE), LT |-> Row("Lt", "SIGNED", FALSE),
   LTE |-> Row("Le", "SIGNED", FALSE), GT |-> Row("Gt", "SIGNED", FALSE),
   GTE |-> Row("Ge", "SIGNED", FALSE)]
OpRow(op) == IF op \in DOMAIN BinopRows THEN BinopRows[op] ELSE CompareRows[op]

(* NON_SIGNED_BINOP, SIGNED_BINOP, NON_SIGNED_INT_BINOP: opcodes[type]. *)
Opcodes(row) ==
  LET n == row.name IN
  CASE row.table = "NON_SIGNED" -> <<"I32" \o n, "I32" \o n, "F32" \o n, "F64" \o n>>
    [] row.table = "SIGNED" ->
         <<"I32" \o n \o "S", "I32" \o n \o "U", "F32" \o n, "F64" \o n>>
    [] row.table = "NON_SIGNED_INT" -> <<"I32" \o n, "I32" \o n>>
OpcodeNames ==
  UNION {{Opcodes(OpRow(op))[i] : i \in DOMAIN Opcodes(OpRow(op))}
           : op \in DOMAIN BinopRows \cup DOMAIN CompareRows}

(* The operand and result types the asm.js typer accepts for an operator  *)
(* (int +, -, * and / take intish operands, which are left out).           *)
Accepts(op) ==
  CASE op \in {"ADD", "SUB", "MUL", "DIV"} ->
         {[l |-> "double", r |-> "double", res |-> "double"]}
    [] op \in {"BIT_OR", "BIT_XOR", "SHL", "SAR"} ->
         {[l |-> l, r |-> r, res |-> "signed"] : l, r \in IntTypes}
    [] op = "SHR" -> {[l |-> l, r |-> r, res |-> "unsigned"] : l, r \in IntTypes}
    [] op \in DOMAIN CompareRows ->
         {[l |-> l, r |-> r, res |-> "int"] :
            <<l, r>> \in ({"fixnum", "signed"} \X {"fixnum", "signed"})
                         \cup ({"fixnum", "unsigned"} \X {"fixnum", "unsigned"})
                         \cup {<<"double", "double">>}}

(* A local of VarType v holds the values of type t. *)
Assignable(t, v) == IF VarType[v] = "int" THEN t \in IntTypes ELSE t = "double"

(* The types an expression at depth d in statement n may have: literals, local reads and  *)
(* calls without arguments at every depth, the rest above MaxExprDepth.    *)
LeafTypes == {"fixnum", "signed", "double"} \cup {VarType[v] : v \in DOMAIN VarType}
             \cup {FuncSig[f].ret : f \in {g \in DOMAIN FuncSig : FuncSig[g].params = <<>>}}
CompositeTypes ==
  {a.res : a \in UNION {Accepts(op) : op \in BinOpChoices \ {"NOT"}}}
  \cup (IF "NOT" \in BinOpChoices THEN {"int"} ELSE {})
  \cup {FuncSig[f].ret : f \in DOMAIN FuncSig}
  \cup {t \in LeafTypes : \E v \in DOMAIN VarType : Assignable(t, v)}
ExprTypesAt(d, n) ==
  LeafTypes \cup (IF d < MaxExprDepth /\ n <= MaxExprNodes THEN CompositeTypes ELSE {})

(* WasmFunctionBuilder::AddParam/AddLocal and WasmModuleBuilder::           *)
(* AddFunction (not in src/): the next index of the table.                  *)
AddVar(lv) == Cardinality(DOMAIN lv)
AddFunction(fs) == Cardinality(DOMAIN fs)

(* LookupOrInsertLocal and LookupOrInsertFunction: the variable's index,  *)
(* inserting it on first use; [map, index].                                *)
LookupOrInsertLocal(lv, v) ==
  IF v \in DOMAIN lv THEN [map |-> lv, index |-> lv[v]]
  ELSE [map |-> (v :> AddVar(lv)) @@ lv, index |-> AddVar(lv)]
LookupOrInsertFunction(fs, f) ==
  IF f \in DOMAIN fs THEN [map |-> fs, index |-> fs[f]]
  ELSE [map |-> (f :> AddFunction(fs)) @@ fs, index |-> AddFunction(fs)]

(* VisitFunctionLiteral's loop over the parameters. *)
RECURSIVE InsertParams(_, _)
InsertParams(lv, ps) ==
  IF ps = <<>> THEN lv
  ELSE InsertParams(LookupOrInsertLocal(lv, Head(ps)).map, Tail(ps))

(* The number of arguments of the function with index i, -1 for none. *)
Arity(i) ==
  IF \E f \in DOMAIN functions_ : functions_[f] = i
  THEN Len(FuncSig[CHOOSE f \in DOMAIN functions_ : functions_[f] = i].params)
  ELSE -1

(* Reference decoder of spec.md 4.4 for the expressions written here:     *)
(* the position after the expression that starts at i, 0 when none does.  *)
RECURSIVE ParseExpr(_, _), ParseExprs(_, _, _)
ParseExpr(c, i) ==
  IF i < 1 \/ i > Len(c) THEN 0
  ELSE LET op == c[i].op
           IsIndex(j) == j <= Len(c) /\ c[j].op = "Index"
       IN CASE op \in {"I32Const", "F64Const"} -> i + 1
            [] op = "GetLocal" -> IF IsIndex(i + 1) THEN i + 2 ELSE 0
            [] op = "SetLocal" -> IF IsIndex(i + 1) THEN ParseExpr(c, i + 2) ELSE 0
            [] op = "CallFunction" ->
                 IF IsIndex(i + 1) /\ Arity(c[i + 1].arg) >= 0
                 THEN ParseExprs(c, i + 2, Arity(c[i + 1].arg)) ELSE 0
            [] op = "BoolNot" -> ParseExpr(c, i + 1)
            [] op \in OpcodeNames -> ParseExprs(c, i + 1, 2)
            [] OTHER -> 0
ParseExprs(c, i, k) ==
  IF k = 0 \/ i = 0 THEN i ELSE ParseExprs(c, ParseExpr(c, i), k - 1)

Init ==
  /\ in_function_ = FALSE
  /\ block_depth_ = 0
  /\ breakable_blocks_ = <<>>
  /\ code = <<>>
  /\ work = <<>>
  /\ jumped = FALSE
  /\ nodes = 0
  /\ scopes = <<>>
  /\ labels = <<>>
  /\ jumps = {}
  /\ is_set_op_ = FALSE
  /\ local_variables_ = <<>>
  /\ functions_ = <<>>
  /\ exprs = {}
  /\ binops = {}

(* VisitFunctionDeclaration up to the body: the function's index, then    *)
(* in_function_ is set and VisitFunctionLiteral inserts the parameters and *)
(* runs VisitStatements on the body, which writes Block and the count.     *)
VisitFunctionDeclaration ==
  /\ ~in_function_ /\ nodes = 0
  /\ block_depth_ = 0
  /\ \E n \in 0 .. MaxStmts :
       /\ code' = <<Tok("Block", n)>>
       /\ work' = <<Task("stmts", n, BodyId, TRUE, 1)>>
  /\ functions_' = LookupOrInsertFunction(functions_, Self).map
  /\ local_variables_' = InsertParams(local_variables_, Params)
  /\ in_function_' = TRUE
  /\ nodes' = 1
  /\ scopes' = <<[id |-> BodyId, kind |-> "body", labeled |-> FALSE]>>
  /\ labels' = <<Label(BodyId, "exit")>>
  /\ UNCHANGED <<block_depth_, breakable_blocks_, jumped, jumps, is_set_op_,
                 exprs, binops>>

(* The rest of VisitFunctionDeclaration once the body is visited:          *)
(* in_function_ = false, local_variables_.Clear().                         *)
EndFunctionDeclaration ==
  /\ in_function_ /\ work = <<>>
  /\ in_function_' = FALSE
  /\ local_variables_' = <<>>
  /\ scopes' = <<>>
  /\ labels' = <<>>
  /\ UNCHANGED <<block_depth_, breakable_blocks_, code, work, jumped, nodes,
                 jumps, is_set_op_, functions_, exprs, binops>>

(* One turn of the VisitStatements loop: visit the next statement, or     *)
(* stop after the last one or after a statement that IsJump().  The list's *)
(* IsJump() is its last statement's; when the loop stopped early that       *)
(* statement was never visited and is any statement.                        *)
StatementsStep ==
  /\ work # <<>> /\ Top.t = "stmts"
  /\ \/ /\ Top.n > 0 /\ (Top.flag \/ ~jumped)
        /\ work' = <<Task("visit", 0, 0, FALSE, Top.lvl),
                     Task("stmts", Top.n - 1, Top.id, FALSE, Top.lvl)>> \o Tail(work)
        /\ UNCHANGED jumped
     \/ /\ Top.n = 0
        /\ work' = Tail(work)
        /\ jumped' = (~Top.flag /\ jumped)
     \/ /\ Top.n > 0 /\ ~Top.flag /\ jumped
        /\ work' = Tail(work)
        /\ jumped' \in BOOLEAN
  /\ UNCHANGED <<in_function_, block_depth_, breakable_blocks_, code, nodes,
                 scopes, labels, jumps,
                 expr_vars>>

(* A statement of kind k may be visited here. *)
Visiting(k) ==
  /\ work # <<>> /\ Top.t = "visit"
  /\ k \in Kinds
  /\ k \in Compound => Top.lvl < MaxDepth /\ nodes < MaxNodes

(* VisitExpressionStatement: Visit the expression, whose type the typer    *)
(* gave; the statement's range of code is recorded once it is written.      *)
VisitExpressionStatement ==
  /\ Visiting("expr")
  /\ \E ty \in ExprTypesAt(1, nodes + 1) :
       work' = <<ExprTask(ty, 1),
                 Task("expr_stmt_done", Len(code) + 1, 0, FALSE, 0)>> \o Tail(work)
  /\ jumped' = FALSE
  /\ nodes' = nodes + 1
  /\ UNCHANGED <<in_function_, block_depth_, breakable_blocks_, code, scopes,
                 labels, jumps, expr_vars>>

(* Ghost step: the expression statement starting at Top.n ends here. *)
ExprStmtDone ==
  /\ work # <<>> /\ Top.t = "expr_stmt_done"
  /\ work' = Tail(work)
  /\ exprs' = exprs \cup {[start |-> Top.n, end |-> Len(code)]}
  /\ UNCHANGED <<in_function_, block_depth_, breakable_blocks_, code, jumped,
                 nodes, scopes, labels, jumps, is_set_op_, local_variables_,
                 functions_, binops>>

(* VisitBlock: block_depth_++, push (stmt, false), VisitStatements (Block  *)
(* and the count), then EndBlock.                                           *)
VisitBlock ==
  /\ Visiting("block")
  /\ \E labeled \in BOOLEAN, n \in 0 .. MaxStmts :
       /\ work' = <<Task("stmts", n, nodes, TRUE, Top.lvl + 1),
                    Task("end_block", 0, nodes, labeled, 0)>> \o Tail(work)
       /\ code' = code \o <<Tok("Block", n)>>
       /\ scopes' = Append(scopes, [id |-> nodes, kind |-> "block",
                                    labeled |-> labeled])
  /\ block_depth_' = block_depth_ + 1
  /\ breakable_blocks_' = Append(breakable_blocks_, [stmt |-> nodes, loop |-> FALSE])
  /\ labels' = Append(labels, Label(nodes, "exit"))
  /\ nodes' = nodes + 1
  /\ UNCHANGED <<in_function_, jumped, jumps,
                 expr_vars>>

(* The rest of VisitBlock: block_depth_--, pop_back.  A labelled block is  *)
(* no jump.                                                                 *)
EndBlock ==
  /\ work # <<>> /\ Top.t = "end_block"
  /\ block_depth_' = block_depth_ - 1
  /\ breakable_blocks_' = SubSeq(breakable_blocks_, 1, Len(breakable_blocks_) - 1)
  /\ jumped' = (jumped /\ ~Top.flag)
  /\ work' = Tail(work)
  /\ scopes' = SubSeq(scopes, 1, Len(scopes) - 1)
  /\ labels' = SubSeq(labels, 1, Len(labels) - 1)
  /\ UNCHANGED <<in_function_, code, nodes, jumps,
                 expr_vars>>

(* VisitIfStatement: IfThen with an else, If without; the condition; the   *)
(* then statement, or Nop when it is empty; the else statement.             *)
VisitIfStatement ==
  /\ Visiting("if")
  /\ \E hasThen, hasElse \in BOOLEAN :
       LET thenTasks == IF hasThen
                        THEN <<Task("visit", 0, 0, FALSE, Top.lvl + 1),
                               Task("if_then_done", 0, nodes, hasElse, Top.lvl + 1)>>
                        ELSE <<>>
           elseTasks == IF hasElse
                        THEN <<Task("visit", 0, 0, FALSE, Top.lvl + 1),
                               Task("if_end", 0, nodes, FALSE, 0)>>
                        ELSE <<>>
       IN /\ code' = code \o <<Tok(IF hasElse THEN "IfThen" ELSE "If", 0),
                               Tok("Expr", 0)>>
                          \o (IF hasThen THEN <<>> ELSE <<Tok("Nop", 0)>>)
          /\ work' = (IF hasThen THEN thenTasks ELSE elseTasks) \o Tail(work)
          /\ jumped' = FALSE
  /\ nodes' = nodes + 1
  /\ UNCHANGED <<in_function_, block_depth_, breakable_blocks_, scopes,
                 labels, jumps,
                 expr_vars>>

(* After the then statement: visit the else statement, if any, keeping     *)
(* whether then jumped; IfStatement::IsJump() needs both branches to jump.  *)
IfBranchDone ==
  /\ work # <<>>
  /\ \/ /\ Top.t = "if_then_done" /\ Top.flag
        /\ work' = <<Task("visit", 0, 0, FALSE, Top.lvl),
                     Task("if_end", 0, Top.id, jumped, 0)>> \o Tail(work)
        /\ UNCHANGED jumped
     \/ /\ Top.t = "if_then_done" /\ ~Top.flag
        /\ work' = Tail(work)
        /\ jumped' = FALSE
     \/ /\ Top.t = "if_end"
        /\ work' = Tail(work)
        /\ jumped' = (Top.flag /\ jumped)
  /\ UNCHANGED <<in_function_, block_depth_, breakable_blocks_, code, nodes,
                 scopes, labels, jumps,
                 expr_vars>>

(* Mutant of VisitWhileStatement: block_depth_ grows by one, not two.      *)
VisitWhileStatement_DepthOne ==
  /\ Visiting("while")
  /\ code' = code \o <<Tok("Loop", 1), Tok("If", 0), Tok("Expr", 0), Tok("Br", 0)>>
  /\ block_depth_' = block_depth_ + 1
  /\ breakable_blocks_' = Append(breakable_blocks_, [stmt |-> nodes, loop |-> TRUE])
  /\ work' = <<Task("visit", 0, 0, FALSE, Top.lvl + 1),
              Task("end_while", 0, nodes, FALSE, 0)>>
             \o Tail(work)
  /\ scopes' = Append(scopes, [id |-> nodes, kind |-> "while", labeled |-> FALSE])
  /\ labels' = labels \o LoopLabelSeq(nodes)
  /\ nodes' = nodes + 1
  /\ UNCHANGED <<in_function_, jumped, jumps,
                 expr_vars>>

(* VisitWhileStatement: Loop 1, block_depth_ += 2, push (stmt, true), If,  *)
(* the condition, Br 0, then the body, then EndWhile.                       *)
VisitWhileStatement ==
  /\ Visiting("while")
  /\ code' = code \o <<Tok("Loop", 1), Tok("If", 0), Tok("Expr", 0), Tok("Br", 0)>>
  /\ block_depth_' = block_depth_ + 2
  /\ breakable_blocks_' = Append(breakable_blocks_, [stmt |-> nodes, loop |-> TRUE])
  /\ work' = <<Task("visit", 0, 0, FALSE, Top.lvl + 1),
              Task("end_while", 0, nodes, FALSE, 0)>>
             \o Tail(work)
  /\ scopes' = Append(scopes, [id |-> nodes, kind |-> "while", labeled |-> FALSE])
  /\ labels' = labels \o LoopLabelSeq(nodes)
  /\ nodes' = nodes + 1
  /\ UNCHANGED <<in_function_, jumped, jumps,
                 expr_vars>>

(* The rest of VisitWhileStatement: block_depth_ -= 2, pop_back.  A while  *)
(* is no jump.                                                              *)
EndWhile ==
  /\ work # <<>> /\ Top.t = "end_while"
  /\ block_depth_' = block_depth_ - 2
  /\ breakable_blocks_' = SubSeq(breakable_blocks_, 1, Len(breakable_blocks_) - 1)
  /\ jumped' = FALSE
  /\ work' = Tail(work)
  /\ scopes' = SubSeq(scopes, 1, Len(scopes) - 1)
  /\ labels' = SubSeq(labels, 1, Len(labels) - LoopLabels)
  /\ UNCHANGED <<in_function_, code, nodes, jumps,
                 expr_vars>>

(* A jump's Br d: the label it reaches and the label it is meant for. *)
Jump(d, intended) == [resolved |-> Resolve(d), intended |-> intended]

(* VisitBreakStatement: Br, the distance to the target, Nop. *)
VisitBreakStatement ==
  /\ Visiting("break")
  /\ \E target \in BreakTargets :
       LET d == BreakDistance(breakable_blocks_, target)
       IN /\ code' = code \o <<Tok("Br", d), Tok("Nop", 0)>>
          /\ jumps' = jumps \cup {Jump(d, Label(target, "exit"))}
  /\ work' = Tail(work)
  /\ jumped' = TRUE
  /\ nodes' = nodes + 1
  /\ UNCHANGED <<in_function_, block_depth_, breakable_blocks_, scopes, labels,
                 expr_vars>>

(* VisitContinueStatement: Br, the distance to the target loop, Nop. *)
VisitContinueStatement ==
  /\ Visiting("continue")
  /\ \E target \in ContinueTargets :
       LET d == ContinueDistance(breakable_blocks_, target)
       IN /\ code' = code \o <<Tok("Br", d), Tok("Nop", 0)>>
          /\ jumps' = jumps \cup {Jump(d, Label(target, "continue"))}
  /\ work' = Tail(work)
  /\ jumped' = TRUE
  /\ nodes' = nodes + 1
  /\ UNCHANGED <<in_function_, block_depth_, breakable_blocks_, scopes, labels,
                 expr_vars>>

(* VisitReturnStatement in a function: Br block_depth_, then the returned   *)
(* expression.                                                              *)
VisitReturnStatement ==
  /\ Visiting("return")
  /\ code' = code \o <<Tok("Br", block_depth_), Tok("Expr", 0)>>
  /\ jumps' = jumps \cup {Jump(block_depth_, Label(BodyId, "exit"))}
  /\ work' = Tail(work)
  /\ jumped' = TRUE
  /\ nodes' = nodes + 1
  /\ UNCHANGED <<in_function_, block_depth_, breakable_blocks_, scopes, labels,
                 expr_vars>>

(* An expression of some type may be visited here; a composite one only   *)
(* above MaxExprDepth and in the first MaxExprNodes statements.             *)
ExprVisiting(composite) ==
  /\ work # <<>> /\ Top.t = "expr"
  /\ composite => Top.lvl < MaxExprDepth /\ nodes <= MaxExprNodes

stmt_vars == <<in_function_, block_depth_, breakable_blocks_, jumped, nodes,
               scopes, labels, jumps>>

(* VisitVariableProxy in a function.  A function variable (the callee of a *)
(* call) writes its LookupOrInsertFunction index; a local writes GetLocal  *)
(* unless is_set_op_, then its LookupOrInsertLocal index.                   *)
VisitVariableProxy ==
  /\ work # <<>>
  /\ \/ /\ Top.t = "callee"
        /\ LET r == LookupOrInsertFunction(functions_, Top.var)
           IN /\ code' = Append(code, Tok("Index", r.index))
              /\ functions_' = r.map
        /\ UNCHANGED local_variables_
     \/ /\ \/ Top.t = "target"
           \/ ExprVisiting(FALSE)
        /\ \E v \in DOMAIN VarType :
             /\ Top.t = "target" => v = Top.var
             /\ Top.t = "expr" => VarType[v] = Top.ty
             /\ LET r == LookupOrInsertLocal(local_variables_, v)
                IN /\ code' = code \o (IF is_set_op_ THEN <<>> ELSE <<Tok("GetLocal", 0)>>)
                                   \o <<Tok("Index", r.index)>>
                   /\ local_variables_' = r.map
        /\ UNCHANGED functions_
  /\ work' = Tail(work)
  /\ UNCHANGED <<stmt_vars, is_set_op_, exprs, binops>>

(* VisitLiteral: a number literal as the constant of its TypeFrom type. *)
VisitLiteral ==
  /\ ExprVisiting(FALSE)
  /\ Top.ty \in {"fixnum", "signed", "double"}
  /\ code' = Append(code, Tok(IF TypeFrom(Top.ty) = "I32" THEN "I32Const" ELSE "F64Const", 0))
  /\ work' = Tail(work)
  /\ UNCHANGED <<stmt_vars, expr_vars>>

(* VisitAssignment to a local: SetLocal, is_set_op_ = true, Visit(target), *)
(* then AssignTargetDone.  The assignment has its value's type.            *)
VisitAssignment ==
  /\ ExprVisiting(TRUE)
  /\ Top.ty \in ExprTypesAt(Top.lvl + 1, nodes)
  /\ \E v \in DOMAIN VarType :
       /\ Assignable(Top.ty, v)
       /\ work' = <<VarTask("target", v),
                    [ExprTask(Top.ty, Top.lvl + 1) EXCEPT !.t = "assign_target_done"]>>
                  \o Tail(work)
  /\ code' = Append(code, Tok("SetLocal", 0))
  /\ is_set_op_' = TRUE
  /\ UNCHANGED <<stmt_vars, local_variables_, functions_, exprs, binops>>

(* Mutant of AssignTargetDone: is_set_op_ is not reset. *)
AssignTargetDone_NoReset ==
  /\ work # <<>> /\ Top.t = "assign_target_done"
  /\ work' = <<[Top EXCEPT !.t = "expr"]>> \o Tail(work)
  /\ UNCHANGED <<stmt_vars, code, expr_vars>>

(* The rest of VisitAssignment: is_set_op_ = false, Visit(value). *)
AssignTargetDone ==
  /\ work # <<>> /\ Top.t = "assign_target_done"
  /\ is_set_op_' = FALSE
  /\ work' = <<[Top EXCEPT !.t = "expr"]>> \o Tail(work)
  /\ UNCHANGED <<stmt_vars, code, local_variables_, functions_, exprs, binops>>

(* VisitCall (OTHER_CALL): CallFunction, Visit(callee), then the arguments. *)
VisitCall ==
  /\ \E f \in DOMAIN FuncSig :
       LET ps == FuncSig[f].params IN
       /\ ExprVisiting(ps # <<>>)
       /\ FuncSig[f].ret = Top.ty
       /\ \A i \in DOMAIN ps : ps[i] \in ExprTypesAt(Top.lvl + 1, nodes)
       /\ work' = <<VarTask("callee", f)>>
                  \o [i \in 1 .. Len(ps) |-> ExprTask(ps[i], Top.lvl + 1)]
                  \o Tail(work)
  /\ code' = Append(code, Tok("CallFunction", 0))
  /\ UNCHANGED <<stmt_vars, expr_vars>>

(* VisitUnaryOperation NOT: BoolNot, then the operand. *)
VisitUnaryOperation ==
  /\ ExprVisiting(TRUE)
  /\ "NOT" \in BinOpChoices /\ Top.ty = "int"
  /\ \E t \in IntTypes \cap ExprTypesAt(Top.lvl + 1, nodes) :
       work' = <<ExprTask(t, Top.lvl + 1)>> \o Tail(work)
  /\ code' = Append(code, Tok("BoolNot", 0))
  /\ UNCHANGED <<stmt_vars, expr_vars>>

(* BINOP_CASE: the opcode that TypeIndexOf selects from the row's table,   *)
(* then Visit(left), Visit(right).                                          *)
VisitBinop(rows) ==
  /\ ExprVisiting(TRUE)
  /\ \E op \in BinOpChoices \cap DOMAIN rows : \E a \in Accepts(op) :
       /\ a.res = Top.ty
       /\ {a.l, a.r} \subseteq ExprTypesAt(Top.lvl + 1, nodes)
       /\ LET idx == TypeIndexOf2(a.l, a.r, rows[op].ignore)
          IN /\ code' = Append(code, Tok(Opcodes(rows[op])[idx + 1], 0))
             /\ binops' = binops \cup {[op |-> op, l |-> a.l, r |-> a.r, idx |-> idx]}
       /\ work' = <<ExprTask(a.l, Top.lvl + 1), ExprTask(a.r, Top.lvl + 1)>>
                  \o Tail(work)
  /\ UNCHANGED <<stmt_vars, is_set_op_, local_variables_, functions_, exprs>>

VisitBinaryOperation == VisitBinop(BinopRows)
VisitCompareOperation == VisitBinop(CompareRows)

(* The function is written. *)
Done ==
  /\ ~in_function_ /\ nodes > 0
  /\ UNCHANGED vars

Next ==
  \/ VisitFunctionDeclaration
  \/ EndFunctionDeclaration
  \/ StatementsStep
  \/ VisitExpressionStatement
  \/ VisitBlock
  \/ EndBlock
  \/ VisitIfStatement
  \/ IfBranchDone
  \/ VisitWhileStatement
  \/ EndWhile
  \/ VisitBreakStatement
  \/ VisitContinueStatement
  \/ VisitReturnStatement
  \/ ExprStmtDone
  \/ VisitVariableProxy
  \/ VisitLiteral
  \/ VisitAssignment
  \/ AssignTargetDone
  \/ VisitCall
  \/ VisitUnaryOperation
  \/ VisitBinaryOperation
  \/ VisitCompareOperation
  \/ Done

Spec == Init /\ [][Next]_vars

-----------------------------------------------------------------------------
(* Properties.                                                             *)

TypeOK ==
  /\ in_function_ \in BOOLEAN
  /\ block_depth_ \in Nat
  /\ breakable_blocks_ \in Seq([stmt : Nat, loop : BOOLEAN])
  /\ code \in Seq([op : Ops \cup ExprOps \cup OpcodeNames, arg : Nat])
  /\ is_set_op_ \in BOOLEAN
  /\ jumped \in BOOLEAN
  /\ nodes \in Nat

(* spec.md 4.4 and 4.7: every Br that VisitBreakStatement,                 *)
(* VisitContinueStatement or VisitReturnStatement writes reaches the label  *)
(* of its target (the exit of the broken statement, the continue label of  *)
(* the loop, the function's body Block), counted through the labels the    *)
(* Block and Loop opcodes written around it open.                           *)
LabelsResolve ==
  \A j \in jumps : j.resolved = j.intended

(* spec.md 4.4: the code VisitExpressionStatement writes (VisitAssignment, *)
(* VisitVariableProxy under is_set_op_, VisitCall, the operators) decodes  *)
(* as exactly one expression, ending where the statement's code ends.      *)
ExprWellFormed ==
  \A e \in exprs : ParseExpr(code, e.start) = e.end + 1

(* VisitStatements writes Block and the count stmts->length() before its   *)
(* loop, and the decoder (spec.md 4.4) takes that many statements after    *)
(* it.  A statement list is left only once all the statements its count    *)
(* announced are written, whatever IsJump() said of one of them.            *)
BlockCountsWritten ==
  [][work # <<>> /\ Top.t = "stmts" /\ work' = Tail(work) => Top.n = 0]_vars

(* The opcode BINOP_CASE selects computes the operator on every operand    *)
(* value the typer allows: a signed (S) opcode needs both operands signed, *)
(* an unsigned (U) one both unsigned, F64 both double; the sign-free I32   *)
(* opcodes take any int operands.                                          *)
OpcodeMatchesOperands ==
  \A b \in binops :
    LET both(S) == {b.l, b.r} \subseteq S IN
    CASE b.idx = 3 -> both({"double"})
      [] OpRow(b.op).table = "SIGNED" /\ b.idx = 0 -> both({"fixnum", "signed"})
      [] OpRow(b.op).table = "SIGNED" /\ b.idx = 1 -> both({"fixnum", "unsigned"})
      [] OTHER -> both(IntTypes)

====
