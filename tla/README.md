# TLA+ models of the v8-native-prototype WebAssembly core

This directory holds TLA+ models of the WebAssembly prototype in `src/`,
with the TLC configurations that check them. The models cover the module
decoder, the placeholder-and-patch linker, `WasmModule::Instantiate` (and
its earlier version in `wasm-module.cc`), the
`CompileAndRunWasmModule` driver and the asm.js emitter's visitor for one
function, statements and expressions.

## The system and its parts

The parts the spec (`spec.md` 2) names, and where they are in the code:

| Part | Code | Model |
|---|---|---|
| C1 opcode/type tables | not in `src/` (only `MemSize` is used here) | `WasmMemory!MemSize`, from spec.md 3 |
| C2 bounded byte reader | `src/unnamed/part_001` 436-573 (`u8`, `u16`, `u32`, `offset`, `local_type`, `mem_type`, `sig`, `checkAvailable`, `error`) | `WasmModuleDecoder` |
| C3 module decoder | part_001 257-401, `DecodeWasmModule` 808-818 | `WasmModuleDecoder` |
| C4 verifier / graph builder | not in `src/` (`decoder.cc`, `tf-builder.cc`) | only its range and call-index checks: `WasmModuleDecoder!VerifyWasmCodeFails` |
| C5 linker | part_001 78-151 (`WasmLinker`), 762-767 (`ModuleEnv::GetFunctionCode`) | `WasmLinker`, refining `DirectCallBinding` |
| C6 instantiator | part_001 577-759 (globals layout, `LoadDataSegments`, `Instantiate`) | `WasmInstantiate`, `WasmMemory` |
| compile-and-run driver | part_001 164-234 (`CompileFunction`), 842-933 | `WasmCompileRun` |
| C7 asm.js emitter | `src/src/wasm/asm-wasm-builder.cc` 56-223 (statements), 260-602 (expressions, index tables) | `AsmWasmEmitter`, `MCAsmWasmEmitter` |
| earlier `Instantiate` | `src/src/wasm/wasm-module.cc` | `WasmInstantiateV0`, `MCWasmInstantiateV0` |
| tests | `src/unnamed/part_000` | not modelled; their scenarios shaped the inputs |

How they interact: the decoder turns bytes into a `WasmModule` (globals,
functions, data segments). Either `Instantiate` or `CompileAndRunWasmModule`
then allocates memory, loads the data segments and lays out the globals. Next
it compiles each function. While a body's graph is built, every direct call
asks `ModuleEnv::GetFunctionCode` → `WasmLinker::GetFunctionCode` for its
target. A callee that has no code yet gets a placeholder code object, marked
with `index + kPlaceholderMarker` in its constant-pool offset. Each finished
code is handed to `WasmLinker::Finish`. Finally `WasmLinker::Link` rewrites
every call that targets a placeholder to the callee's final code.

Everything is single-threaded (spec.md 5). The hard cases are therefore:
- the order in which functions are compiled relative to the calls between
  them;
- the order of steps inside one driver;
- truncated or malformed input;
- the boundaries of numeric checks;
- steps that fail halfway.

## Modules

- `WasmLinker`: the linker state `placeholder_code_`, `function_code_` and the
  code space `heap`. A handle is an index into `heap`, and 0 is the null
  handle. Code objects keep their kind, their constant-pool offset and their
  code-target relocations.
  - Operators take and return a linker record, so one compilation can call
    `GetFunctionCode` many times (`ResolveCalls`, recursive over the call
    sites).
  - `LinkFunctionCrashes` is a null handle or a failed `CHECK` in
    `LinkFunction`. `Link` rewrites every relocation.
  - The standalone spec compiles the functions in any order (`Compile(i)`),
    then links (`LinkAll`).
- `DirectCallBinding`: the abstract promise of spec.md 4.5. When its caller
  is compiled, a call is bound if its callee is already compiled, and Pending
  otherwise. The link pass binds every call. `WasmLinker` is shown to refine
  it. The mapping gives each call the function whose code its target is, or
  Pending while that target is a placeholder.
- `WasmMemory`: `AllocateGlobalsOffsets`, `ComputeGlobalsSize` and
  `LoadDataSegments`, as operators.
  - The `& ~(size - 1)` mask is modelled as clearing the low bits, since every
    size is a power of two.
  - Offsets are naturals. Nothing here can wrap 32 bits: `LoadDataSegments`
    bounds both addends by `mem_size` before adding them.
- `WasmInstantiate`: `Instantiate` step by step. Its actions are
  `AllocateMemory`, `LoadData`, `AllocateGlobals`, then for each function
  `BindExternal` or `CompileInternal` (both end in `InstallCode`), then
  `LinkModule`.
  - The decoded module and the ffi object are chosen in `Init`.
  - Allocation failure and compilation failure are nondeterministic outcomes.
  - The ffi object is null, or maps each name to a JSFunction, another value,
    or an exception.
- `WasmInstantiateV0`: the earlier `Instantiate` of
  `src/src/wasm/wasm-module.cc`. Its actions are `AllocateMemory`,
  `LoadData` (the same three `CHECK_LT`s, taken from `WasmMemory`), then for
  each function `AddExternal` or `CompileInternal` (both end in
  `ExportAndAdvance`), then `PatchAll`.
  - There is no linker. `BuildTargets` gives each direct call what
    `GetFunctionCode` returns when the graph is built: the callee's code if
    it was compiled earlier, else `CreatePlaceholderCode`'s null handle.
    `PatchAll` applies `PatchDirectCalls` to every function.
  - `CompileFunction(GetWasmCallDescriptor)` is the set of outcomes of a
    compilation: a null handle (a graph error, which is skipped rather than
    thrown), code, or a crash. The crash stands for the pipeline run with
    the `nullptr` descriptor that `GetWasmCallDescriptor` returns.
  - `PatchDirectCalls` returns the call targets unchanged: it returns early
    for an external function and is a TODO otherwise.
  - `props` records every `JSObject::AddProperty` call on the module object,
    and `fields` what `SetInternalField` stores in its four internal fields.
- `WasmCompileRun`: `CompileAndRunWasmModule`. Its actions are `Setup`
  (memory, globals via `AllocateGlobalsOffsets`, data segments), then
  `SkipExternal` or `CompileInternal`, then `LinkAndRun`. `CompileFunction`
  has three outcomes: code, a failed graph build (the thrower reports), or no
  code from the pipeline without an error.
- `WasmModuleDecoder`: `DecodeWasmModule` and `DecodeModule`.
  - Positions are exact. Every read advances by its width, and a read past the
    end latches an error, returns 0 and does not advance.
  - Field values are chosen as each field is read. The decoder reads each byte
    once, so choosing lazily enumerates every input.
  - Actions: `DecodeWasmModule` (size limits), `DecodeHeader`, then one action
    per global, function (with `VerifyFunctionBody`) and data segment, and
    `EndLoop` for each loop's exit or break.
  - The ghost `R.raised` records every `error()` call.
- `AsmWasmEmitter`: the visitor of `AsmWasmBuilderImpl` for one function
  declaration.
  - The recursive visitor is a machine with a stack of pending calls (`work`).
    Each `Visit*` handler is an action, and what a handler does after a nested
    `Visit` returns is a continuation task (`EndBlock`, `EndWhile`,
    `IfBranchDone`). `StatementsStep` is one turn of the `VisitStatements`
    loop, including its stop after a statement that `IsJump()`.
  - The AST is read once, in order, so each statement's kind is chosen as the
    visitor reaches it. A break's target is an enclosing loop or labelled
    block, and a continue's target is an enclosing loop.
  - Expression statements are visited node by node. Each expression task
    carries the asm.js type the typer gave the node. The typer is not in
    `src/`, so those types are inputs, limited to what asm.js accepts
    (`Accepts`; fixnum is both signed and unsigned).
    - `VisitVariableProxy` writes a callee's `LookupOrInsertFunction` index,
      or a local's `GetLocal` (skipped under `is_set_op_`) and its
      `LookupOrInsertLocal` index.
    - `VisitLiteral` writes an I32 or F64 constant by `TypeFrom`.
    - `VisitAssignment` writes `SetLocal`, sets `is_set_op_` and visits the
      target. The continuation `AssignTargetDone` clears the flag and visits
      the value.
    - `VisitCall` writes `CallFunction`, then the callee and arguments.
    - `VisitUnaryOperation` (`!`) writes `BoolNot` before its operand.
    - `VisitBinaryOperation` and `VisitCompareOperation` share `VisitBinop`,
      the `BINOP_CASE` macro. It writes `Opcodes(row)[TypeIndexOf(...)]`
      before both operands.
  - Conditions of `if` and `while`, and the returned value, stay one `Expr`
    token: they open no label.
  - The parameters are inserted first, by `VisitFunctionLiteral`
    (`InsertParams`). `AddParam`, `AddLocal` and `AddFunction` are builder
    code outside `src/`; they hand out the next index (`AddVar`,
    `AddFunction`, spec-modelled).
  - Ghost `exprs` records each expression statement's range of `code`.
    `ParseExpr` is a reference decoder for the expressions of spec.md 4.4;
    a call's arity comes from the callee's signature. Ghost `binops` records
    each operator's operand types and the opcode row chosen.
  - Ghost `labels` is the stack of bytecode labels that the Block and Loop
    opcodes written so far open. A Loop opens `LoopLabels` of them. `jumps`
    records, for each Br of a jump, the label its depth reaches and the label
    it is meant for.
- `MC*.tla`: the model inputs for each configuration.

## Runs

| Run | Result | What it shows |
|---|---|---|
| `linker_any_order` (MCWasmLinker.cfg) | pass | Three functions with up to two calls each are compiled in every order. `Link` never crashes, every call ends on its callee's final code, and the linker refines `DirectCallBinding`. |
| `instantiate_link` | pass | Two functions are instantiated, each internal or external, with every ffi shape. When `Instantiate` returns, every direct call is bound to the callee's compiled code or ffi wrapper. |
| `instantiate_globals` | violation of `GlobalsLaidOut` | `Instantiate` never calls `AllocateGlobalsOffsets`, so globals alias at offset 0. It also sizes the area by `mem_size`. |
| `instantiate_segment_fit` | violation of `SpecSegmentsAccepted` | A segment ending exactly at the end of memory is legal in spec.md 3, but `CHECK_LT` aborts on it. |
| `instantiate_segment_source` | violation of `SegmentSourceInModule` | `memcpy` reads past the module's end. |
| `compile_run` | pass | Up to three globals of sizes 1, 2, 4 and 8 are laid out aligned, disjoint and inside the area, whatever each compilation yields. |
| `compile_run_unlinked` | violation of `NoPlaceholderCallsAtRun` | A call to an external function still targets a placeholder when the main code runs. |
| `decoder` | pass | Modules cut at several points, with bad types and out-of-range offsets. The decoder reports the first error. A module that decodes cleanly has exactly its announced tables, its bytes were consumed at the widths of spec.md 4.3, and that layout lies inside the module (`LayoutMatchesHeader`), so a module one byte short is reported, not read past its end. |
| `emitter_labels` (MCAsmWasmEmitter, AsmWasmEmitter.cfg) | pass | Statements nested through blocks, ifs, whiles and jumps, with dead code after jumps, keep the emitter's depth bookkeeping in range (`TypeOK`). Every expression statement decodes as exactly one expression (`ExprWellFormed`). |
| `emitter_one_label_loop` (AsmWasmEmitter_onelabel.cfg) | violation of `LabelsResolve` | spec.md 4.4 and the Loop tests of `part_000` (CountDown, Loop_if_break1, Loop_if_break_fallthru) give a Loop one label. The emitter counts two (`block_depth_ += 2`, and one more for a break to a loop), so `while (c) break;` writes `Br 1`, which leaves the function's body Block. |
| `instantiate_v0_exports` (MCWasmInstantiateV0.cfg) | violation of `ExportsAddedOnce` | In the earlier `Instantiate`, a function that is external and exported is added as a property twice: as `undefined` (line 167), then as a function (line 179). This happens even when every decoded name is distinct. `AddProperty` DCHECKs that the name is new, so a debug build stops. A release build gives the object two properties of one name. |
| `emitter_opcode_sign` | violation of `OpcodeMatchesOperands` | `5 < (p >>> 0)` is valid asm.js, since a fixnum is also unsigned. `TypeIndexOf(left, right, ...)` returns the left operand's index, 0, so the emitter writes `I32LtS`, a signed compare of an unsigned value. It is wrong once `p >>> 0` is 2^31 or more. A debug build stops at the DCHECK instead. |

Every property of a passing run has a mutant in `PROJECT.json`. A mutant is a
plausible bug in the mapped code that makes TLC find that property violated:
- a placeholder not reused, or its marker or handle off by one;
- `Finish` not called for an ffi wrapper;
- alignment rounding down;
- `error()` overwriting the latched error;
- a missing field read;
- a loop bound off by one;
- `while` raising `block_depth_` by one instead of two;
- `is_set_op_` not cleared before the assigned value is visited.

`decoder_code_range`, `decoder_forward_call` and `emitter_block_count`
were dropped to keep the number of runs small. `CodeRangeInModule` and `VerifiedCallsAgainstModule`
stay in `WasmModuleDecoder`, and their hazards are listed without a run.
`decoder_forward_call`'s decisive check belongs to the verifier, which is
modelled from spec.md, not from code in the repository.
`BlockCountsWritten` stays in `AsmWasmEmitter`: `VisitStatements` writes
`Block` and the list's length, then stops after the first statement that
`IsJump()`, so a body `return e; x;` is written `Block 2, Br 0, e`. Checking
it as a PROPERTY with `LoopLabels = 2`, `MaxDepth` 2, `MaxStmts` 2,
`MaxNodes` 4 and the kinds expr, block, if, break and return shows that
violation.

`LabelsResolve` is checked only with `LoopLabels = 1`, the semantics of the
repository's specification and tests. Under the emitter's own two-label
convention it holds, but that convention is not the one the decoder and
tests of this repository give, so passing there shows nothing about the code.

`instantiate_v0_exports` is the only run of `WasmInstantiateV0`, so no mutants
are needed for it. The null targets of forward calls in that version are not
run either: `CreatePlaceholderCode` and `PatchDirectCalls` are marked TODO in
the code.

## Bounds

- Linker: 3 functions, call sequences of length ≤ 2. This reaches every
  order of compiling a caller before or after its callees, self-calls, and
  two calls to one placeholder.
- Instantiate: 2 functions, two names, each internal or external, exported or
  not. The earlier `Instantiate` uses the same bounds, with up to one call
  per function.
- Driver memory: `mem_size_log2` of 1, 31 and 32. `ShiftedMemSize` models
  `1 << mem_size_log2` as the int shift it is: 31 gives `INT_MIN`, whose
  allocation fails, and 32 is undefined (1 byte on x86, 0 on ARM).
- Globals: up to two globals (three in the driver) of different sizes, so
  alignment padding happens.
- Segments: one segment with `dest_addr`, `source_size` in 0..4 against
  memories of 1, 4 and 8 bytes, and source offsets at 0, size-1 and the
  module end. This reaches both edges of every check.
- Decoder:
  - module sizes 4 (too small), 33 (inside the first function) and 70
    (inside the last entry of the largest tables);
  - up to 2 entries per table;
  - every offset field at 0, the module size, or one past it;
  - signatures with 0 or 1 parameters and a good or bad type.
- Emitter:
  - statement lists of 0 to 2 statements;
  - three levels of nesting;
  - no compound statement after the fifth statement;
  - g(p) with an int parameter `p` and a double local `d`, calling itself
    (one signed argument) or `h()` (double);
  - expressions two deep (`MaxExprDepth` 2) with `+ | == !`, and composite
    expressions only in the first statement (`MaxExprNodes` 2).
  This reaches a break or continue from a block or if inside a loop, a
  return under two labels, and statements left unwritten after a jump. It
  also reaches an assignment whose value reads a local, a call with an
  argument, and operators over every operand type. `emitter_opcode_sign`
  nests three deep with `<` and `>>>`, which is the least that builds a
  compare with an unsigned shift as an operand. `emitter_one_label_loop`
  keeps the statement bounds of `emitter_labels` without operators; a
  break inside a while is the case it needs.

## Fairness

No liveness properties are checked yet. `WasmLinker`'s `Spec` assumes weak
fairness of `LinkAll`, because the one thread that compiled the functions
goes on to link them.

## Not modelled

- The verifier and graph builder: their code is not in `src/`, so only their
  range and call-index checks are modelled.
- The pipeline, the JS↔WASM wrappers and the host objects: these are external
  collaborators (spec.md 1).
- `operator<<` formatting. It prints the function count for globals and data
  segments (part_001 41-42), which is a display bug only.
- The dangling `c_str()` and the truncated message in `VerifyFunctionBody`.
- In the earlier `Instantiate`: the memory contents, the JS function objects,
  and the call descriptors, which are null TODOs.
- In the emitter:
  - module-level code: `marking_exported`, object literals and the export
    of functions;
  - int `+`, `-`, `*` and `/`, whose intish operands make `TypeIndexOf`
    depend on type-cache entries outside `src/`;
  - the expressions of conditions and returns (one `Expr` token);
  - `switch`, `for` and `do-while`, which write no Switch or Loop opcode,
    so no label can be checked against;
  - the module builder and writer, whose code is not in `src/`;
  - the Block count as a byte: `static_cast<byte>` wraps at 256
    statements, far past the two statements per list of the bounds.

## Plan

1. Done: linker, refinement, Instantiate, the driver, and the decoder with
   its spec-modelled verifier checks.
2. Done: the emitter's statement visitor and its label depths, then its
   expression visitors, index tables and opcode selection.
3. Done: the earlier `Instantiate` of `wasm-module.cc`.
4. Done: the Block counts of `VisitStatements` against the statements
   written (`BlockCountsWritten`, stated without a run).
5. Later:
   - liveness of the drivers (every run returns or aborts);
   - the placeholder-crash case of `Link()` as its own property.
