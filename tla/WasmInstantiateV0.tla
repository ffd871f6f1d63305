--------------------------- MODULE WasmInstantiateV0 ---------------------------
(***************************************************************************)
(* The earlier WasmModule::Instantiate of src/src/wasm/wasm-module.cc.  In  *)
(* order: reject a too large memory, allocate it, load the data segments,  *)
(* export the memory, then one pass over the functions that adds an        *)
(* external function as an undefined property or compiles any other one,  *)
(* and adds every exported function as a property; a second pass calls    *)
(* PatchDirectCalls, which does nothing.                                    *)
(*                                                                         *)
(* There is no linker: a compiled function's direct calls take whatever    *)
(* ModuleEnv::GetFunctionCode returns when the graph is built, which is    *)
(* the callee's code if it was compiled before, else the placeholder that  *)
(* CreatePlaceholderCode makes, a null handle.                              *)
(*                                                                         *)
(* The decoded module is chosen in Init and never changes.  Allocation     *)
(* failure, a graph-building error, and what the pipeline does with the    *)
(* null call descriptor GetWasmCallDescriptor returns, are                 *)
(* nondeterministic outcomes of the steps that meet them.                  *)
(***************************************************************************)
EXTENDS Integers, Sequences, WasmMemory

CONSTANTS
  NumFuncs,         \* functions->size()
  kMaxMemSize,      \* the largest accepted mem_size_log2
  Names,            \* the names GetName can return
  FunctionChoices,  \* decoded WasmFunction records [name, external, exported, calls]
  SegmentChoices,   \* decoded data-segment tables
  MemLog2Choices    \* decoded mem_size_log2 values

FuncIdx == 0 .. NumFuncs - 1
NullHandle == 0                    \* Handle<Code>::null()
CodeOf(i) == i + 1                 \* the code object compiled for function i
Terminal == {"done", "error", "abort"}

(* The internal fields of the module object. *)
kWasmModuleFunctionTable == 0
kWasmModuleCodeTable == 1
kWasmMemArrayBuffer == 2
kWasmGlobalsArrayBuffer == 3
InternalFields == 0 .. 3

VARIABLES
  wasm,           \* the decoded WasmModule
  phase,          \* where Instantiate is
  mem_size,       \* size = 1 << mem_size_log2, 0 until allocated
  copied,         \* the data segments memcpy'd into memory, in order
  index,          \* the function the first pass is at
  function_code,  \* the std::vector<Handle<Code>> of module_env
  code_table,     \* the module's code table
  targets,        \* the call targets built into each compiled function's code
  props,          \* the JSObject::AddProperty calls on the module, in order
  fields          \* what SetInternalField stored in each internal field

vars == <<wasm, phase, mem_size, copied, index, function_code, code_table,
          targets, props, fields>>

Func(i) == wasm.functions[i]
Prop(name, kind) == [name |-> name, kind |-> kind]

Init ==
  /\ wasm \in [mem_size_log2 : MemLog2Choices, mem_export : BOOLEAN,
               functions : [FuncIdx -> FunctionChoices],
               data_segments : SegmentChoices]
  /\ phase = "start"
  /\ mem_size = 0
  /\ copied = <<>>
  /\ index = 0
  /\ function_code = [i \in FuncIdx |-> NullHandle]
  /\ code_table = [i \in FuncIdx |-> NullHandle]
  /\ targets = [i \in FuncIdx |-> <<>>]
  /\ props = <<>>
  /\ fields = [f \in InternalFields |-> "undefined"]

(* Reject mem_size_log2 > kMaxMemSize, then allocate 1 << mem_size_log2   *)
(* bytes; either failure throws.                                           *)
AllocateMemory ==
  /\ phase = "start"
  /\ IF wasm.mem_size_log2 > kMaxMemSize
     THEN /\ phase' = "error"
          /\ UNCHANGED mem_size
     ELSE \E allocated \in BOOLEAN :
            /\ phase' = IF allocated THEN "data" ELSE "error"
            /\ mem_size' = IF allocated THEN 2^wasm.mem_size_log2 ELSE 0
  /\ UNCHANGED <<wasm, copied, index, function_code, code_table, targets, props,
                 fields>>

(* The loop over the initialized data segments, with the same three       *)
(* CHECK_LTs and memcpy as LoadDataSegments; then the memory buffer in its *)
(* internal field, Smi 0 for the globals and, if mem_export, the property  *)
(* "memory".                                                                *)
LoadData ==
  /\ phase = "data"
  /\ LET r == LoadDataSegments(wasm.data_segments, mem_size)
     IN /\ copied' = r.copied
        /\ phase' = IF r.aborted THEN "abort" ELSE "compile"
        /\ props' = IF ~r.aborted /\ wasm.mem_export
                    THEN Append(props, Prop("memory", "buffer"))
                    ELSE props
        /\ fields' = IF r.aborted THEN fields
                     ELSE [fields EXCEPT ![kWasmMemArrayBuffer] = "buffer",
                                         ![kWasmGlobalsArrayBuffer] = "smi0"]
  /\ UNCHANGED <<wasm, mem_size, index, function_code, code_table, targets>>

(* CreatePlaceholderCode: a TODO that returns the null handle. *)
CreatePlaceholderCode(i) == NullHandle

(* ModuleEnv::GetFunctionCode: the callee's code, or a placeholder that is *)
(* stored back into function_code (storing null over null changes nothing).*)
GetFunctionCode(fc, i) ==
  IF fc[i] # NullHandle THEN fc[i] ELSE CreatePlaceholderCode(i)

(* CompileFunction's graph for function i: BuildTFGraph over the body,    *)
(* whose direct calls take their targets from GetFunctionCode.              *)
BuildTargets(fc, i) ==
  [k \in DOMAIN Func(i).calls |-> GetFunctionCode(fc, Func(i).calls[k])]

(* The exported-function property that ends each iteration, and index++. *)
ExportAndAdvance(ps) ==
  /\ props' = IF Func(index).exported
              THEN Append(ps, Prop(Func(index).name, "function"))
              ELSE ps
  /\ index' = index + 1

(* An external function becomes a read-write property set to undefined. *)
AddExternal ==
  /\ phase = "compile" /\ index < NumFuncs
  /\ Func(index).external
  /\ ExportAndAdvance(Append(props, Prop(Func(index).name, "undefined")))
  /\ UNCHANGED <<wasm, phase, mem_size, copied, function_code, code_table, targets,
                 fields>>

(* ModuleEnv::GetWasmCallDescriptor: a TODO that returns nullptr. *)
NullDescriptor == "nullptr"
GetWasmCallDescriptor == NullDescriptor

(* CompileFunction: a BuildTFGraph error returns a null handle; otherwise  *)
(* Pipeline::GenerateCodeForTesting runs with the descriptor, which it     *)
(* dereferences: with nullptr the process dies or, if it never reads it,   *)
(* code comes back.                                                         *)
CompileFunction(descriptor) ==
  {"null"} \cup (IF descriptor = NullDescriptor THEN {"code", "crash"} ELSE {"code"})

(* The else branch of the first pass: CompileFunction, whose graph takes   *)
(* its direct call targets from GetFunctionCode; code that is not null     *)
(* goes into function_code and the code table.                             *)
CompileInternal ==
  /\ phase = "compile" /\ index < NumFuncs
  /\ ~Func(index).external
  /\ \E outcome \in CompileFunction(GetWasmCallDescriptor) :
       /\ phase' = IF outcome = "crash" THEN "abort" ELSE phase
       /\ IF outcome = "code"
          THEN /\ function_code' = [function_code EXCEPT ![index] = CodeOf(index)]
               /\ code_table' = [code_table EXCEPT ![index] = CodeOf(index)]
               /\ targets' = [targets EXCEPT ![index] = BuildTargets(function_code, index)]
          ELSE UNCHANGED <<function_code, code_table, targets>>
       /\ IF outcome = "crash"
          THEN UNCHANGED <<props, index>>
          ELSE ExportAndAdvance(props)
  /\ UNCHANGED <<wasm, mem_size, copied, fields>>

(* PatchDirectCalls: returns for an external function and is a TODO       *)
(* otherwise; the call targets in the function's code stay as built.       *)
PatchDirectCalls(t, i) == t

(* The second pass calls PatchDirectCalls on every function; then Smi 0    *)
(* goes into the function table field, the code table into its field, and  *)
(* the module is returned.                                                  *)
PatchAll ==
  /\ phase = "compile" /\ index = NumFuncs
  /\ phase' = "done"
  /\ targets' = [i \in FuncIdx |-> PatchDirectCalls(targets[i], i)]
  /\ fields' = [fields EXCEPT ![kWasmModuleFunctionTable] = "smi0",
                              ![kWasmModuleCodeTable] = "code_table"]
  /\ UNCHANGED <<wasm, mem_size, copied, index, function_code, code_table,
                 props>>

(* Instantiate has returned or thrown, or the process has ended. *)
Finished ==
  /\ phase \in Terminal
  /\ UNCHANGED vars

Next ==
  \/ AllocateMemory
  \/ LoadData
  \/ AddExternal
  \/ CompileInternal
  \/ PatchAll
  \/ Finished

Spec == Init /\ [][Next]_vars

-----------------------------------------------------------------------------
(* Properties.                                                             *)

(* JSObject::AddProperty adds a property the object does not have yet.   *)
(* When the decoded functions have distinct names, none of them "memory", *)
(* the AddProperty calls of Instantiate (the memory, each external        *)
(* function, each exported function) never add one name twice.            *)
ExportsAddedOnce ==
  (/\ \A i, j \in FuncIdx : i # j => Func(i).name # Func(j).name
   /\ \A i \in FuncIdx : Func(i).name # "memory")
  => \A k, m \in DOMAIN props : k # m => props[k].name # props[m].name

====
