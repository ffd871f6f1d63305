---------------------------- MODULE WasmInstantiate ----------------------------
(***************************************************************************)
(* WasmModule::Instantiate (src/unnamed/part_001, lines 619-759): turn a   *)
(* decoded module into a module object.  In order: reject a too large      *)
(* memory, allocate the memory, load the data segments, export the memory, *)
(* allocate the globals area, then one pass over the functions that binds  *)
(* each external function to a wrapper of the ffi function of its name, or *)
(* compiles it, installs the code in the linker and the code table and     *)
(* exports it, and finally the linker's second pass.                        *)
(*                                                                         *)
(* The decoded module is the input: `wasm` is chosen in Init among the     *)
(* modules the decoder can produce (every global's offset is 0, since       *)
(* DecodeGlobalInModule sets it so) and never changes.  Allocation failure *)
(* and a failing compilation (a verification error, or no code from the    *)
(* pipeline) are nondeterministic outcomes of the steps that meet them.    *)
(***************************************************************************)
EXTENDS Integers, Sequences, Functions, WasmMemory

CONSTANTS
  NumFuncs,            \* functions->size()
  kPlaceholderMarker,  \* WasmLinker::kPlaceholderMarker
  kMaxMemSize,         \* the largest accepted mem_size_log2
  Names,               \* the function names GetName can return
  FunctionChoices,     \* decoded WasmFunction records
  GlobalChoices,       \* decoded globals tables
  SegmentChoices,      \* decoded data-segment tables
  MemLog2Choices,      \* decoded mem_size_log2 values
  ModuleSize           \* module_end - module_start

FuncIdx == 0 .. NumFuncs - 1

(* The ffi object: NoFfi (no properties at all) when it is null, else     *)
(* what Object::GetProperty yields for each name: a JSFunction, another    *)
(* value, or an exception.                                                 *)
NoFfi == <<>>
FfiChoices == {NoFfi} \cup [Names -> {"JSFunction", "other", "throws"}]

VARIABLES
  wasm,               \* the decoded WasmModule
  ffi,                \* the ffi argument
  phase,              \* where Instantiate is
  mem_size,           \* the linear memory's size, 0 until allocated
  copied,             \* the data segments memcpy'd into memory, in order
  globals_buffer,     \* the globals area's byte length, 0 if none
  index,              \* the function the compile loop is at
  code_table,         \* the module's code table
  exports,            \* names added as properties of the module object
  placeholder_code_, function_code_, heap   \* the WasmLinker

linker_vars == <<placeholder_code_, function_code_, heap>>
vars == <<wasm, ffi, phase, mem_size, copied, globals_buffer, index,
          code_table, exports, linker_vars>>

L == INSTANCE WasmLinker WITH
  calls <- [i \in FuncIdx |-> wasm.functions[i].calls],
  compiled <- {},
  link_status <- "none",
  CallSiteSeqs <- {}

Func(i) == wasm.functions[i]
Terminal == {"done", "error", "abort"}

Init ==
  /\ wasm \in [mem_size_log2 : MemLog2Choices,
               mem_export : BOOLEAN,
               globals : GlobalChoices,
               functions : [FuncIdx -> FunctionChoices],
               data_segments : SegmentChoices]
  /\ ffi \in FfiChoices
  /\ phase = "start"
  /\ mem_size = 0
  /\ copied = <<>>
  /\ globals_buffer = 0
  /\ index = 0
  /\ code_table = [i \in FuncIdx |-> L!NullHandle]
  /\ exports = <<>>
  /\ placeholder_code_ = L!NewLinker.placeholder_code
  /\ function_code_ = L!NewLinker.function_code
  /\ heap = L!NewLinker.heap

(* Reject a memory larger than kMaxMemSize, allocate the module object,   *)
(* its code table and the 1 << mem_size_log2 bytes of memory.             *)
AllocateMemory ==
  /\ phase = "start"
  /\ IF wasm.mem_size_log2 > kMaxMemSize
     THEN /\ phase' = "error"
          /\ UNCHANGED mem_size
     ELSE \E allocated \in BOOLEAN :
            IF allocated
            THEN /\ mem_size' = 2^wasm.mem_size_log2
                 /\ phase' = "data"
            ELSE /\ phase' = "error"
                 /\ UNCHANGED mem_size
  /\ UNCHANGED <<wasm, ffi, copied, globals_buffer, index, code_table,
                 exports, linker_vars>>

(* LoadDataSegments, then the memory's export as "memory". *)
LoadData ==
  /\ phase = "data"
  /\ LET r == LoadDataSegments(wasm.data_segments, mem_size)
     IN /\ copied' = r.copied
        /\ IF r.aborted
           THEN /\ phase' = "abort"
                /\ UNCHANGED exports
           ELSE /\ phase' = "globals"
                /\ exports' = IF wasm.mem_export
                              THEN Append(exports, "memory")
                              ELSE exports
  /\ UNCHANGED <<wasm, ffi, mem_size, globals_buffer, index, code_table,
                 linker_vars>>

(* The globals area: ComputeGlobalsSize of the decoded globals; if it is   *)
(* not 0, a buffer of mem_size bytes.                                      *)
AllocateGlobals ==
  /\ phase = "globals"
  /\ IF ComputeGlobalsSize(wasm.globals) > 0
     THEN \E allocated \in BOOLEAN :
            IF allocated
            THEN /\ globals_buffer' = mem_size
                 /\ phase' = "compile"
            ELSE /\ phase' = "error"
                 /\ UNCHANGED globals_buffer
     ELSE /\ globals_buffer' = 0
          /\ phase' = "compile"
  /\ UNCHANGED <<wasm, ffi, mem_size, copied, index, code_table, exports,
                 linker_vars>>

(* The end of one loop iteration: the code into the linker and the code   *)
(* table, the function exported under its name, on to the next.            *)
InstallCode(Lk, code) ==
  /\ L!SetLinker(L!Finish(Lk, index, code))
  /\ code_table' = [code_table EXCEPT ![index] = code]
  /\ exports' = IF Func(index).exported
                THEN Append(exports, Func(index).name)
                ELSE exports
  /\ index' = index + 1

(* Mutant of BindExternal: the wrapper goes into the code table but not   *)
(* into the linker, as if Finish were only called for compiled code.       *)
BindExternal_NoFinish ==
  /\ phase = "compile"
  /\ index < NumFuncs
  /\ Func(index).external
  /\ IF ffi = NoFfi \/ ffi[Func(index).name] # "JSFunction"
     THEN /\ phase' = "error"
          /\ UNCHANGED <<index, code_table, exports, linker_vars>>
     ELSE LET wrapper == [kind |-> L!WasmToJsKind, cpo |-> 0,
                          relocs |-> <<>>, fn |-> index]
              withWrapper == L!NewCode(L!LinkerState, wrapper)
          IN /\ L!SetLinker(withWrapper)
             /\ code_table' = [code_table EXCEPT ![index] = Len(withWrapper.heap)]
             /\ exports' = IF Func(index).exported
                           THEN Append(exports, Func(index).name)
                           ELSE exports
             /\ index' = index + 1
             /\ UNCHANGED phase
  /\ UNCHANGED <<wasm, ffi, mem_size, copied, globals_buffer>>

(* An external function: look its name up in the ffi object; a JSFunction *)
(* gets a WASM-to-JS wrapper as its code, anything else fails.             *)
BindExternal ==
  /\ phase = "compile"
  /\ index < NumFuncs
  /\ Func(index).external
  /\ IF ffi = NoFfi \/ ffi[Func(index).name] # "JSFunction"
     THEN /\ phase' = "error"
          /\ UNCHANGED <<index, code_table, exports, linker_vars>>
     ELSE LET wrapper == [kind |-> L!WasmToJsKind, cpo |-> 0,
                          relocs |-> <<>>, fn |-> index]
              withWrapper == L!NewCode(L!LinkerState, wrapper)
          IN /\ InstallCode(withWrapper, Len(withWrapper.heap))
             /\ UNCHANGED phase
  /\ UNCHANGED <<wasm, ffi, mem_size, copied, globals_buffer>>

(* Any other function is compiled (CompileFunction: the graph builder     *)
(* asks the linker for every call target, the pipeline makes the code); a  *)
(* failure throws, an exported function gets a JS-to-WASM wrapper.         *)
CompileInternal ==
  /\ phase = "compile"
  /\ index < NumFuncs
  /\ ~Func(index).external
  /\ \E compiles \in BOOLEAN :
       IF compiles
       THEN LET r == L!ResolveCalls(L!LinkerState, Func(index).calls)
                withCode == L!NewCode(r.linker, L!CompiledCode(index, r.relocs))
            IN /\ InstallCode(withCode, Len(withCode.heap))
               /\ UNCHANGED phase
       ELSE /\ phase' = "error"
            /\ UNCHANGED <<index, code_table, exports, linker_vars>>
  /\ UNCHANGED <<wasm, ffi, mem_size, copied, globals_buffer>>

(* The second pass: linker.Link(); a failed CHECK or a null code handle   *)
(* ends the process.                                                       *)
LinkModule ==
  /\ phase = "compile"
  /\ index = NumFuncs
  /\ IF L!LinkCrashes(L!LinkerState)
     THEN /\ phase' = "abort"
          /\ UNCHANGED linker_vars
     ELSE /\ L!SetLinker(L!Link(L!LinkerState))
          /\ phase' = "done"
  /\ UNCHANGED <<wasm, ffi, mem_size, copied, globals_buffer, index,
                 code_table, exports>>

(* Instantiate has returned, or the process has ended. *)
Finished ==
  /\ phase \in Terminal
  /\ UNCHANGED vars

Next ==
  \/ AllocateMemory
  \/ LoadData
  \/ AllocateGlobals
  \/ BindExternal
  \/ CompileInternal
  \/ LinkModule
  \/ Finished

Spec == Init /\ [][Next]_vars

-----------------------------------------------------------------------------
(* Properties.                                                             *)

TypeOK ==
  /\ phase \in {"start", "data", "globals", "compile"} \cup Terminal
  /\ mem_size \in Nat
  /\ copied \in Seq([dest_addr : Nat, source_offset : Nat,
                     source_size : Nat, init : BOOLEAN])
  /\ globals_buffer \in Nat
  /\ index \in 0 .. NumFuncs
  /\ code_table \in [FuncIdx -> 0 .. Len(heap)]
  /\ exports \in Seq(Names \cup {"memory"})
  /\ placeholder_code_ \in [FuncIdx -> 0 .. Len(heap)]
  /\ function_code_ \in [FuncIdx -> 0 .. Len(heap)]
  /\ \A h \in DOMAIN heap : heap[h].relocs \in Seq(1 .. Len(heap))

(* When Instantiate returns the module, the k-th direct call of every      *)
(* function targets the code installed for its callee (compiled code or   *)
(* the ffi wrapper of an external callee), never a placeholder.  Calls     *)
(* made before the callee was compiled go through the placeholder path.    *)
InstantiatedCallsResolved ==
  phase = "done" =>
    \A i \in FuncIdx :
      ~Func(i).external =>
        LET relocs == heap[function_code_[i]].relocs
        IN \A k \in DOMAIN relocs :
             /\ relocs[k] = function_code_[Func(i).calls[k]]
             /\ relocs[k] = code_table[Func(i).calls[k]]
             /\ ~L!IsPlaceholder(heap[relocs[k]])
             /\ heap[relocs[k]].fn = Func(i).calls[k]

(* Every global of the returned module lies inside the globals area and   *)
(* no two globals share a byte (spec.md 3: offsets are assigned by one     *)
(* aligning pass; test Run_WasmInt32Globals_DontAlias).                     *)
GlobalsLaidOut ==
  phase \in {"compile", "done"} =>
    \A g \in DOMAIN wasm.globals :
      LET gl == wasm.globals[g]
      IN /\ gl.offset + MemSize(gl.type) <= globals_buffer
         /\ \A h \in DOMAIN wasm.globals :
              LET gh == wasm.globals[h]
              IN h # g =>
                   \/ gl.offset + MemSize(gl.type) <= gh.offset
                   \/ gh.offset + MemSize(gh.type) <= gl.offset

(* spec.md 3: an initialized segment with dest_addr + source_size <=       *)
(* mem_size is legal; loading the data segments of such a module must not  *)
(* end the process.                                                         *)
SpecSegmentsAccepted ==
  phase = "abort" =>
    \E s \in Range(InitSegments(wasm.data_segments)) :
      s.dest_addr + s.source_size > mem_size

(* Every byte memcpy'd out of the module lies inside the module: the       *)
(* decoder must never read out of range (spec.md 1).                       *)
SegmentSourceInModule ==
  \A k \in DOMAIN copied :
    copied[k].source_offset + copied[k].source_size <= ModuleSize

====
