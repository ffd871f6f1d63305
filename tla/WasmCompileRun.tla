---------------------------- MODULE WasmCompileRun ----------------------------
(***************************************************************************)
(* CompileAndRunWasmModule(isolate, module) (src/unnamed/part_001, lines   *)
(* 865-933): the test and shell driver that compiles a decoded module and  *)
(* runs its last exported function.  In order: allocate the memory and the *)
(* globals area (this driver, unlike Instantiate, lays the globals out with *)
(* AllocateGlobalsOffsets), load the data segments, one pass over the      *)
(* functions that compiles every non-external one and hands its code to    *)
(* the linker, then link and run the main code.                             *)
(*                                                                         *)
(* External functions are skipped: nothing is handed to Finish for them.   *)
(* CompileFunction has three outcomes: code; a failed graph build, which   *)
(* reports through the thrower; or no code from the pipeline without an    *)
(* error, which the loop steps over.  Which one happens is chosen from     *)
(* CompileOutcomes.                                                         *)
(***************************************************************************)
EXTENDS Integers, Sequences, Functions, WasmMemory

CONSTANTS
  NumFuncs,            \* functions->size()
  kPlaceholderMarker,  \* WasmLinker::kPlaceholderMarker
  FunctionChoices,     \* decoded WasmFunction records
  GlobalChoices,       \* decoded globals tables
  SegmentChoices,      \* decoded data-segment tables
  MemLog2Choices,      \* decoded mem_size_log2 values
  CompileOutcomes      \* a subset of {"code", "graph_error", "no_code"}

FuncIdx == 0 .. NumFuncs - 1

VARIABLES
  wasm,               \* the decoded WasmModule
  phase,              \* where the driver is
  mem_size,           \* bytes of linear memory
  globals,            \* module->globals, offsets as the driver left them
  globals_size,       \* bytes of the globals area
  copied,             \* the data segments memcpy'd into memory
  index,              \* the function the compile loop is at
  main_code,          \* the code of the last exported function compiled
  placeholder_code_, function_code_, heap   \* the WasmLinker

linker_vars == <<placeholder_code_, function_code_, heap>>
vars == <<wasm, phase, mem_size, globals, globals_size, copied, index,
          main_code, linker_vars>>

L == INSTANCE WasmLinker WITH
  calls <- [i \in FuncIdx |-> wasm.functions[i].calls],
  compiled <- {},
  link_status <- "none",
  CallSiteSeqs <- {}

Func(i) == wasm.functions[i]
Terminal == {"run", "error", "abort"}

Init ==
  /\ wasm \in [mem_size_log2 : MemLog2Choices,
               globals : GlobalChoices,
               functions : [FuncIdx -> FunctionChoices],
               data_segments : SegmentChoices]
  /\ phase = "start"
  /\ mem_size = 0
  /\ globals = wasm.globals
  /\ globals_size = 0
  /\ copied = <<>>
  /\ index = 0
  /\ main_code = L!NullHandle
  /\ placeholder_code_ = L!NewLinker.placeholder_code
  /\ function_code_ = L!NewLinker.function_code
  /\ heap = L!NewLinker.heap

(* size_t mem_size = 1 << mem_size_log2, a shift of the int 1.  Below 31  *)
(* it is 2^k.  At 31 it is INT_MIN, which widens to a size_t that new      *)
(* byte[] cannot allocate (TooLarge).  From 32 on the shift is undefined:  *)
(* x86 shifts by k % 32, ARM by the low byte of k, which gives 0 below 256. *)
TooLarge == -1
ShiftedMemSize(k) ==
  CASE k < 31 -> {2^k}
    [] k = 31 -> {TooLarge}
    [] OTHER  -> {2^(k % 32), 0}

(* The memory (1 << mem_size_log2 bytes, whose allocation failure ends the *)
(* process), the globals laid out by AllocateGlobalsOffsets and an area of *)
(* the size it returns, a new linker and LoadDataSegments, whose failed    *)
(* CHECK ends the process.                                                  *)
Setup ==
  /\ phase = "start"
  /\ \E size \in ShiftedMemSize(wasm.mem_size_log2) :
       LET layout == AllocateGlobalsOffsets(wasm.globals)
           r == LoadDataSegments(wasm.data_segments, size)
       IN /\ mem_size' = IF size = TooLarge THEN 0 ELSE size
          /\ globals' = layout.globals
          /\ globals_size' = layout.size
          /\ copied' = IF size = TooLarge THEN <<>> ELSE r.copied
          /\ phase' = IF size = TooLarge \/ r.aborted THEN "abort" ELSE "compile"
  /\ UNCHANGED <<wasm, index, main_code, linker_vars>>

(* An external function is stepped over. *)
SkipExternal ==
  /\ phase = "compile"
  /\ index < NumFuncs
  /\ Func(index).external
  /\ index' = index + 1
  /\ UNCHANGED <<wasm, phase, mem_size, globals, globals_size, copied,
                 main_code, linker_vars>>

(* CompileFunction: building the graph asks the linker for every call      *)
(* target; code is handed to Finish and, if exported, becomes main_code;   *)
(* a failed build makes the thrower report and the driver return -1; no    *)
(* code without an error is stepped over.                                   *)
CompileInternal ==
  /\ phase = "compile"
  /\ index < NumFuncs
  /\ ~Func(index).external
  /\ \E outcome \in CompileOutcomes :
       LET r == L!ResolveCalls(L!LinkerState, Func(index).calls)
           withCode == L!NewCode(r.linker, L!CompiledCode(index, r.relocs))
           code == Len(withCode.heap)
       IN CASE outcome = "code" ->
                 /\ L!SetLinker(L!Finish(withCode, index, code))
                 /\ main_code' = IF Func(index).exported THEN code ELSE main_code
                 /\ index' = index + 1
                 /\ UNCHANGED phase
            [] outcome = "graph_error" ->
                 /\ phase' = "error"
                 /\ UNCHANGED <<index, main_code, linker_vars>>
            [] outcome = "no_code" ->
                 /\ L!SetLinker(r.linker)
                 /\ index' = index + 1
                 /\ UNCHANGED <<phase, main_code>>
  /\ UNCHANGED <<wasm, mem_size, globals, globals_size, copied>>

(* After the loop: no main code throws; otherwise linker.Link(), where a  *)
(* null handle or a failed CHECK ends the process, and the main code runs. *)
LinkAndRun ==
  /\ phase = "compile"
  /\ index = NumFuncs
  /\ CASE main_code = L!NullHandle ->
            /\ phase' = "error"
            /\ UNCHANGED linker_vars
       [] main_code # L!NullHandle /\ L!LinkCrashes(L!LinkerState) ->
            /\ phase' = "abort"
            /\ UNCHANGED linker_vars
       [] OTHER ->
            /\ L!SetLinker(L!Link(L!LinkerState))
            /\ phase' = "run"
  /\ UNCHANGED <<wasm, mem_size, globals, globals_size, copied, index,
                 main_code>>

(* The driver has returned, or the process has ended. *)
Finished ==
  /\ phase \in Terminal
  /\ UNCHANGED vars

Next ==
  \/ Setup
  \/ SkipExternal
  \/ CompileInternal
  \/ LinkAndRun
  \/ Finished

Spec == Init /\ [][Next]_vars

-----------------------------------------------------------------------------
(* Properties.                                                             *)

TypeOK ==
  /\ phase \in {"start", "compile"} \cup Terminal
  /\ mem_size \in Nat
  /\ globals \in Seq([type : MemTypes, offset : Nat])
  /\ globals_size \in Nat
  /\ index \in 0 .. NumFuncs
  /\ main_code \in 0 .. Len(heap)
  /\ function_code_ \in [FuncIdx -> 0 .. Len(heap)]
  /\ \A h \in DOMAIN heap : heap[h].relocs \in Seq(1 .. Len(heap))
  /\ placeholder_code_ \in [FuncIdx -> 0 .. Len(heap)]

(* The compiled code addresses globals at module->globals[i].offset inside *)
(* a globals_size area: every global is aligned to its size, lies inside   *)
(* the area and shares no byte with another (AllocateGlobalsOffsets and    *)
(* the area allocation of CompileAndRunWasmModule; test                     *)
(* Run_WasmInt32Globals_DontAlias).                                         *)
DriverGlobalsLaidOut ==
  phase \in {"compile", "run"} =>
    \A g \in DOMAIN globals :
      LET gg == globals[g]
      IN /\ gg.offset % MemSize(gg.type) = 0
         /\ gg.offset + MemSize(gg.type) <= globals_size
         /\ \A h \in DOMAIN globals :
              h # g =>
                \/ gg.offset + MemSize(gg.type) <= globals[h].offset
                \/ globals[h].offset + MemSize(globals[h].type) <= gg.offset

(* spec.md 4.5: after link() no live code references a placeholder: when   *)
(* the main code runs, no direct call of any code in function_code_ still  *)
(* targets a placeholder code object (LinkFunction patches a call only to  *)
(* the code Finish installed).                                              *)
NoPlaceholderCallsAtRun ==
  phase = "run" =>
    \A h \in Range(function_code_) \ {L!NullHandle} :
      \A t \in Range(heap[h].relocs) : ~L!IsPlaceholder(heap[t])

====
