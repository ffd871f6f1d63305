------------------------------ MODULE WasmLinker ------------------------------
(***************************************************************************)
(* The placeholder-and-patch linker, class WasmLinker (src/unnamed/         *)
(* part_001, lines 78-151), and ModuleEnv::GetFunctionCode, through which  *)
(* the graph builder asks it for the target of every direct call.           *)
(*                                                                         *)
(* A code object lives in the code space `heap`; a Handle<Code> is an       *)
(* index into it, NullHandle is Handle<Code>::null().  A code object keeps  *)
(* what the linker reads of it: its kind, its constant_pool_offset (cpo),   *)
(* into which a placeholder's function index is encoded, and its code-     *)
(* target relocations (the direct call sites, in order).  `fn` is a ghost  *)
(* field naming the function the code was made for; the code never reads   *)
(* it and the properties use it.                                            *)
(*                                                                         *)
(* The operators take and return a linker record                            *)
(*   [placeholder_code, function_code, heap]                               *)
(* so that one action can call GetFunctionCode several times, as one       *)
(* compilation does.  The standalone specification below compiles the      *)
(* functions in ANY order and then links: the spec promises that the       *)
(* result does not depend on the order.                                     *)
(***************************************************************************)
EXTENDS Integers, Sequences, Functions

CONSTANTS
  NumFuncs,            \* functions->size()
  kPlaceholderMarker,  \* WasmLinker::kPlaceholderMarker (1000000000)
  CallSiteSeqs         \* the call-site sequences a function body may have

ASSUME NumFuncs \in Nat \ {0} /\ kPlaceholderMarker > NumFuncs

FuncIdx == 0 .. NumFuncs - 1
NullHandle == 0

(* Code kinds the linker distinguishes (Code::KindField). *)
WasmFunctionKind == "WASM_FUNCTION"
WasmToJsKind == "WASM_TO_JS_FUNCTION"

VARIABLES
  placeholder_code_,  \* WasmLinker::placeholder_code_
  function_code_,     \* WasmLinker::function_code_
  heap,               \* the code space; a handle is an index into it
  calls,              \* the direct call sites of each function body
  compiled,           \* functions whose code was handed to Finish
  link_status         \* "none" before Link(), then "ok" or "crash"

vars == <<placeholder_code_, function_code_, heap, calls, compiled, link_status>>

LinkerState ==
  [placeholder_code |-> placeholder_code_,
   function_code |-> function_code_,
   heap |-> heap]

SetLinker(L) ==
  /\ placeholder_code_' = L.placeholder_code
  /\ function_code_' = L.function_code
  /\ heap' = L.heap

(* WasmLinker(isolate, size): both vectors hold size null handles. *)
NewLinker ==
  [placeholder_code |-> [i \in FuncIdx |-> NullHandle],
   function_code |-> [i \in FuncIdx |-> NullHandle],
   heap |-> <<>>]

(* Allocating a code object: Factory::NewCode appends to the code space. *)
NewCode(L, code) ==
  [L EXCEPT !.heap = Append(@, code)]

IsPlaceholder(code) ==
  code.kind = WasmFunctionKind /\ code.cpo >= kPlaceholderMarker

(* Mutants of GetFunctionCode.  NoReuse allocates a fresh placeholder    *)
(* whenever the callee has no final code yet, instead of reusing the one   *)
(* it recorded; MarkerOffByOne encodes index + 1 into the placeholder;     *)
(* HandleOffByOne returns the handle of the previous code object.          *)
GetFunctionCode_NoReuse(L, index) ==
  IF L.function_code[index] = NullHandle
     \/ IsPlaceholder(L.heap[L.function_code[index]])
  THEN LET h == Len(L.heap) + 1
           placeholder == [kind |-> WasmFunctionKind,
                           cpo |-> index + kPlaceholderMarker,
                           relocs |-> <<>>, fn |-> index]
       IN [linker |-> [NewCode(L, placeholder) EXCEPT
                         !.placeholder_code[index] = h,
                         !.function_code[index] = h],
           result |-> h]
  ELSE [linker |-> L, result |-> L.function_code[index]]

GetFunctionCode_MarkerOffByOne(L, index) ==
  IF L.function_code[index] = NullHandle
  THEN LET h == Len(L.heap) + 1
           placeholder == [kind |-> WasmFunctionKind,
                           cpo |-> index + 1 + kPlaceholderMarker,
                           relocs |-> <<>>, fn |-> index]
       IN [linker |-> [NewCode(L, placeholder) EXCEPT
                         !.placeholder_code[index] = h,
                         !.function_code[index] = h],
           result |-> h]
  ELSE [linker |-> L, result |-> L.function_code[index]]

GetFunctionCode_HandleOffByOne(L, index) ==
  IF L.function_code[index] = NullHandle
  THEN LET h == Len(L.heap)
           placeholder == [kind |-> WasmFunctionKind,
                           cpo |-> index + kPlaceholderMarker,
                           relocs |-> <<>>, fn |-> index]
       IN [linker |-> [NewCode(L, placeholder) EXCEPT
                         !.placeholder_code[index] = h,
                         !.function_code[index] = h],
           result |-> h]
  ELSE [linker |-> L, result |-> L.function_code[index]]

(* GetFunctionCode(index): the final code if Finish was called, else the  *)
(* placeholder, allocated and recorded in both vectors on first request.   *)
GetFunctionCode(L, index) ==
  IF L.function_code[index] = NullHandle
  THEN LET h == Len(L.heap) + 1
           placeholder == [kind |-> WasmFunctionKind,
                           cpo |-> index + kPlaceholderMarker,
                           relocs |-> <<>>, fn |-> index]
       IN [linker |-> [NewCode(L, placeholder) EXCEPT
                         !.placeholder_code[index] = h,
                         !.function_code[index] = h],
           result |-> h]
  ELSE [linker |-> L, result |-> L.function_code[index]]

(* The graph builder asks for the target of each CallFunction in body      *)
(* order through ModuleEnv::GetFunctionCode, which forwards to the linker; *)
(* the handles become the code's relocations.                              *)
RECURSIVE ResolveCalls(_, _)
ResolveCalls(L, sites) ==
  IF sites = <<>>
  THEN [linker |-> L, relocs |-> <<>>]
  ELSE LET first == GetFunctionCode(L, Head(sites))
           rest == ResolveCalls(first.linker, Tail(sites))
       IN [linker |-> rest.linker, relocs |-> <<first.result>> \o rest.relocs]

(* Finish(index, code) overwrites function_code_[index]. *)
Finish(L, index, code) ==
  [L EXCEPT !.function_code[index] = code]

(* The index LinkFunction recovers from a placeholder's marker. *)
MarkerIndex(code) == code.cpo - kPlaceholderMarker

(* The target LinkFunction gives a code-target relocation. *)
PatchedTarget(L, target) ==
  IF IsPlaceholder(L.heap[target])
  THEN L.function_code[MarkerIndex(L.heap[target])]
  ELSE target

(* The CHECKs of LinkFunction on one relocation target: the marker index   *)
(* is in range, and a target that is patched is the registered placeholder.*)
PatchChecksHold(L, target) ==
  IsPlaceholder(L.heap[target]) =>
    /\ MarkerIndex(L.heap[target]) \in FuncIdx
    /\ LET new_target == L.function_code[MarkerIndex(L.heap[target])]
       IN new_target # target =>
            L.placeholder_code[MarkerIndex(L.heap[target])] = target

(* LinkFunction(code) dereferences code; a null handle crashes. *)
LinkFunctionCrashes(L, i) ==
  \/ L.function_code[i] = NullHandle
  \/ \E t \in Range(L.heap[L.function_code[i]].relocs) : ~PatchChecksHold(L, t)

(* Link() runs LinkFunction on every entry of function_code_ in order and  *)
(* rewrites every relocation that targets a placeholder.                    *)
LinkCrashes(L) == \E i \in FuncIdx : LinkFunctionCrashes(L, i)

Link(L) ==
  LET linked_code == Range(L.function_code)
  IN [L EXCEPT !.heap =
        [h \in DOMAIN @ |->
           IF h \in linked_code
           THEN [@[h] EXCEPT !.relocs =
                   [k \in DOMAIN @ |-> PatchedTarget(L, @[k])]]
           ELSE @[h]]]

(* The pipeline's output for function i: a WASM_FUNCTION code object whose *)
(* direct calls target the handles the graph builder was given.            *)
CompiledCode(i, relocs) ==
  [kind |-> WasmFunctionKind, cpo |-> 0, relocs |-> relocs, fn |-> i]

(* Compiling function i and installing its code: the graph builder        *)
(* resolves the call sites, the pipeline allocates the code, Finish.       *)
CompileAndFinish(L, i, sites) ==
  LET r == ResolveCalls(L, sites)
      withCode == NewCode(r.linker, CompiledCode(i, r.relocs))
  IN Finish(withCode, i, Len(withCode.heap))

-----------------------------------------------------------------------------
(* The standalone specification: the functions compiled in any order.     *)

Init ==
  /\ placeholder_code_ = NewLinker.placeholder_code
  /\ function_code_ = NewLinker.function_code
  /\ heap = NewLinker.heap
  /\ calls \in [FuncIdx -> CallSiteSeqs]
  /\ compiled = {}
  /\ link_status = "none"

(* One function is compiled and installed; the linker does not care in    *)
(* which order (Instantiate happens to use declaration order).             *)
Compile(i) ==
  /\ link_status = "none"
  /\ i \notin compiled
  /\ SetLinker(CompileAndFinish(LinkerState, i, calls[i]))
  /\ compiled' = compiled \cup {i}
  /\ UNCHANGED calls
  /\ link_status' = "none"

(* The second pass: Link() once every function has its code. *)
LinkAll ==
  /\ link_status = "none"
  /\ compiled = FuncIdx
  /\ IF LinkCrashes(LinkerState)
     THEN /\ link_status' = "crash"
          /\ UNCHANGED <<placeholder_code_, function_code_, heap>>
     ELSE /\ SetLinker(Link(LinkerState))
          /\ link_status' = "ok"
  /\ UNCHANGED <<calls, compiled>>

(* Linking is the last thing the linker does. *)
Done ==
  /\ link_status # "none"
  /\ UNCHANGED vars

Next ==
  \/ \E i \in FuncIdx : Compile(i)
  \/ LinkAll
  \/ Done

Spec == Init /\ [][Next]_vars /\ WF_vars(LinkAll)

-----------------------------------------------------------------------------
(* Properties.                                                             *)

Handles == 0 .. Len(heap)

TypeOK ==
  /\ placeholder_code_ \in [FuncIdx -> Handles]
  /\ function_code_ \in [FuncIdx -> Handles]
  /\ \A h \in DOMAIN heap :
       /\ heap[h].kind \in {WasmFunctionKind, WasmToJsKind}
       /\ heap[h].cpo \in Nat
       /\ heap[h].fn \in FuncIdx
       /\ heap[h].relocs \in Seq(1 .. Len(heap))
  /\ calls \in [FuncIdx -> CallSiteSeqs]
  /\ compiled \subseteq FuncIdx
  /\ link_status \in {"none", "ok", "crash"}

(* The code handed to Finish for function i. *)
FinalCode(i) == function_code_[i]

(* After the second pass, whatever the compilation order, Link() did not  *)
(* crash, and the k-th direct call of every function targets the final     *)
(* code of its callee: no call is left on a placeholder and none was       *)
(* patched to another function's code (WasmLinker::LinkFunction).          *)
LinkResolvesCalls ==
  link_status # "none" =>
    /\ link_status = "ok"
    /\ \A i \in FuncIdx :
         LET relocs == heap[FinalCode(i)].relocs
         IN \A k \in DOMAIN relocs :
              /\ relocs[k] = FinalCode(calls[i][k])
              /\ ~IsPlaceholder(heap[relocs[k]])
              /\ heap[relocs[k]].fn = calls[i][k]

(* Refinement: the linker implements DirectCallBinding.  The binding of a  *)
(* call site is the function whose compiled code its target is, or Pending *)
(* while the target is still a placeholder.                                 *)
Pending == -1

BindingOf(h) ==
  [k \in DOMAIN heap[h].relocs |->
     IF IsPlaceholder(heap[heap[h].relocs[k]])
     THEN Pending
     ELSE heap[heap[h].relocs[k]].fn]

Abstract == INSTANCE DirectCallBinding WITH
  binding <- [i \in compiled |-> BindingOf(FinalCode(i))],
  linked <- (link_status # "none")

ImplementsDirectCallBinding == Abstract!Spec

====
