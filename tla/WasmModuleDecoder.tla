-------------------------- MODULE WasmModuleDecoder --------------------------
(***************************************************************************)
(* The module decoder: DecodeWasmModule and class ModuleDecoder           *)
(* (src/unnamed/part_001, lines 257-574 and 808-818).  A bounded reader    *)
(* with a latched error walks the module bytes: an 8-byte header with the  *)
(* table sizes, then the globals, the functions (each body handed to the   *)
(* verifier when verify_functions is set) and the data segments.           *)
(*                                                                         *)
(* The positions are exact: every read advances the cursor by its width,   *)
(* and a read that would pass the end latches an error, returns 0 and does *)
(* not advance.  The bytes themselves are the input: the decoder reads each *)
(* byte once, so the value a field holds is chosen when it is read, from a  *)
(* small set of the values the properties tell apart.                      *)
(*                                                                         *)
(* The reader state is a record R = [cur, err, raised, val]: the cursor,    *)
(* the latched error (result_), every error() call in order (a ghost), and *)
(* the value of the last read and the parameter count of the last sig(). *)
(***************************************************************************)
EXTENDS Integers, Sequences, SequencesExt

CONSTANTS
  kMinModuleSize,  \* smallest module DecodeWasmModule accepts
  kMaxModuleSize,  \* DecodeWasmModule accepts sizes below it
  ModuleSizes,     \* module_end - module_start
  CountChoices,    \* values of the three u16 table sizes
  SigChoices,      \* [count, ret, param] of an inline signature
  OffsetChoices(_),\* values of a u32 offset field, given the module size
  CallChoices,     \* the CallFunction indices of a function body
  VerifyChoices    \* values of verify_functions

NoError == [pc |-> -1, what |-> "none"]

VARIABLES
  size,       \* end_ - start_
  verify,     \* verify_functions
  phase,      \* "globals", "functions", "segments", "done"
  R,          \* the reader: cursor, latched error, raised errors, last value
  counts,     \* the table sizes read from the header
  i,          \* the loop index of the table being decoded
  functions,  \* module->functions
  globals_n,  \* module->globals->size()
  segments_n  \* module->data_segments->size()

vars == <<size, verify, phase, R, counts, i, functions, globals_n, segments_n>>

-----------------------------------------------------------------------------
(* The reader.                                                             *)

(* Mutant of Error: result_ takes every error, not only the first. *)
Error_Overwrite(r, pc, what) ==
  [r EXCEPT !.err = [pc |-> pc, what |-> what],
            !.raised = Append(@, [pc |-> pc, what |-> what])]

(* error(pc, msg): only the first error is kept in result_. *)
Error(r, pc, what) ==
  [r EXCEPT !.err = IF @ = NoError THEN [pc |-> pc, what |-> what] ELSE @,
            !.raised = Append(@, [pc |-> pc, what |-> what])]

(* checkAvailable(n): the n bytes at cur_ lie inside [start_, end_). *)
Available(r, n) == r.cur + n <= size

(* u8, u16 and u32: a read of width n whose bytes hold v; past the end it *)
(* latches "fell off end" at cur_, returns 0 and does not advance.          *)
ReadN(r, n, v) ==
  IF Available(r, n)
  THEN [r EXCEPT !.cur = @ + n, !.val = v]
  ELSE [Error(r, r.cur, "fell_off_end") EXCEPT !.val = 0]

(* offset(): a u32 that must not exceed the module size. *)
Offset(r, v) ==
  LET r1 == ReadN(r, 4, v)
  IN IF r1.val > size THEN Error(r1, r1.cur - 4, "offset") ELSE r1

(* Type bytes: kAstStmt and kMemI8 are 0, kAstI32 is 1; BadTypeByte names  *)
(* no type.  A failed read yields 0, a valid type.                          *)
kAstStmt == 0
BadTypeByte == 255

(* local_type(): a byte naming Stmt or a value type; any other byte is an *)
(* error and reads as Stmt.                                                 *)
LocalType(r, v) ==
  LET r1 == ReadN(r, 1, v)
  IN IF r1.val = BadTypeByte
     THEN [Error(r1, r1.cur - 1, "local_type") EXCEPT !.val = kAstStmt]
     ELSE r1

(* sig(): param_count, the return type, then param_count parameters, none *)
(* of which may be Stmt.                                                    *)
RECURSIVE Params(_, _, _)
Params(r, k, v) ==
  IF k = 0 THEN r
  ELSE LET r1 == LocalType(r, v)
           r2 == IF r1.val = kAstStmt THEN Error(r1, r1.cur - 1, "void_param") ELSE r1
       IN Params(r2, k - 1, v)

Sig(r, s) ==
  LET r1 == ReadN(r, 1, s.count)
      count == r1.val
  IN [Params(LocalType(r1, s.ret), count, s.param) EXCEPT !.params = count]

(* mem_type(): a byte naming one of the ten memory types, else an error. *)
MemTypeRead(r, v) ==
  LET r1 == ReadN(r, 1, v)
  IN IF r1.val = BadTypeByte THEN Error(r1, r1.cur - 1, "mem_type") ELSE r1

-----------------------------------------------------------------------------
(* The entries.                                                            *)

(* Mutant of DecodeGlobalInModule: the exported flag is not read. *)
DecodeGlobalInModule_NoExported(r, g) ==
  MemTypeRead(Offset(r, g.name), g.type)

(* DecodeGlobalInModule: name offset, memory type, exported flag. *)
DecodeGlobalInModule(r, g) ==
  ReadN(MemTypeRead(Offset(r, g.name), g.type), 1, 0)

(* DecodeFunctionInModule: signature, name, code start and end offsets,   *)
(* four u16 local counts, exported and external flags.  The result holds  *)
(* the reader and the function descriptor; the body's call targets are     *)
(* the bytes at the code offsets, chosen with the entry.                   *)
DecodeFunctionInModule(r, f) ==
  LET rs == Sig(r, f.sig)
      r1 == Offset(rs, f.name)
      r2 == Offset(r1, f.code_start)
      r3 == Offset(r2, f.code_end)
      r4 == ReadN(ReadN(ReadN(ReadN(r3, 2, 0), 2, 0), 2, 0), 2, 0)
      r5 == ReadN(ReadN(r4, 1, 0), 1, IF f.external THEN 1 ELSE 0)
  IN [reader |-> r5,
      function |-> [params |-> rs.params,
                    code_start |-> r2.val, code_end |-> r3.val,
                    external |-> r5.val # 0, calls |-> f.calls]]

(* VerifyWasmCode on [code_start, code_end) with the module's function    *)
(* table as it is now: it rejects a reversed range and a CallFunction to   *)
(* an index outside the table.                                             *)
VerifyWasmCodeFails(fn, nfuncs) ==
  \/ fn.code_start > fn.code_end
  \/ \E k \in DOMAIN fn.calls : fn.calls[k] >= nfuncs

(* VerifyFunctionBody copies a failed verification into result_. *)
VerifyFunctionBody(r, fn, nfuncs) ==
  IF VerifyWasmCodeFails(fn, nfuncs)
  THEN [r EXCEPT !.err = [pc |-> fn.code_start, what |-> "verify"],
                 !.raised = Append(@, [pc |-> fn.code_start, what |-> "verify"])]
  ELSE r

(* DecodeDataSegmentInModule: dest_addr, source offset, size, init. *)
DecodeDataSegmentInModule(r, source_offset) ==
  ReadN(ReadN(Offset(ReadN(r, 4, 0), source_offset), 4, 0), 1, 0)

-----------------------------------------------------------------------------
(* The decoder.                                                            *)

NextPhase(p) ==
  CASE p = "globals" -> "functions"
    [] p = "functions" -> "segments"
    [] p = "segments" -> "done"

Init ==
  /\ size \in ModuleSizes
  /\ verify \in VerifyChoices
  /\ phase = "start"
  /\ R = [cur |-> 0, err |-> NoError, raised |-> <<>>, val |-> 0, params |-> 0]
  /\ counts = [globals |-> 0, functions |-> 0, segments |-> 0]
  /\ i = 0
  /\ functions = <<>>
  /\ globals_n = 0
  /\ segments_n = 0

(* DecodeWasmModule rejects a module outside the size limits before it   *)
(* creates the decoder.                                                     *)
DecodeWasmModule ==
  /\ phase = "start"
  /\ IF size < kMinModuleSize \/ size >= kMaxModuleSize
     THEN /\ R' = Error(R, 0, "size")
          /\ phase' = "done"
     ELSE /\ phase' = "header"
          /\ UNCHANGED R
  /\ UNCHANGED <<size, verify, counts, i, functions, globals_n, segments_n>>

(* DecodeModule reads the header: mem_size_log2, mem_export and the three *)
(* table sizes.                                                            *)
DecodeHeader ==
  /\ phase = "header"
  /\ \E g, f, d \in CountChoices :
       LET r1 == ReadN(ReadN(R, 1, 0), 1, 0)
           rg == ReadN(r1, 2, g)
           rf == ReadN(rg, 2, f)
           rd == ReadN(rf, 2, d)
       IN /\ R' = rd
          /\ counts' = [globals |-> rg.val, functions |-> rf.val,
                        segments |-> rd.val]
          /\ phase' = "globals"
  /\ UNCHANGED <<size, verify, i, functions, globals_n, segments_n>>

(* Mutant of LoopStep: the loop runs while i <= count. *)
LoopStep_OffByOne(p, count) ==
  /\ phase = p
  /\ i <= count
  /\ R.err = NoError
  /\ i' = i + 1

(* One iteration of a table loop, entered only while result_ is ok. *)
LoopStep(p, count) ==
  /\ phase = p
  /\ i < count
  /\ R.err = NoError
  /\ i' = i + 1

DecodeGlobal ==
  /\ LoopStep("globals", counts.globals)
  /\ \E g \in [name : OffsetChoices(size), type : {0, BadTypeByte}] :
       R' = DecodeGlobalInModule(R, g)
  /\ globals_n' = globals_n + 1
  /\ UNCHANGED <<size, verify, phase, counts, functions, segments_n>>

(* The function is pushed first, so the table the verifier sees holds the *)
(* functions up to and including this one.                                 *)
DecodeFunction ==
  /\ LoopStep("functions", counts.functions)
  /\ \E f \in [sig : SigChoices, name : OffsetChoices(size),
               code_start : OffsetChoices(size), code_end : OffsetChoices(size),
               external : BOOLEAN, calls : CallChoices] :
       LET d == DecodeFunctionInModule(R, f)
       IN /\ functions' = Append(functions, d.function)
          /\ R' = IF d.reader.err = NoError /\ verify /\ ~d.function.external
                  THEN VerifyFunctionBody(d.reader, d.function, Len(functions) + 1)
                  ELSE d.reader
  /\ UNCHANGED <<size, verify, phase, counts, globals_n, segments_n>>

DecodeSegment ==
  /\ LoopStep("segments", counts.segments)
  /\ \E source_offset \in OffsetChoices(size) :
       R' = DecodeDataSegmentInModule(R, source_offset)
  /\ segments_n' = segments_n + 1
  /\ UNCHANGED <<size, verify, phase, counts, functions, globals_n>>

(* A table loop ends when its count is reached or result_ has failed. *)
EndLoop ==
  /\ phase \in {"globals", "functions", "segments"}
  /\ \/ phase = "globals" /\ i = counts.globals
     \/ phase = "functions" /\ i = counts.functions
     \/ phase = "segments" /\ i = counts.segments
     \/ R.err # NoError
  /\ phase' = NextPhase(phase)
  /\ i' = 0
  /\ UNCHANGED <<size, verify, R, counts, functions, globals_n, segments_n>>

(* DecodeModule has returned result_. *)
Returned ==
  /\ phase = "done"
  /\ UNCHANGED vars

Next ==
  \/ DecodeWasmModule
  \/ DecodeHeader
  \/ DecodeGlobal
  \/ DecodeFunction
  \/ DecodeSegment
  \/ EndLoop
  \/ Returned

Spec == Init /\ [][Next]_vars

-----------------------------------------------------------------------------
(* Properties.                                                             *)

TypeOK ==
  /\ size \in Nat
  /\ verify \in BOOLEAN
  /\ phase \in {"start", "header", "globals", "functions", "segments", "done"}
  /\ R.cur \in Nat
  /\ counts \in [{"globals", "functions", "segments"} -> Nat]
  /\ i \in Nat
  /\ phase \in {"globals", "functions", "segments"} => i <= counts[phase]
  /\ functions \in Seq([params : Nat, code_start : Nat, code_end : Nat, external : BOOLEAN,
                        calls : CallChoices])

(* spec.md 7: the first error is the one reported.  Whatever errors later  *)
(* reads, offsets, types or the verifier raise, result_ keeps the pc and   *)
(* kind of the first (ModuleDecoder::error, VerifyFunctionBody).           *)
FirstErrorKept ==
  R.err = IF R.raised = <<>> THEN NoError ELSE R.raised[1]

(* spec.md 1, 4.3 and 6: the byte layout.  A module that decodes without  *)
(* error has exactly the entries its header announced, and the decoder    *)
(* consumed exactly the 8-byte header, 6 bytes per global, 24 bytes plus   *)
(* one per parameter per function and 13 per data segment: every field    *)
(* of every entry read at its width, none skipped or read twice.  That     *)
(* layout fits in the module: a module cut anywhere inside it, even one    *)
(* byte short, is reported, never decoded from bytes past end_.            *)
EntryBytes(fn) == 24 + fn.params

DecodedLength ==
  8 + 6 * globals_n + 13 * segments_n
    + FoldLeft(LAMBDA acc, fn : acc + EntryBytes(fn), 0, functions)

LayoutMatchesHeader ==
  phase = "done" /\ R.err = NoError =>
    /\ globals_n = counts.globals
    /\ Len(functions) = counts.functions
    /\ segments_n = counts.segments
    /\ R.cur = DecodedLength
    /\ DecodedLength <= size

(* spec.md 8: in every decoded module each function has code_start <=     *)
(* code_end <= module size; a violation is an OffsetOutOfBounds error      *)
(* (DecodeFunctionInModule reads both with offset()).                       *)
CodeRangeInModule ==
  phase = "done" /\ R.err = NoError =>
    \A k \in DOMAIN functions :
      functions[k].code_start <= functions[k].code_end
      /\ functions[k].code_end <= size

(* spec.md 8, scenario 7: a call may name any function of the module,      *)
(* later ones included; when DecodeModule with verify_functions rejects a  *)
(* body, some body really is invalid against the module's whole function   *)
(* table (DecodeModule calls VerifyFunctionBody right after pushing the    *)
(* function).                                                               *)
VerifiedCallsAgainstModule ==
  phase = "done" /\ R.err.what = "verify" =>
    \E k \in DOMAIN functions :
      ~functions[k].external /\ VerifyWasmCodeFails(functions[k], counts.functions)

====
