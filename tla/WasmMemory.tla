------------------------------ MODULE WasmMemory ------------------------------
(***************************************************************************)
(* The module-instance data helpers of src/unnamed/part_001: the layout of *)
(* the globals area (AllocateGlobalsOffsets, ComputeGlobalsSize) and the   *)
(* loading of data segments into linear memory (LoadDataSegments).  They   *)
(* are operators on the decoded module; the drivers WasmInstantiate and    *)
(* WasmCompileRun call them.                                                *)
(*                                                                         *)
(* A global is [type, offset]: its MemType and the offset the decoder or   *)
(* AllocateGlobalsOffsets gave it.  A data segment is                      *)
(* [dest_addr, source_offset, source_size, init].  Offsets are uint32_t in *)
(* the code; no sum here can wrap (the globals of a module end far below   *)
(* 2^32, and LoadDataSegments bounds both addends by mem_size before it    *)
(* adds them), so they are kept as naturals.                                *)
(***************************************************************************)
EXTENDS Integers, Sequences

(* The memory types and WasmOpcodes::MemSize (spec.md 3). *)
MemTypes == {"I8", "U8", "I16", "U16", "I32", "U32", "I64", "U64", "F32", "F64"}

MemSize(t) ==
  CASE t \in {"I8", "U8"} -> 1
    [] t \in {"I16", "U16"} -> 2
    [] t \in {"I32", "U32", "F32"} -> 4
    [] t \in {"I64", "U64", "F64"} -> 8

(* Mutant of AlignOffset: rounds down instead of up. *)
AlignOffset_Down(offset, size) ==
  offset - (offset % size)

(* offset = (offset + size - 1) & ~(size - 1): size is a power of two, so  *)
(* the mask clears the low log2(size) bits of the sum.                      *)
AlignOffset(offset, size) ==
  LET sum == offset + size - 1
  IN sum - (sum % size)

(* AllocateGlobalsOffsets: one pass that aligns each global to its size,  *)
(* records the offset and adds the size; returns the globals with their    *)
(* offsets and the total.                                                   *)
RECURSIVE AllocateFrom(_, _)
AllocateFrom(globals, offset) ==
  IF globals = <<>>
  THEN [globals |-> <<>>, size |-> offset]
  ELSE LET size == MemSize(Head(globals).type)
           at == AlignOffset(offset, size)
           rest == AllocateFrom(Tail(globals), at + size)
       IN [globals |-> <<[Head(globals) EXCEPT !.offset = at]>> \o rest.globals,
           size |-> rest.size]

AllocateGlobalsOffsets(globals) == AllocateFrom(globals, 0)

(* ComputeGlobalsSize: the largest end offset of any global. *)
ComputeGlobalsSize(globals) ==
  LET ends == {globals[i].offset + MemSize(globals[i].type) :
                 i \in DOMAIN globals}
  IN IF ends = {} THEN 0
     ELSE CHOOSE e \in ends : \A f \in ends : f <= e

(* The CHECK_LTs LoadDataSegments makes on one initialized segment. *)
SegmentChecksHold(seg, mem_size) ==
  /\ seg.dest_addr < mem_size
  /\ seg.source_size < mem_size
  /\ seg.dest_addr + seg.source_size < mem_size

(* LoadDataSegments: the initialized segments in order, each checked and  *)
(* then memcpy'd from module_start + source_offset.  A failed CHECK        *)
(* aborts the process; the segments before it were already copied.  The    *)
(* result says which segments were copied and whether it aborted.          *)
InitSegments(segments) ==
  SelectSeq(segments, LAMBDA s : s.init)

LoadDataSegments(segments, mem_size) ==
  LET init == InitSegments(segments)
      bad == {k \in DOMAIN init : ~SegmentChecksHold(init[k], mem_size)}
      firstBad == CHOOSE k \in bad : \A j \in bad : k <= j
  IN IF bad = {}
     THEN [copied |-> init, aborted |-> FALSE]
     ELSE [copied |-> SubSeq(init, 1, firstBad - 1), aborted |-> TRUE]

====
