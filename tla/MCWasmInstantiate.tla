-------------------------- MODULE MCWasmInstantiate --------------------------
(* Model-checking instances of WasmInstantiate.  Each configuration varies *)
(* one part of the decoded module and keeps the rest to one small choice.   *)
EXTENDS WasmInstantiate

(* Two functions whose bodies make up to two direct calls, each function   *)
(* external or not, exported or not, named a or b.                          *)
MCCallSeqs ==
  {<<>>} \cup {<<a>> : a \in FuncIdx} \cup {<<a, b>> : a, b \in FuncIdx}

MCFunctions ==
  [name : Names, external : BOOLEAN, exported : BOOLEAN, calls : MCCallSeqs]

(* One plain exported function, for the data and globals configurations. *)
MCOneFunction ==
  {[name |-> "a", external |-> FALSE, exported |-> TRUE, calls |-> <<0>>]}

(* Globals tables of up to two globals, as decoded (offset 0). *)
MCGlobalTypes == {"I8", "I32", "F64"}
MCGlobals ==
  {<<>>}
  \cup {<<[type |-> t, offset |-> 0]>> : t \in MCGlobalTypes}
  \cup {<<[type |-> t, offset |-> 0], [type |-> u, offset |-> 0]>> :
          t, u \in MCGlobalTypes}

(* Tables of one or two data segments; source_offset is at most the       *)
(* module size, as DecodeDataSegmentInModule's offset() check ensures.     *)
MCSegment ==
  [dest_addr : 0 .. 4, source_offset : {0, ModuleSize - 1, ModuleSize},
   source_size : 0 .. 4, init : BOOLEAN]
MCSegments == {<<>>} \cup {<<s>> : s \in MCSegment}

MCNoGlobals == {<<>>}
MCNoSegments == {<<>>}
====
