-------------------------- MODULE MCWasmCompileRun --------------------------
(* Model-checking instances of WasmCompileRun: two functions, each         *)
(* external or not, exported or not, making up to two direct calls, and    *)
(* globals tables of up to three globals of different sizes.               *)
EXTENDS WasmCompileRun

MCCallSeqs ==
  {<<>>} \cup {<<a>> : a \in FuncIdx} \cup {<<a, b>> : a, b \in FuncIdx}

MCFunctions == [external : BOOLEAN, exported : BOOLEAN, calls : MCCallSeqs]

(* Decoded globals: offset 0 until AllocateGlobalsOffsets runs. *)
MCGlobalTypes == {"I8", "I16", "I32", "F64"}
MCGlobals ==
  {<<>>}
  \cup {<<[type |-> t, offset |-> 0]>> : t \in MCGlobalTypes}
  \cup {<<[type |-> t, offset |-> 0], [type |-> u, offset |-> 0]>> :
          t, u \in MCGlobalTypes}
  \cup {<<[type |-> t, offset |-> 0], [type |-> u, offset |-> 0],
          [type |-> v, offset |-> 0]>> : t, u, v \in MCGlobalTypes}

MCNoSegments == {<<>>}
====
