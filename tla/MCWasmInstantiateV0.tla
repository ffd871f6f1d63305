------------------------- MODULE MCWasmInstantiateV0 -------------------------
(* Model-checking instance of WasmInstantiateV0: two functions named a or  *)
(* b, each external or not, exported or not, calling up to one function.   *)
EXTENDS WasmInstantiateV0

MCFunctions ==
  [name : Names, external : BOOLEAN, exported : BOOLEAN,
   calls : {<<>>} \cup {<<c>> : c \in FuncIdx}]

MCNoSegments == {<<>>}
====
