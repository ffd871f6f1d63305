------------------------- MODULE MCWasmModuleDecoder -------------------------
(* Model-checking instances of WasmModuleDecoder.  Module sizes cut the   *)
(* tables at different fields; every offset field is 0, the module size   *)
(* or one past it; signatures have at most one parameter.                   *)
EXTENDS WasmModuleDecoder

MCOffsetChoices(sz) == {0, sz, sz + 1}

MCSigChoices == [count : {0, 1}, ret : {1, BadTypeByte}, param : {1, kAstStmt}]

MCCallChoices == {<<0>>, <<1>>}
====
