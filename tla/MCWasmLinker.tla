----------------------------- MODULE MCWasmLinker -----------------------------
(* Model-checking instance of WasmLinker: three functions, each body with  *)
(* up to two direct calls, so that self calls, forward calls, calls to a   *)
(* function already compiled and two calls to one not-yet-compiled        *)
(* function all occur, in every compilation order.                          *)
EXTENDS WasmLinker

MCCallSiteSeqs ==
  {<<>>} \cup {<<a>> : a \in FuncIdx} \cup {<<a, b>> : a, b \in FuncIdx}

====
