------------------------- MODULE MCAsmWasmEmitter --------------------------
(* Model-checking instances of AsmWasmEmitter: a function g(p) with int     *)
(* parameter p and a double local d, which may call itself and a function  *)
(* h() of no arguments.                                                    *)
EXTENDS AsmWasmEmitter

MCSelf == "g"
MCParams == <<"p">>
MCVarType == ("p" :> "int") @@ ("d" :> "double")
MCFuncSig == ("g" :> [params |-> <<"signed">>, ret |-> "signed"])
             @@ ("h" :> [params |-> <<>>, ret |-> "double"])
====
