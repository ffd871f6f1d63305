--------------------------- MODULE DirectCallBinding ---------------------------
(***************************************************************************)
(* What the linker promises (spec.md 4.5), with code objects abstracted     *)
(* away: each compiled function has one binding per direct call site.  A   *)
(* call to a function that already has its final code is bound to it when  *)
(* the caller is compiled; any other call is Pending until the link pass,  *)
(* which binds every call to its callee.  Compilation order is free.        *)
(***************************************************************************)
EXTENDS Integers, Sequences

CONSTANTS NumFuncs, CallSiteSeqs

FuncIdx == 0 .. NumFuncs - 1
Pending == -1

VARIABLES
  calls,     \* the call sites of each function body
  binding,   \* compiled function -> (call site -> callee or Pending)
  linked     \* has the link pass run

Bind(sites, ready) ==
  [k \in DOMAIN sites |-> IF sites[k] \in ready THEN sites[k] ELSE Pending]

Init ==
  /\ calls \in [FuncIdx -> CallSiteSeqs]
  /\ binding = [i \in {} |-> <<>>]
  /\ linked = FALSE

Compile(i) ==
  /\ ~linked
  /\ i \notin DOMAIN binding
  /\ binding' = [j \in DOMAIN binding \cup {i} |->
                   IF j = i THEN Bind(calls[i], DOMAIN binding) ELSE binding[j]]
  /\ UNCHANGED <<calls, linked>>

LinkPass ==
  /\ ~linked
  /\ DOMAIN binding = FuncIdx
  /\ binding' = [i \in FuncIdx |-> calls[i]]
  /\ linked' = TRUE
  /\ UNCHANGED calls

Next == (\E i \in FuncIdx : Compile(i)) \/ LinkPass

Spec == Init /\ [][Next]_<<calls, binding, linked>>

====
