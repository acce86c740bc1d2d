------------------------------ MODULE MCHybrid ------------------------------
(* Small instances of Hybrid: what the traced contracts may execute, and what
   the payloads weigh. *)
EXTENDS Heuristic

CONSTANTS a, b

EncodingMenus ==
  {[ops |-> {"SSTORE", "LOG", "CALL", "DELEGATECALL", "STATICCALL", "CREATE", "INLINE",
             "HALT", "REVERT"}, logs |-> 5]}

\* Nothing but the trace; a refund above its cap, and bytes that pay the floor.
Weights ==
  {[zero |-> 0, nonzero |-> 0, topics |-> 0, data |-> 0, refund |-> 0],
   [zero |-> 64, nonzero |-> 9000, topics |-> 2, data |-> 32, refund |-> 40000]}
=============================================================================
