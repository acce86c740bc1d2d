------------------------------ MODULE MCWalker ------------------------------
(* Small instances of Walker: what the traced contracts may execute. *)
EXTENDS Seeds

CONSTANTS a, b

\* Nested frames and re-entrancy; frames whose code does everything else; trees
\* of several nested frames; and contracts with several frames and native calls.
NestedMenus ==
  {[ops |-> {"SSTORE", "INCREMENT", "CALL", "DELEGATECALL", "REVERT"}, logs |-> 7],
   [ops |-> {"INCREMENT", "LOG", "TSTORE", "CALL", "STATICCALL", "CREATE", "INLINE",
             "HALT", "REVERT"}, logs |-> 5],
   [ops |-> {"INCREMENT", "CALL", "DELEGATECALL", "REVERT"}, logs |-> 9],
   [ops |-> {"SSTORE", "INCREMENT", "CALL"}, logs |-> 8]}

PinnedMenus == {[ops |-> {"INCREMENT", "CALL", "DELEGATECALL", "REVERT"}, logs |-> 6]}

DivergentMenus == {[ops |-> {"SSTORE", "CALL"}, logs |-> 5]}
=============================================================================
