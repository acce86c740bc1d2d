-------------------------------- MODULE Evm --------------------------------
(***************************************************************************)
(* The traced execution: a transaction to contract Root, run by a node that *)
(* answers debug_traceCall with Geth struct logs.  This is the input of the *)
(* extractors in crates/core (trace.rs, nested.rs), not code of theirs: the *)
(* contracts may execute any instruction of a menu, so the behaviours are   *)
(* all well-formed traces of at most so many logs whose root call succeeds  *)
(* (ensure_call_succeeded rejects the others).                              *)
(*                                                                         *)
(* Storage and events are kept only to state properties: `world` is what    *)
(* the execution has done so far, and every log carries the world it saw    *)
(* and the frames open at it, which no extractor reads.                     *)
(***************************************************************************)
EXTENDS Naturals, Sequences, FiniteSets

CONSTANTS
  Contract,     \* the deployed contracts
  Root,         \* the transaction's target
  NoAddress,    \* the context of initcode: a contract that did not exist
  Slot,         \* storage slots, as naturals: BTreeMaps iterate in their order
  Ctr,          \* STATE_TRACKER_SLOT, the transition counter of an SDK consumer
  Value,        \* what ordinary slots hold
  Menus,        \* bound: [ops, logs]: the instructions the contracts may use,
                \* and the length of the trace
  MaxDepth      \* bound: call depth

ASSUME EvmAssumption ==
  /\ Root \in Contract /\ NoAddress \notin Contract
  /\ Slot \subseteq Nat /\ IsFiniteSet(Slot) /\ Ctr \in Slot
  /\ Value \subseteq Nat /\ 0 \in Value
  /\ MaxDepth \in Nat \ {0} /\ \A m \in Menus : m.logs \in Nat \ {0}

VARIABLES
  menu,     \* the one of Menus
  world,    \* [st, ev]: every contract's storage, and the events so far
  stack,    \* the open call frames, the root's first
  flag,     \* what the latest call left on its caller's stack: 1 success, 0 failure
  trace,    \* the struct logs
  halted    \* the root frame has returned

evmVars == <<menu, world, stack, flag, trace, halted>>

Genesis == [st |-> [c \in Contract |-> [s \in Slot |-> 0]], ev |-> <<>>]

Top == stack[Len(stack)]

\* A struct log; `top` is the top of the stack.  `world`, what the instruction
\* saw, and `stack`, the frames open at it, are there to state properties.
Entry(op, to, s, v, error) ==
  [depth |-> Len(stack), op |-> op, to |-> to, slot |-> s, value |-> v,
   error |-> error, top |-> flag, world |-> world, stack |-> stack]

\* The log fits, together with one closing log per open frame.
Room(opened) == Len(trace) + 1 + Len(stack) + opened <= menu.logs

Executes(op) == ~halted /\ op \in menu.ops

Record(log) == trace' = Append(trace, log)

EvmInit ==
  /\ menu \in Menus
  /\ world = Genesis
  /\ stack = <<[ctx |-> Root, static |-> FALSE, saved |-> Genesis]>>
  /\ flag = 0 /\ trace = <<>> /\ halted = FALSE

Write(s, v) ==
  /\ Room(0) /\ ~Top.static
  /\ Record(Entry("SSTORE", NoAddress, s, v, FALSE))
  /\ world' = IF Top.ctx = NoAddress THEN world ELSE [world EXCEPT !.st[Top.ctx][s] = v]
  /\ flag' = 0
  /\ UNCHANGED <<stack, halted>>

Sstore == Executes("SSTORE") /\ \E s \in Slot \ {Ctr}, v \in Value : Write(s, v)

\* A consumer's transition counter only ever counts up.
Increment ==
  /\ Executes("INCREMENT")
  /\ Write(Ctr, IF Top.ctx = NoAddress THEN 1 ELSE world.st[Top.ctx][Ctr] + 1)

Emit ==
  /\ Executes("LOG") /\ Room(0) /\ ~Top.static
  /\ Record(Entry("LOG", NoAddress, 0, 0, FALSE))
  /\ world' = [world EXCEPT !.ev = Append(@, <<Top.ctx, Len(trace) + 1>>)]
  /\ flag' = 0
  /\ UNCHANGED <<stack, halted>>

\* TSTORE stands for every instruction no state update represents.
Tstore ==
  /\ Executes("TSTORE") /\ Room(0) /\ ~Top.static
  /\ Record(Entry("TSTORE", NoAddress, 0, 0, FALSE))
  /\ flag' = 0
  /\ UNCHANGED <<world, stack, halted>>

Open(op, to, ctx, static) ==
  /\ Executes(op) /\ Room(1) /\ Len(stack) < MaxDepth
  /\ Record(Entry(op, to, 0, 0, FALSE))
  /\ stack' = Append(stack, [ctx |-> ctx, static |-> static, saved |-> world])
  /\ flag' = 0
  /\ UNCHANGED <<world, halted>>

\* DELEGATECALL and CALLCODE run other code on the caller's storage.
OpenFrame ==
  \/ \E c \in Contract : Open("CALL", c, c, Top.static)
  \/ \E c \in Contract : Open("STATICCALL", c, c, TRUE)
  \/ Open("DELEGATECALL", NoAddress, Top.ctx, Top.static)
  \/ ~Top.static /\ Open("CREATE", NoAddress, NoAddress, FALSE)

\* A call that runs no code: an account without code or a precompile succeeds,
\* a call the caller cannot pay for fails.
Inline ==
  /\ Executes("INLINE") /\ Room(0)
  /\ \E op \in menu.ops \cap {"CALL", "STATICCALL", "DELEGATECALL", "CREATE"}, f \in {0, 1} :
       /\ op = "CREATE" => ~Top.static
       /\ \E to \in IF op = "CALL" /\ f = 0 THEN Contract ELSE {NoAddress} :
            Record(Entry(op, to, 0, 0, FALSE))
       /\ flag' = f
  /\ UNCHANGED <<world, stack, halted>>

Close(log, w, f) ==
  /\ Record(log)
  /\ world' = w
  /\ stack' = SubSeq(stack, 1, Len(stack) - 1)
  /\ flag' = f
  /\ UNCHANGED halted

Revert ==
  /\ Executes("REVERT") /\ Len(stack) > 1
  /\ Close(Entry("REVERT", NoAddress, 0, 0, FALSE), Top.saved, 0)

\* An instruction fails (out of gas, static context): the frame fails with it.
Halt ==
  /\ Executes("HALT") /\ Len(stack) > 1
  /\ \E op \in menu.ops \cap {"SSTORE", "LOG", "TSTORE", "CALL", "DELEGATECALL", "STATICCALL", "CREATE"} :
       Close(Entry(op, Root, Ctr, 1, TRUE), Top.saved, 0)

Return ==
  /\ ~halted /\ Len(stack) > 1
  /\ Close(Entry("STOP", NoAddress, 0, 0, FALSE), world, 1)

\* The root call succeeds and the trace is complete.
Finish ==
  /\ ~halted /\ Len(stack) = 1
  /\ Record(Entry("STOP", NoAddress, 0, 0, FALSE))
  /\ halted' = TRUE
  /\ UNCHANGED <<world, stack, flag>>

Execute ==
  /\ \/ Sstore \/ Increment \/ Emit \/ Tstore \/ OpenFrame \/ Inline
     \/ Revert \/ Halt \/ Return \/ Finish
  /\ UNCHANGED menu

(***************************************************************************)
(* Reading a complete trace                                                *)
(***************************************************************************)

\* The log that resumes the caller of the call at log i.
Resume(i) ==
  CHOOSE j \in (i + 1) .. Len(trace) :
    /\ trace[j].depth <= trace[i].depth
    /\ \A k \in (i + 1) .. (j - 1) : trace[k].depth > trace[i].depth

\* Gas is one unit per log, so a call costs the logs up to its resumption.
GasOf(i) == Resume(i) - i

Succeeded(i) == trace[Resume(i)].top = 1

Final == trace[Len(trace)].world
=============================================================================
