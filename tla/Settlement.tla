----------------------------- MODULE Settlement -----------------------------
(***************************************************************************)
(* Applying a signed program on chain.  The contract that does it lives in  *)
(* solidity-sdk, outside this repository; what is modelled here is what     *)
(* crates/core relies on:                                                  *)
(*   - updates are applied in order to the storage of the frame's target;   *)
(*   - a CALL or CREATE runs the callee's code for real, so it repeats what *)
(*     the trace shows as long as it finds the same world, and one that     *)
(*     fails aborts the settlement (RevertingContext);                      *)
(*   - a NESTED op checks the child's transition index, increments its      *)
(*     counter and applies the child's program.                             *)
(***************************************************************************)
EXTENDS Evm

CONSTANT Divergent   \* re-entrant calls may write other values than in the trace

VARIABLES
  tree,      \* the extracted frames, root first
  chain,     \* the world on chain
  cursor,    \* the frames being applied: [frame, pos], the root's first
  outcome    \* "none", "applying", "applied" or "aborted"

settlementVars == <<tree, chain, cursor, outcome>>

SettlementInit == tree = <<>> /\ chain = Genesis /\ cursor = <<>> /\ outcome = "none"

Submit(frames) ==
  /\ tree' = frames
  /\ chain' = Genesis
  /\ cursor' = <<[frame |-> 1, pos |-> 1]>>
  /\ outcome' = "applying"

Applying == cursor[Len(cursor)]
Program == tree[Applying.frame]
AtOp(ops) ==
  /\ outcome = "applying"
  /\ Applying.pos <= Len(Program.updates)
  /\ Program.updates[Applying.pos].op \in ops
Update == Program.updates[Applying.pos]

Advance == cursor' = [cursor EXCEPT ![Len(cursor)].pos = @ + 1]

ApplyStore ==
  /\ AtOp({"STORE"})
  /\ chain' = [chain EXCEPT !.st[Program.target][Update.slot] = Update.value]
  /\ Advance
  /\ UNCHANGED <<tree, outcome>>

ApplyLog ==
  /\ AtOp({"LOG"})
  /\ chain' = [chain EXCEPT !.ev = Append(@, <<Program.target, Update.at>>)]
  /\ Advance
  /\ UNCHANGED <<tree, outcome>>

\* The call at log i calls back into the root.
Reentrant(i) ==
  \E k \in i .. (Resume(i) - 1) : trace[k].op = "CALL" /\ trace[k].to = Root

\* What the replay of the call at log i may leave behind: it finds the traced
\* world and repeats the traced effects or, where re-entrant calls may diverge,
\* leaves the root's ordinary slots with values of its own.
Replayed(i) ==
  LET after == trace[Resume(i)].world
  IN  IF ~(Divergent /\ Reentrant(i)) THEN {after}
      ELSE {[after EXCEPT !.st[Root] = [s \in Slot |-> IF s = Ctr THEN @[s] ELSE v[s]]] :
              v \in [Slot \ {Ctr} -> Value]}

ApplyCall ==
  /\ AtOp({"CALL", "CREATE"})
  /\ Succeeded(Update.at)
  /\ chain' \in Replayed(Update.at)
  /\ Advance
  /\ UNCHANGED <<tree, outcome>>

\* The child of the NESTED op under the cursor.
Child ==
  Program.children[Cardinality({k \in 1 .. Applying.pos : Program.updates[k].op = "NESTED"})]

IndexMatches == chain.st[tree[Child].target][Ctr] = tree[Child].index

ApplyNested ==
  /\ AtOp({"NESTED"})
  /\ IndexMatches
  /\ chain' = [chain EXCEPT !.st[tree[Child].target][Ctr] = @ + 1]
  /\ cursor' = Append([cursor EXCEPT ![Len(cursor)].pos = @ + 1], [frame |-> Child, pos |-> 1])
  /\ UNCHANGED <<tree, outcome>>

\* A replayed call fails, or a child refuses its transition index.
Abort ==
  /\ AtOp({"CALL", "CREATE", "NESTED"})
  /\ IF Update.op = "NESTED" THEN ~IndexMatches ELSE ~Succeeded(Update.at)
  /\ outcome' = "aborted"
  /\ UNCHANGED <<tree, chain, cursor>>

FrameApplied ==
  /\ outcome = "applying"
  /\ Applying.pos > Len(Program.updates)
  /\ cursor' = SubSeq(cursor, 1, Len(cursor) - 1)
  /\ outcome' = IF Len(cursor) = 1 THEN "applied" ELSE outcome
  /\ UNCHANGED <<tree, chain>>

Apply ==
  /\ ApplyStore \/ ApplyLog \/ ApplyCall \/ ApplyNested \/ Abort \/ FrameApplied
  /\ UNCHANGED evmVars

-----------------------------------------------------------------------------
\* Canonical checkpointing: whenever the settlement hands control to other code,
\* by a CALL, a CREATE or a NESTED frame, the world on chain is the world the
\* trace saw at that instruction: re-entrant code reads what it read natively.
BoundaryInSync ==
  AtOp({"CALL", "CREATE", "NESTED"}) => chain = trace[Update.at].world

\* A settlement that goes through leaves every contract's storage, and the
\* sequence of events, as the traced transaction left them.
ReachesTracedWorld == outcome = "applied" => chain = Final

\* A settlement only aborts where it repeats a CALL that failed in the trace and
\* whose caller carried on: no index is refused and no CREATE fails.
AbortsOnlyOnFailedCall == outcome = "aborted" => Update.op = "CALL"

\* The promise for calls whose replay diverges: the program still leaves every
\* slot the trace wrote in the root's storage with its traced value.
FinalStateDetermined ==
  outcome = "applied" =>
    \A s \in Slot :
      (\E i \in 1 .. Len(trace) : trace[i].op = "SSTORE" /\ trace[i].slot = s /\ ~trace[i].error
                                  /\ trace[i].depth = 1)
        => chain.st[Root][s] = Final.st[Root][s]
=============================================================================
