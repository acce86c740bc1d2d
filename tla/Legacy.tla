------------------------------- MODULE Legacy -------------------------------
(***************************************************************************)
(* trace.rs compute_state_updates: the struct-log extractor the indexer and *)
(* StateEncoding::Legacy use.  It keeps the updates of the root's scope in  *)
(* trace order, counts depths instead of tracking frames, and looks at      *)
(* neither errors nor reverts.  Gas is one unit per log.                    *)
(***************************************************************************)
EXTENDS Settlement, SequencesExt

LegacyStart ==
  [updates         |-> <<>>,
   target_depth    |-> 1,
   call_stack      |-> <<>>,    \* the CALLs it is inside: [depth, at]
   pending_create  |-> {},      \* the create awaiting its result: [depth, at]
   call_gas        |-> 0,
   create_gas      |-> 0,
   skipped_opcodes |-> {},
   reentered       |-> FALSE,
   failed          |-> FALSE]

\* Variant: whatever the resuming log carries is taken for a deployed address.
ResolveCreateBlind(acc, i) ==
  LET done == {c \in acc.pending_create : trace[i].depth <= c.depth}
  IN  [acc EXCEPT
        !.pending_create = @ \ done,
        !.create_gas = @ + (IF done = {} THEN 0 ELSE i - (CHOOSE c \in done : TRUE).at)]

\* The log that resumes a create carries the deployed address; none is a failure.
ResolveCreate(acc, i) ==
  LET done == {c \in acc.pending_create : trace[i].depth <= c.depth}
  IN  [acc EXCEPT
        !.pending_create = @ \ done,
        !.failed = @ \/ \E c \in done : trace[i].depth # c.depth \/ trace[i].top = 0,
        !.create_gas = @ + (IF done = {} THEN 0 ELSE i - (CHOOSE c \in done : TRUE).at)]

\* A call below the root that targets the root.
DetectReentry(acc, i) ==
  [acc EXCEPT !.reentered = @ \/
     /\ trace[i].depth >= 2
     /\ trace[i].op \in {"CALL", "STATICCALL", "DELEGATECALL"}
     /\ trace[i].to = Root]

\* Variant: only the innermost call is popped, and only at its exact depth.
StepUpAtDepth(acc, i) ==
  IF trace[i].depth >= acc.target_depth THEN acc
  ELSE LET left == SelectSeq(acc.call_stack, LAMBDA c : c.depth = trace[i].depth + 1)
       IN  [acc EXCEPT
             !.call_stack = SelectSeq(@, LAMBDA c : c.depth # trace[i].depth + 1),
             !.call_gas = FoldLeft(LAMBDA sum, c : sum + (i - c.at), @, left),
             !.target_depth = trace[i].depth]

\* Stepping up leaves every CALL opened at this depth or below.
StepUp(acc, i) ==
  IF trace[i].depth >= acc.target_depth THEN acc
  ELSE LET left == SelectSeq(acc.call_stack, LAMBDA c : c.depth >= trace[i].depth)
       IN  [acc EXCEPT
             !.call_stack = SelectSeq(@, LAMBDA c : c.depth < trace[i].depth),
             !.call_gas = FoldLeft(LAMBDA sum, c : sum + (i - c.at), @, left),
             !.target_depth = trace[i].depth]

\* append_state_update_from_struct_log, for the opcodes it is called with.
AppendUpdate(updates, i) ==
  Append(updates,
    IF trace[i].op = "SSTORE"
    THEN [op |-> "STORE", slot |-> trace[i].slot, value |-> trace[i].value, at |-> i]
    ELSE [op |-> trace[i].op, slot |-> 0, value |-> 0, at |-> i])

\* At the target depth: delegated code is followed, updates inside a CALL are
\* left to its replay, the others are taken as they come.
Extract(acc, i) ==
  LET here == [depth |-> trace[i].depth, at |-> i]
      op   == trace[i].op
  IN  IF trace[i].depth # acc.target_depth THEN acc
      ELSE IF op = "DELEGATECALL" THEN [acc EXCEPT !.target_depth = @ + 1]
      ELSE IF op \notin {"CALL", "SSTORE", "LOG", "CREATE"} \/ acc.call_stack # <<>> THEN acc
      ELSE [acc EXCEPT
             !.updates = AppendUpdate(@, i),
             !.pending_create = IF op = "CREATE" THEN {here} ELSE @,
             !.call_stack = IF op = "CALL" THEN Append(@, here) ELSE @,
             !.target_depth = IF op = "CALL" THEN @ + 1 ELSE @]

LegacyLog(acc, i) ==
  LET resolved == ResolveCreate(acc, i)
  IN  IF resolved.failed THEN resolved
      ELSE Extract(StepUp(DetectReentry(resolved, i), i), i)

compute_state_updates ==
  FoldLeft(LegacyLog, LegacyStart, [i \in 1 .. Len(trace) |-> i])

\* bail!, and the panic for calls that never returned.
LegacyFails(result) == result.failed \/ result.pending_create # {}
LegacyPanics(result) == ~LegacyFails(result) /\ result.call_stack # <<>>
=============================================================================
