----------------------------- MODULE Candidates -----------------------------
(***************************************************************************)
(* nested.rs scan_candidates: the pass over the whole trace that decides,   *)
(* before the walk, which CALLs could become nested frames.  A scope is the *)
(* set of the call it belongs to: {i} for the CALL at log i, {0} for the    *)
(* root, {} for static calls and initcode.                                  *)
(***************************************************************************)
EXTENDS Settlement, Witness

ScanStart ==
  [frames     |-> <<[depth |-> 1, scope |-> {0}]>>,
   pending    |-> {},
   candidates |-> [i \in {} |-> {}],
   root_index |-> NoIndex]

\* Variant: the index after the increment.
IndexAfter(v) == v

\* A counter write of v leaves the index v - 1, saturating.
IndexBefore(v) == IF v = 0 THEN 0 ELSE v - 1

\* The frame the previous instruction opens, if this log is inside it; otherwise
\* the candidate of the pending scope is forgotten.
ScanEnter(acc, log) ==
  LET entered == {p \in acc.pending : log.depth = p.depth + 1}
      lost    == UNION {p.scope : p \in acc.pending \ entered}
  IN  [acc EXCEPT
        !.frames = SelectSeq(
            @ \o SetToSeq({[depth |-> log.depth, scope |-> p.scope] : p \in entered}),
            LAMBDA f : f.depth <= log.depth),
        !.pending = {},
        !.candidates = [i \in (DOMAIN @) \ lost |-> @[i]]]

Observable == {"CALL", "STATICCALL", "CREATE", "LOG"}

\* What this log makes of a candidate whose scope it is in.
Judge(c, log) ==
  [c EXCEPT
    !.bump = IF @ # "undecided" THEN @
             ELSE IF log.op = "SSTORE" THEN IF log.slot = Ctr THEN "first" ELSE "disqualified"
             ELSE IF log.op \in Observable THEN "disqualified" ELSE @,
    !.index = IF c.bump = "undecided" /\ log.op = "SSTORE" /\ log.slot = Ctr
              THEN IndexBefore(log.value) ELSE @,
    !.unsupported_op = @ \/ log.op = "TSTORE"]

Undecided == [bump |-> "undecided", index |-> 0, unsupported_op |-> FALSE]

\* The scope the frame opened by this log, at position i, belongs to.
Opens(log, i, scope) ==
  CASE log.op = "CALL" -> {[depth |-> log.depth, scope |-> {i}]}
    [] log.op \in {"STATICCALL", "CREATE"} -> {[depth |-> log.depth, scope |-> {}]}
    [] log.op = "DELEGATECALL" -> {[depth |-> log.depth, scope |-> scope]}
    [] OTHER -> {}

ScanExecute(acc, log, i) ==
  LET scope == Last(acc.frames).scope
      inserted == IF log.op = "CALL" THEN {i} ELSE {}
  IN  [acc EXCEPT
        !.candidates = [c \in (DOMAIN @) \cup inserted |->
                          IF c = i THEN Undecided
                          ELSE IF c \in scope THEN Judge(@[c], log) ELSE @[c]],
        !.root_index = IF scope = {0} /\ log.op = "SSTORE" /\ log.slot = Ctr /\ @ = NoIndex
                       THEN IndexBefore(log.value) ELSE @,
        !.pending = Opens(log, i, scope)]

ScanLog(logs, acc, i) ==
  LET entered == ScanEnter(acc, logs[i])
  IN  IF logs[i].error THEN entered ELSE ScanExecute(entered, logs[i], i)

scan_candidates(logs) ==
  FoldLeft(LAMBDA acc, i : ScanLog(logs, acc, i), ScanStart, [i \in 1 .. Len(logs) |-> i])
=============================================================================
