------------------------------ MODULE Heuristic ------------------------------
(***************************************************************************)
(* Prices made from a trace without running anything: heuristic.rs, from    *)
(* the extracted updates or, when nothing was extracted, from the opcodes;  *)
(* and sim_profile.rs, the bound that an unbounded payload must stay under. *)
(*                                                                         *)
(* The gas of the trace is one unit per log, as in Legacy and Walker.  What *)
(* a trace does not decide, the bytes of the encoded updates, the topics   *)
(* and data of its events and the refund counter, is a parameter p.         *)
(***************************************************************************)
EXTENDS Hybrid

CONSTANT Payloads   \* inputs: [zero, nonzero, topics, data, refund]

BASE_TX_COST == 21000
LOG_COST == 375
LOG_BYTE == 8
ZERO_BYTE == 4
NONZERO_BYTE == 16
MAX_REFUND_QUOTIENT == 5
COLD_SSTORE_COST == 22100
APPLY_BASE_GAS == 2000
APPLY_GAS_PER_BYTE == 14
FLOOR_TOKEN == 10

Least(x, y) == IF x <= y THEN x ELSE y

calldata_gas(p) == ZERO_BYTE * p.zero + NONZERO_BYTE * p.nonzero

apply_refund(gross, refund) == gross - Least(refund, gross \div MAX_REFUND_QUOTIENT)

LogCost(p) == LOG_COST + LOG_COST * p.topics

CountOf(updates, op) == Cardinality({k \in DOMAIN updates : updates[k].op = op})

-----------------------------------------------------------------------------
(* From the extracted updates. *)

\* Calls and creates as measured; a store costs its log's unit of gas.
estimate_gas_from_state_updates(x, p) ==
  apply_refund(BASE_TX_COST + calldata_gas(p) + x.call_gas + x.create_gas
                 + CountOf(x.updates, "STORE")
                 + CountOf(x.updates, "LOG") * (LogCost(p) + LOG_BYTE * p.data),
               p.refund)

-----------------------------------------------------------------------------
(* From the opcodes. *)

OperationsStart ==
  [gas_after_call_opcode |-> {},      \* the CALL measured from, if any
   previous_depth        |-> 0,
   in_external_call      |-> FALSE,
   call_type_at_2        |-> "none",  \* call_type_at_depth, of which only 2 is used
   current_call_type     |-> "none",
   external_call_gas     |-> 0,
   stores |-> 0, logs    |-> 0]

\* The gas from the CALL measured from to log i.
MeasuredTo(acc, i) ==
  IF acc.call_type_at_2 \in {"CALL", "DELEGATECALL"}
  THEN MapThenSumSet(LAMBDA at : i - at, acc.gas_after_call_opcode) ELSE 0

\* Back from depth 2 to 1, and from 1 to 2; deeper moves are not looked at.
ChangeDepth(acc, i) ==
  IF trace[i].depth = 1 /\ acc.previous_depth = 2 /\ acc.in_external_call
  THEN [acc EXCEPT !.external_call_gas = @ + MeasuredTo(acc, i),
                   !.in_external_call = FALSE, !.gas_after_call_opcode = {},
                   !.call_type_at_2 = "none", !.current_call_type = "none"]
  ELSE IF trace[i].depth = 2 /\ acc.previous_depth = 1
  THEN [acc EXCEPT !.in_external_call = TRUE,
                   !.call_type_at_2 = IF acc.current_call_type = "none" THEN @
                                      ELSE acc.current_call_type]
  ELSE acc

\* Depth 2 under a DELEGATECALL of depth 1.
InDelegated(acc, i) == trace[i].depth = 2 /\ acc.call_type_at_2 = "DELEGATECALL"

TrackCall(acc, i) ==
  LET op == trace[i].op IN
  [acc EXCEPT
    !.gas_after_call_opcode =
      IF op = "CALL" /\ (trace[i].depth = 1 \/ InDelegated(acc, i)) THEN {i} ELSE @,
    !.current_call_type =
      IF op \in {"CALL", "DELEGATECALL"} /\ trace[i].depth = 1 THEN op ELSE @]

\* Mutant: operations are counted at every depth, also inside measured calls.
CountedAtAnyDepth(acc, i) == TRUE

CountedSeparately(acc, i) == trace[i].depth = 1 \/ InDelegated(acc, i)

CountOperation(acc, i) ==
  [acc EXCEPT
    !.stores = @ + (IF CountedSeparately(acc, i) /\ trace[i].op = "SSTORE" THEN 1 ELSE 0),
    !.logs   = @ + (IF CountedSeparately(acc, i) /\ trace[i].op = "LOG" THEN 1 ELSE 0),
    !.previous_depth = trace[i].depth]

OperationsLog(acc, i) == CountOperation(TrackCall(ChangeDepth(acc, i), i), i)

\* A trace that ends inside a call is measured to its last log.
extract_operation_counts_from_trace ==
  LET acc == FoldLeft(OperationsLog, OperationsStart, [i \in 1 .. Len(trace) |-> i])
  IN  [acc EXCEPT !.external_call_gas =
         @ + (IF acc.in_external_call THEN MeasuredTo(acc, Len(trace)) ELSE 0)]

estimate_gas_from_operations(ops, p) ==
  apply_refund(BASE_TX_COST + ops.stores + ops.logs * LogCost(p) + ops.external_call_gas, p.refund)

-----------------------------------------------------------------------------
(* The bound on an unbounded payload. *)

\* Execution and transport, or the floor price of the bytes.
estimate_applied_payload_gas(updates, replayed_gas, p) ==
  LET gas == BASE_TX_COST + replayed_gas + APPLY_BASE_GAS
               + CountOf(updates, "STORE") * COLD_SSTORE_COST
               + CountOf(updates, "LOG") * (LogCost(p) + LOG_BYTE * p.data)
               + (p.zero + p.nonzero) * APPLY_GAS_PER_BYTE + calldata_gas(p)
      floor == BASE_TX_COST + FLOOR_TOKEN * (p.zero + 4 * p.nonzero)
  IN  IF gas >= floor THEN gas ELSE floor

\* The updates of one program: none of them a create, which carries no initcode
\* there; the updates of a tree, whose creates are charged as measured.
CreatesAllowed(x, tree_of) == tree_of \/ CountOf(x.updates, "CREATE") = 0
validate(x, tree_of, p, budget) ==
  /\ CreatesAllowed(x, tree_of)
  /\ estimate_applied_payload_gas(x.updates, x.call_gas + (IF tree_of THEN x.create_gas ELSE 0), p)
       <= budget

-----------------------------------------------------------------------------
(* Properties. *)

OpensFrame(i) == i < Len(trace) /\ trace[i + 1].depth = trace[i].depth + 1

\* The traces that counting depths 1 and 2 tells apart: calls of the root open
\* frames, and what it delegates to neither calls nor delegates in turn.
Countable ==
  \A i \in DOMAIN trace :
    trace[i].op \in {"CALL", "DELEGATECALL"} =>
      /\ trace[i].depth = 1 => OpensFrame(i)
      /\ AtTargetDepth(i) => trace[i].depth = 1

\* The opcode count stands in for an extraction that failed, and mirrors it: it
\* measures the same calls and counts the same stores and events, none of them
\* twice, whatever the calls ran inside; so the fallback is the extraction's
\* price less the bytes and the creates it cannot see.  And the bound the
\* payload is admitted under is no less than what the heuristic reports, for
\* a program and for a tree with creates.
PricesConsistent ==
  (halted /\ encoding = "none" /\ ~LegacyFails(compute_state_updates)) =>
    LET x   == compute_state_updates
        ops == extract_operation_counts_from_trace
    IN \A p \in Payloads :
         /\ Countable =>
              /\ ops.external_call_gas = x.call_gas
              /\ ops.stores = CountOf(x.updates, "STORE") /\ ops.logs = CountOf(x.updates, "LOG")
              /\ estimate_gas_from_operations(ops, p) <= estimate_gas_from_state_updates(x, p)
         /\ \A tree_of \in BOOLEAN :
              CreatesAllowed(x, tree_of) =>
                ~validate(x, tree_of, p, estimate_gas_from_state_updates(x, p) - 1)
=============================================================================
