------------------------------- MODULE Ledger -------------------------------
(***************************************************************************)
(* What the ingestion pipeline promises about jobs, without queue, workers *)
(* or retries: a transaction is offered, some copies of it are in flight,  *)
(* and every copy leaves with exactly one recorded fate.  A row may only   *)
(* appear while a copy is in flight, and the fate "stored" needs the row.  *)
(***************************************************************************)
EXTENDS Naturals

CONSTANTS Tx, Fates

VARIABLES inflight, rows, fate

vars == <<inflight, rows, fate>>

Init == inflight = [t \in Tx |-> 0] /\ rows = {} /\ fate = {}

Offer(t) ==
  /\ inflight' = [inflight EXCEPT ![t] = @ + 1]
  /\ UNCHANGED <<rows, fate>>

Persist(t) ==
  /\ inflight[t] > 0
  /\ rows' = rows \cup {t}
  /\ UNCHANGED <<inflight, fate>>

Settle(t, f) ==
  /\ inflight[t] > 0
  /\ f = "stored" => t \in rows
  /\ inflight' = [inflight EXCEPT ![t] = @ - 1]
  /\ fate' = fate \cup {<<t, f>>}
  /\ UNCHANGED rows

Next == \E t \in Tx : Offer(t) \/ Persist(t) \/ \E f \in Fates : Settle(t, f)

Spec == Init /\ [][Next]_vars
=============================================================================
