------------------------------ MODULE Selectors ------------------------------
(***************************************************************************)
(* The 4byte resolver: every tick takes the most frequent selectors that   *)
(* have no row yet, asks 4byte.directory for each and stores what it says, *)
(* a miss included.  A failed lookup or statement leaves no row.           *)
(***************************************************************************)
EXTENDS Names

CONSTANTS
  Selector,        \* function selectors of rows with savings
  FourByte,        \* [Selector -> SUBSET [id, sig]]: the directory
  SelBatch,        \* FOURBYTE_BATCH_SIZE
  MaxCalls,        \* bound: rows per selector
  MaxSelFaults     \* bound: failed lookups, statements and ticks

VARIABLES
  calls,               \* [Selector -> rows in analysis]
  function_selectors,  \* [Selector -> {} (no row) or {[source, sig]}]
  sel_todo,            \* the batch being fetched
  sel_faults

selVars == <<calls, function_selectors, sel_todo, sel_faults>>

SelFault == sel_faults < MaxSelFaults /\ sel_faults' = sel_faults + 1

\* Mutant: rows without a signature are asked for again and again.
UnlistedOrUnknown == {s \in Selector :
  calls[s] > 0 /\ \A r \in function_selectors[s] : r.source = "unresolved"}

Unlisted == {s \in Selector : calls[s] > 0 /\ function_selectors[s] = {}}

\* The batches LIMIT may return.
unresolved_selectors ==
  {B \in SUBSET Unlisted :
     /\ Cardinality(B) = Min({Cardinality(Unlisted), SelBatch})
     /\ \A s \in B, t \in Unlisted \ B : calls[s] >= calls[t]}

SelectorsInit ==
  /\ calls = [s \in Selector |-> 0]
  /\ function_selectors = [s \in Selector |-> {}]
  /\ sel_todo = {} /\ sel_faults = 0

\* A worker stores a transaction that calls s.
SelAnalysis(s) ==
  /\ calls[s] < MaxCalls
  /\ calls' = [calls EXCEPT ![s] = @ + 1]
  /\ UNCHANGED <<function_selectors, sel_todo, sel_faults>>

SelTick ==
  /\ sel_todo = {} /\ Unlisted # {}
  /\ sel_todo' \in unresolved_selectors
  /\ UNCHANGED <<calls, function_selectors, sel_faults>>

SelRow(s) ==
  IF FourByte[s] = {} THEN {[source |-> "unresolved", sig |-> {}]}
  ELSE {[source |-> "fourbyte", sig |-> fourbyte_lookup(FourByte[s])]}

SelLookup(s) ==
  /\ s \in sel_todo
  /\ function_selectors' = [function_selectors EXCEPT ![s] = SelRow(s)]
  /\ sel_todo' = sel_todo \ {s}
  /\ UNCHANGED <<calls, sel_faults>>

\* A transport error is not recorded; a failed upsert is not noticed.
SelLookupFails(s) ==
  /\ s \in sel_todo /\ SelFault
  /\ sel_todo' = sel_todo \ {s}
  /\ UNCHANGED <<calls, function_selectors>>

\* A restart forgets the rest of the batch.
SelRestart ==
  /\ sel_todo # {} /\ SelFault
  /\ sel_todo' = {}
  /\ UNCHANGED <<calls, function_selectors>>

SelectorsNext ==
  \/ SelTick \/ SelRestart
  \/ \E s \in Selector : SelAnalysis(s) \/ SelLookup(s) \/ SelLookupFails(s)

\* The ticker fires and the batch loop goes on.
SelectorsFairness ==
  /\ WF_selVars(SelTick)
  /\ WF_selVars(\E s \in Selector : SelLookup(s))

\* Every selector with rows is settled in the end, found or recorded as
\* unknown, however often others are called and whatever failed before; a
\* selector the directory does not know is not asked for again.
SelectorsSettled ==
  \A s \in Selector : (calls[s] > 0) ~> (function_selectors[s] # {})
=============================================================================
