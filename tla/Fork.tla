-------------------------------- MODULE Fork --------------------------------
(***************************************************************************)
(* The anvil backend: one forked node on which the transactions of a block  *)
(* are priced one after the other.  An estimate takes a snapshot, puts the  *)
(* estimator in the contract's place with the original behind it, sends the *)
(* program, and puts everything back.  Every step is a request of its own   *)
(* that may fail, and a failure is a report: the loop goes on to the next   *)
(* transaction, on the same fork.                                           *)
(***************************************************************************)
EXTENDS Integers, SequencesExt

CONSTANTS
  Blocks,         \* inputs: Seq([to, gas, status, code, extracts]): a block's receipts
  NoTarget,       \* `to` of a creation
  SchnorrFloor,   \* TURETZKY_UPPER_GAS_LIMIT_SCHNORR
  MaxForkFaults   \* bound: requests that fail

VARIABLES
  receipts,       \* the receipts that are kept
  gk,             \* [pc, at, snapshot, original, one]: the estimate in progress; one
                  \*   for a transaction of its own, not a block's
  fork,           \* the node: [code, impl, backup, number]
  reports,        \* Seq([at, gas, selector, behind])
  dirty,          \* history: [contracts -> an estimate failed with the estimator in place]
  fork_faults

forkVars == <<receipts, gk, fork, reports, dirty, fork_faults>>

Forked(B) == {B[i].to : i \in DOMAIN B} \ {NoTarget}

\* The fork as it is spawned: `impl` are the contracts whose IMPL_SLOT is set.
Pristine(C) == [code |-> [c \in C |-> c], impl |-> {}, backup |-> "none", number |-> 0]

receipt == receipts[gk.at]
InStep(pc) == gk.pc = pc
Then(pc) == gk' = [gk EXCEPT !.pc = pc]

\* gas_estimate_block keeps what could save gas under the cheapest scheme.
gas_estimate_block(B) == SelectSeq(B, LAMBDA r : r.gas > SchnorrFloor /\ r.to # NoTarget)

\* gas_estimate_tx prices one, of a call that succeeded and that runs code.
invokes_smart_contract(r) == r.to # NoTarget /\ r.code
gas_estimate_tx(r) ==
  IF r.gas > SchnorrFloor /\ invokes_smart_contract(r) /\ r.status THEN <<r>> ELSE <<>>

\* The blocks are blocks, and filtering one keeps receipts of it.
ASSUME ForkAssumption ==
  \A B \in Blocks :
    /\ B # <<>> /\ B \in Seq([to: Forked(B) \cup {NoTarget}, gas: Nat, status: BOOLEAN,
                             code: BOOLEAN, extracts: BOOLEAN])
    /\ gas_estimate_block(B) \in Seq({r \in Range(B) : r.to # NoTarget})
ASSUME ForkBoundAssumption == MaxForkFaults \in Nat /\ SchnorrFloor \in Nat

TakeReceipt ==
  /\ InStep("next") /\ gk.at < Len(receipts)
  /\ gk' = [gk EXCEPT !.pc = "selector", !.at = @ + 1]
  /\ UNCHANGED <<receipts, fork, reports, dirty, fork_faults>>

\* An error report has no figures; whether it has the selector depends on where
\* the error was met.
report_error(selector) ==
  /\ reports' = Append(reports, [at |-> gk.at, gas |-> "none", selector |-> selector, behind |-> "none"])
  /\ Then("next")

ForkFault == fork_faults < MaxForkFaults /\ fork_faults' = fork_faults + 1

\* A block goes on with a report; of one transaction the error is returned.
FetchSelector ==
  /\ InStep("selector")
  /\ \/ Then("trace") /\ UNCHANGED <<reports, fork_faults>>
     \/ ForkFault /\ ~gk.one /\ report_error(FALSE)
     \/ ForkFault /\ gk.one /\ Then("error") /\ UNCHANGED reports
  /\ UNCHANGED <<receipts, fork, dirty>>

\* get_tx_trace refuses a transaction that failed; the extraction may fail too.
GaskillerReporter ==
  /\ InStep("trace")
  /\ \/ receipt.status /\ receipt.extracts /\ Then("snapshot") /\ UNCHANGED <<reports, fork_faults>>
     \/ ~(receipt.status /\ receipt.extracts) /\ report_error(TRUE) /\ UNCHANGED fork_faults
     \/ ForkFault /\ report_error(TRUE)
  /\ UNCHANGED <<receipts, fork, dirty>>

-----------------------------------------------------------------------------
(* estimate_state_changes_gas. *)

Steps == <<"snapshot", "read", "backup", "inject", "slot", "send", "mined", "restore", "revert">>

\* A request of the estimate fails: the error is reported, and what the earlier
\* requests did to the fork stays.
EstimateFails ==
  /\ gk.pc \in Range(Steps) /\ ForkFault
  /\ report_error(TRUE)
  /\ dirty' = (IF fork.code[receipt.to] = "estimator" THEN dirty \cup {receipt.to} ELSE dirty)
  /\ UNCHANGED <<receipts, fork>>

Snapshot ==
  /\ InStep("snapshot")
  /\ gk' = [gk EXCEPT !.pc = "read", !.snapshot = fork]
  /\ UNCHANGED <<receipts, fork, reports, dirty, fork_faults>>

ReadOriginal ==
  /\ InStep("read")
  /\ gk' = [gk EXCEPT !.pc = "backup", !.original = fork.code[receipt.to]]
  /\ UNCHANGED <<receipts, fork, reports, dirty, fork_faults>>

ForkRequest(pc, pc2, f) ==
  /\ InStep(pc) /\ Then(pc2) /\ fork' = f
  /\ UNCHANGED <<receipts, reports, dirty, fork_faults>>

StashOriginal == ForkRequest("backup", "inject", [fork EXCEPT !.backup = gk.original])
InjectEstimator == ForkRequest("inject", "slot", [fork EXCEPT !.code[receipt.to] = "estimator"])
SetImplSlot == ForkRequest("slot", "send", [fork EXCEPT !.impl = @ \cup {receipt.to}])

\* The program is refused before it is mined (process_simulation_error), mined
\* and failed, or mined: the block is one further.
SendProgram ==
  /\ InStep("send")
  /\ \/ Then("mined") /\ fork' = [fork EXCEPT !.number = @ + 1] /\ UNCHANGED <<reports, dirty, fork_faults>>
     \/ /\ ForkFault /\ report_error(TRUE) /\ fork' = [fork EXCEPT !.number = @ + 1]
        /\ dirty' = dirty \cup {receipt.to}
  /\ UNCHANGED receipts

GetReceipt == ForkRequest("mined", "restore", fork)
RestoreOriginal == ForkRequest("restore", "revert", [fork EXCEPT !.code[receipt.to] = gk.original])

\* Mutant: with the code put back, the snapshot is not reverted.
RevertSkipped == fork

Reverted == gk.snapshot

\* evm_revert, and the report with its figures, or without them when the block
\* number cannot be read for comparison.
RevertSnapshot ==
  /\ InStep("revert")
  /\ fork' = Reverted
  /\ \/ /\ reports' = Append(reports, [at |-> gk.at, gas |-> "measured", selector |-> TRUE,
                                       behind |-> fork.backup])
        /\ Then("next") /\ UNCHANGED fork_faults
     \/ ForkFault /\ report_error(TRUE)
  /\ UNCHANGED <<receipts, dirty>>

ForkInit ==
  /\ \E B \in Blocks, one \in BOOLEAN :
       /\ receipts = (IF one THEN gas_estimate_tx(Head(B)) ELSE gas_estimate_block(B))
       /\ fork = Pristine(Forked(B))
       /\ gk = [pc |-> "next", at |-> 0, snapshot |-> fork, original |-> "none", one |-> one]
  /\ reports = <<>> /\ dirty = {} /\ fork_faults = 0

ForkNext ==
  \/ TakeReceipt \/ FetchSelector \/ GaskillerReporter \/ EstimateFails
  \/ Snapshot \/ ReadOriginal \/ StashOriginal \/ InjectEstimator \/ SetImplSlot
  \/ SendProgram \/ GetReceipt \/ RestoreOriginal \/ RevertSnapshot

ForkSpec == ForkInit /\ [][ForkNext]_forkVars

-----------------------------------------------------------------------------
\* The transactions of a block are priced on one fork, each as if it were the
\* first: a measured one ran with the chain's own code behind the estimator,
\* and leaves the node, block number and all, as it found it, whichever
\* transactions before it failed; the exception is a contract, and a node,
\* that a failed estimate has left with the estimator in place.  Every kept
\* receipt has one report, in order, unless it is the only one and its selector
\* could not be read; and a failed transaction is not measured.
EstimatesIsolated ==
  /\ (InStep("next") /\ fork_faults = 0) => fork = Pristine(DOMAIN fork.code)
  /\ InStep("next") => Len(reports) = gk.at
  /\ InStep("error") => gk.one /\ reports = <<>>
  /\ \A i \in DOMAIN reports :
       LET r == receipts[i] IN
       /\ reports[i].at = i
       /\ reports[i].gas = "measured" => r.status /\ (r.to \notin dirty => reports[i].behind = r.to)
  /\ \A c \in DOMAIN fork.code :
       (InStep("next") /\ c \notin dirty) => fork.code[c] = c

-----------------------------------------------------------------------------
(* The inductive invariant behind EstimatesIsolated. *)

ForkState(C) == [code: [C -> C \cup {"estimator"}], impl: SUBSET C,
                 backup: C \cup {"estimator", "none"}, number: Nat]

OutsideSteps == {"next", "selector", "trace", "snapshot", "error"}
InsideSteps == {"read", "backup", "inject", "slot", "send", "mined", "restore", "revert"}

\* Only the estimate of one transaction ends in an error.
Progress(C) ==
  {g \in [pc: OutsideSteps \cup InsideSteps, at: 0 .. Len(receipts), snapshot: ForkState(C),
          original: C \cup {"estimator", "none"}, one: BOOLEAN] :
     (g.one => Len(receipts) <= 1) /\ (g.pc = "error" => g.one)}

ForkTypeOK ==
  LET C == DOMAIN fork.code IN
  /\ receipts \in Seq([to: C, gas: Nat, status: BOOLEAN, code: BOOLEAN, extracts: BOOLEAN])
  /\ gk \in Progress(C)
  /\ fork \in ForkState(C)
  /\ reports \in Seq([at: Nat, gas: {"none", "measured"}, selector: BOOLEAN,
                      behind: C \cup {"estimator", "none"}])
  /\ dirty \subseteq C /\ fork_faults \in Nat

\* One report for each receipt that was taken and is not being priced.
ReportsInOrder ==
  /\ Len(reports) = (IF InStep("next") THEN gk.at ELSE gk.at - 1)
  /\ \A i \in DOMAIN reports :
       /\ reports[i].at = i
       /\ reports[i].gas = "measured" =>
            /\ receipts[i].status
            /\ receipts[i].to \notin dirty => reports[i].behind = receipts[i].to

Clean(f) ==
  /\ \A c \in DOMAIN fork.code : c \notin dirty => f.code[c] = c
  /\ fork_faults = 0 => f = Pristine(DOMAIN fork.code)

\* Between estimates the fork is clean; during one the snapshot is, and the fork
\* differs from it in the code of the one contract, by what has been done so far.
ForkAsLeft ==
  /\ gk.pc \in OutsideSteps => Clean(fork)
  /\ gk.pc \in InsideSteps =>
       /\ Clean(gk.snapshot) /\ receipt.status
       /\ \A c \in DOMAIN fork.code : c # receipt.to => fork.code[c] = gk.snapshot.code[c]
       /\ gk.pc \notin {"slot", "send", "mined", "restore"} =>
            fork.code[receipt.to] = gk.snapshot.code[receipt.to]
       /\ gk.pc \in {"slot", "send", "mined", "restore"} => fork.code[receipt.to] = "estimator"
       /\ gk.pc # "read" => gk.original = gk.snapshot.code[receipt.to]
       /\ gk.pc \notin {"read", "backup"} => fork.backup = gk.original
  /\ gk.pc = "snapshot" => receipt.status

ForkInv == ForkTypeOK /\ ReportsInOrder /\ ForkAsLeft
=============================================================================
