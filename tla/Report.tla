------------------------------- MODULE Report -------------------------------
(***************************************************************************)
(* What the command line and the browser module report of one transaction:  *)
(* which runs and which estimates its prices come from, what they fall back *)
(* to when a step fails, and what is said of them.                          *)
(*                                                                         *)
(* A price says where it comes from and no amount: what produced it, over   *)
(* which state, what had run there before, and how often the gas of the     *)
(* callees is in it.  An estimate that runs nothing says nothing about      *)
(* them: what those count is Heuristic's subject.  What the transaction and *)
(* its node are like is an input.                                           *)
(***************************************************************************)
EXTENDS Integers, Sequences

CONSTANTS
  CliInputs,      \* [command, owned, anvil, status, to, empty]
  WasmInputs      \* [api, response, origin, diff, replay, typ, eligible]

\* What a user may ask for, and what the chain and the node may be like.
CliInput == [command: {"t", "r", "none"}, owned: {"absent", "empty", "invalid", "given"},
             anvil: BOOLEAN, status: BOOLEAN, to: BOOLEAN, empty: BOOLEAN]
WasmInput == [api: {"trace", "tree", "heuristic", "prestate"},
              response: {"result", "error", "both", "neither"},
              origin: BOOLEAN, diff: BOOLEAN, replay: BOOLEAN,
              typ: {"CALL", "CREATE"}, eligible: BOOLEAN]

ASSUME ReportAssumption == CliInputs \subseteq CliInput /\ WasmInputs \subseteq WasmInput

\* [pc, tool, input, prices (so far), preceding (fetched), replay_error, label]
VARIABLE rep

-----------------------------------------------------------------------------
(* Prices. *)

\* The estimator's run over a database: the chain's or the fork's, the state a
\* transaction began with, or a seeded one, in which no callee has code to run.
RunOver(state, before) ==
  [by |-> "run", over |-> state, before |-> before, callees |-> IF state = "seeded" THEN 0 ELSE 1]

\* The static formulas, from the updates or the opcodes of the trace; and what
\* an error report has instead of an estimate.
Unrun(by) == [by |-> by, over |-> "trace", before |-> <<>>, callees |-> 0]
FromUpdates == Unrun("updates")
FromOperations == Unrun("opcodes")
report_error_price == Unrun("nothing")

\* The callees' gas as the trace has it, added to a run that could not run them.
WithCallees(price) == [price EXCEPT !.callees = @ + 1]

-----------------------------------------------------------------------------
(* Steps of both tools. *)

OnTool(tool, pc) == rep.tool = tool /\ rep.pc = pc
GoOn(pc) == rep' = [rep EXCEPT !.pc = pc]
Stops == rep' = [rep EXCEPT !.pc = "error", !.prices = <<>>]

\* `--owned' is an error without addresses, with a wrong one, or for another
\* command than `t'.
parse_args(in) ==
  CASE in.owned = "absent" -> "plain"
    [] in.owned \in {"empty", "invalid"} \/ in.command # "t" -> "error"
    [] OTHER -> "owned"

\* A tree is priced twice, settled by the root alone and nested.
Settlements ==
  IF (rep.tool = "cli" /\ parse_args(rep.input) = "owned") \/ (rep.tool = "wasm" /\ rep.input.api = "tree")
  THEN 2 ELSE 1

\* One more price; the last of the settlements completes the report.
Says(price, label) ==
  rep' = [rep EXCEPT !.pc = IF Len(rep.prices) + 1 = Settlements THEN "reported" ELSE rep.pc,
                     !.prices = Append(rep.prices, price), !.label = label]

-----------------------------------------------------------------------------
(* The command line. *)

\* Anything but `t' prints a message and prices nothing.
execute_command ==
  /\ OnTool("cli", "start")
  /\ IF parse_args(rep.input) = "error" \/ rep.input.command # "t" THEN Stops
     ELSE GoOn("fetch")

\* The receipt and the transaction; then the what-if, anvil or the sketch.
FetchTransaction ==
  /\ OnTool("cli", "fetch")
  /\ LET in == rep.input IN
     \/ Stops
     \/ /\ parse_args(in) = "owned"
        /\ IF in.anvil \/ ~in.to THEN Stops ELSE GoOn("what_if")
     \/ parse_args(in) = "plain" /\ GoOn(IF in.anvil THEN "anvil" ELSE "extract")

\* Both trees from one trace, which a failed transaction does not have, and the
\* sketch.
what_if_split ==
  /\ OnTool("cli", "what_if")
  /\ Stops \/ (rep.input.status /\ GoOn("preceding"))

\* Without the preceding transactions there is no estimate.
LoadPreceding ==
  /\ OnTool("cli", "preceding")
  /\ \/ Stops
     \/ /\ rep.input.to
        /\ rep' = [rep EXCEPT !.preceding = TRUE,
                              !.pc = IF parse_args(rep.input) = "owned" THEN "settle" ELSE "measure"]

\* A fresh database over the block's parent state, with the preceding
\* transactions replayed on it.
AfterPreceding == RunOver("chain", IF rep.preceding THEN <<"preceding">> ELSE <<>>)

\* The root-only settlement, then the nested one; a run that fails ends the
\* what-if.
what_if_run ==
  /\ OnTool("cli", "settle")
  /\ Stops \/ Says(AfterPreceding, "what-if")

\* The fork is at the end of the parent block: nothing precedes the program.
\* gas_estimate_tx turns what fails past the selector into an error report, and
\* the estimate of one is printed like any other.
RunAnvil ==
  /\ OnTool("cli", "anvil")
  /\ \/ Stops
     \/ /\ rep.input.status /\ rep.input.to
        /\ \E price \in {RunOver("fork", <<>>), report_error_price} : Says(price, "measured via Anvil")

\* compute_state_updates_from_tx: a transaction that succeeded may still be
\* priced by its opcodes; so is one without updates.
ExtractUpdates ==
  /\ OnTool("cli", "extract")
  /\ \/ rep.input.status /\ GoOn(IF rep.input.empty THEN "no_updates" ELSE "preceding")
     \/ IF rep.input.status THEN GoOn("fallback") ELSE Stops

\* estimate_gas_from_trace needs the trace as well.
EstimateFromTrace ==
  /\ rep.tool = "cli" /\ rep.pc \in {"no_updates", "fallback"}
  /\ Stops \/ Says(FromOperations, IF rep.pc = "fallback" THEN "fallback" ELSE "heuristic")

\* A program that does not run is priced by its updates.
MeasureUpdates ==
  /\ OnTool("cli", "measure")
  /\ Says(AfterPreceding, "measured") \/ Says(FromUpdates, "heuristic")

-----------------------------------------------------------------------------
(* The browser module. *)

\* A response with an error is the node's, whatever else it has.
parse_trace_response(response) ==
  CASE response \in {"error", "both"} -> "rpc_error"
    [] response = "result" -> "trace"
    [] OTHER -> "analysis_error"

\* A diff and a prestate are of the account the program stands in for.
trace_options(in) == (in.diff \/ in.replay) => in.origin

ParseTrace ==
  /\ OnTool("wasm", "start") /\ rep.input.api \in {"trace", "tree", "heuristic"}
  /\ \/ Stops                                       \* no updates or no split
     \/ /\ parse_trace_response(rep.input.response) = "trace"
        /\ CASE rep.input.api = "heuristic" -> Says(FromUpdates, "heuristic")
             [] rep.input.api = "trace" /\ ~trace_options(rep.input) -> Stops
             [] OTHER -> GoOn(IF rep.input.replay THEN "replay" ELSE "price")

\* Mutant: the settlement that was replayed keeps its price.
KeepReplayed == rep' = [rep EXCEPT !.pc = "price", !.replay_error = TRUE]

\* A replay that fails takes the settlement replayed before it along.
DiscardReplay == rep' = [rep EXCEPT !.pc = "price", !.replay_error = TRUE, !.prices = <<>>]

\* The estimator at the consumer, or at every frame's target, over the state the
\* transaction began with, made anew for each settlement.
ReplayPrestate ==
  /\ OnTool("wasm", "replay")
  /\ Says(RunOver("prestate", <<>>), "executed") \/ DiscardReplay

\* Over a seeded state, made anew for each settlement; the callees' gas is the
\* trace's.  A tree that does not run has no price, one program the heuristic's.
PriceSeeded ==
  /\ OnTool("wasm", "price")
  /\ \/ Says(WithCallees(RunOver("seeded", <<>>)), "simulated")
     \/ Stops
     \/ rep.input.api = "trace" /\ Says(FromUpdates, "heuristic")

\* The net form, when the call is one and has one: without CALLs, nothing of the
\* callees is left to add.
analyze_prestate ==
  /\ OnTool("wasm", "start") /\ rep.input.api = "prestate"
  /\ \/ Stops
     \/ /\ rep.input.typ = "CALL" /\ rep.input.eligible
        /\ Says(RunOver("seeded", <<>>), "simulated") \/ Says(FromUpdates, "heuristic")

Asked(tool, in) ==
  [pc |-> "start", tool |-> tool, input |-> in, prices |-> <<>>, preceding |-> FALSE,
   replay_error |-> FALSE, label |-> "none"]

ReportInit ==
  \/ \E in \in CliInputs : rep = Asked("cli", in)
  \/ \E in \in WasmInputs : rep = Asked("wasm", in)

ReportNext ==
  \/ execute_command \/ FetchTransaction \/ what_if_split \/ LoadPreceding \/ what_if_run
  \/ RunAnvil \/ ExtractUpdates \/ EstimateFromTrace \/ MeasureUpdates
  \/ ParseTrace \/ ReplayPrestate \/ PriceSeeded \/ analyze_prestate

ReportSpec == ReportInit /\ [][ReportNext]_rep

-----------------------------------------------------------------------------
\* The prices of one report may be compared, whichever of their runs failed:
\* there is one for each settlement, all of the same kind, over the same state
\* and after the same transactions, so their difference is the nesting; a run
\* has the callees' gas in it once, by running them or from the trace, and not
\* at all in the net form, which has none; the flag callees_executed stands for
\* a replay that went through; and what the command line prices succeeded on
\* chain, and "measured via StateChangeHandler" is a run after the preceding
\* transactions.
PricesComparable ==
  rep.pc = "reported" =>
    /\ Len(rep.prices) = Settlements
    /\ \A i \in DOMAIN rep.prices :
         /\ rep.prices[i] = rep.prices[1]
         /\ rep.prices[i].by = "run" =>
              rep.prices[i].callees = (IF rep.tool = "wasm" /\ rep.input.api = "prestate" THEN 0 ELSE 1)
         /\ rep.label = "executed" <=> rep.prices[i].over = "prestate"
         /\ rep.label = "measured" => rep.prices[i] = RunOver("chain", <<"preceding">>)
    /\ rep.label = "executed" => ~rep.replay_error
    /\ rep.tool = "cli" => rep.input.status

-----------------------------------------------------------------------------
(* The inductive invariant behind PricesComparable. *)

\* One of two settlements has its price, obtained as the other will be.
HalfPriced ==
  /\ Settlements = 2
  /\ \/ OnTool("cli", "settle") /\ rep.prices = <<RunOver("chain", <<"preceding">>)>>
     \/ OnTool("wasm", "replay") /\ rep.prices = <<RunOver("prestate", <<>>)>>
     \/ OnTool("wasm", "price") /\ rep.prices = <<WithCallees(RunOver("seeded", <<>>))>>

Succeeded == {"preceding", "settle", "measure", "no_updates", "fallback"}

\* Past the extraction, the transaction is one that succeeded; the command
\* line's runs come after the preceding transactions; only a what-if settles
\* twice; past the parsing, the input is a trace or a tree; and a replay is
\* under way only while none has failed.
ReportInv ==
  /\ rep = [pc |-> rep.pc, tool |-> rep.tool, input |-> rep.input, prices |-> rep.prices,
            preceding |-> rep.preceding, replay_error |-> rep.replay_error, label |-> rep.label]
  /\ rep.tool \in {"cli", "wasm"}
  /\ rep.pc \in {"reported", "error"} \/ rep.prices = <<>> \/ HalfPriced
  /\ rep.tool = "cli" /\ rep.pc \in Succeeded => rep.input.status
  /\ rep.pc \in {"settle", "measure"} => rep.preceding
  /\ OnTool("cli", "settle") \/ OnTool("cli", "what_if") => Settlements = 2
  /\ rep.tool = "cli" /\ rep.pc \in {"anvil", "extract", "measure", "no_updates", "fallback"} => Settlements = 1
  /\ rep.tool = "wasm" /\ rep.pc \in {"replay", "price"} => rep.input.api \in {"trace", "tree"}
  /\ rep.pc \in {"start", "replay"} => ~rep.replay_error
  /\ PricesComparable
=============================================================================
