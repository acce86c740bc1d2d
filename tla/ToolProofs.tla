----------------------------- MODULE ToolProofs -----------------------------
(***************************************************************************)
(* Proofs about the tools that price one transaction: Report, the command  *)
(* line and the browser module, for every set of inputs; Fork, the anvil   *)
(* backend, for every block and any number of requests that fail; and      *)
(* Estimate, the RPC-backed database and the estimator that is put in      *)
(* place, for every chain and any requests that fail.                      *)
(***************************************************************************)
EXTENDS Report, Fork, Estimate, SequenceTheorems, TLAPS

\* A step that ends with no price, or goes on with none, or to what it may go on to.
LEMMA StopsInv == ReportInv /\ Stops => ReportInv'
BY DEF Stops, ReportInv, PricesComparable, OnTool, Succeeded

\* What holds of a step while there is no price.
LEMMA GoOnInv ==
  ASSUME ReportInv, NEW pc, pc \notin {"reported", "settle", "measure", "start", "replay"}, GoOn(pc),
         rep.prices = <<>>,
         rep.tool = "cli" /\ pc \in Succeeded => rep.input.status,
         rep.tool = "cli" /\ pc = "what_if" => Settlements = 2,
         rep.tool = "cli" /\ pc \in {"anvil", "extract", "no_updates", "fallback"} => Settlements = 1,
         rep.tool = "wasm" /\ pc = "price" => rep.input.api \in {"trace", "tree"}
  PROVE  ReportInv'
<1>1. /\ rep' = [pc |-> pc, tool |-> rep.tool, input |-> rep.input, prices |-> rep.prices,
                 preceding |-> rep.preceding, replay_error |-> rep.replay_error, label |-> rep.label]
      /\ rep.tool \in {"cli", "wasm"}
  BY DEF GoOn, ReportInv
<1>2. Settlements' = Settlements
  BY <1>1 DEF Settlements
<1> QED
  BY <1>1, <1>2 DEF ReportInv, PricesComparable, OnTool, Succeeded

\* What a price has to be for the report it is in: the same as the first, a run
\* with the callees' gas once, and named for what it is.
Sound(price, label) ==
  /\ price.by = "run" => price.callees = (IF rep.tool = "wasm" /\ rep.input.api = "prestate" THEN 0 ELSE 1)
  /\ label = "executed" <=> price.over = "prestate"
  /\ label = "measured" => price = RunOver("chain", <<"preceding">>)
  /\ label = "executed" => ~rep.replay_error
  /\ rep.tool = "cli" => rep.input.status

\* What a price does to the report.
LEMMA SaysRecord ==
  ASSUME ReportInv, NEW price, NEW label, Says(price, label)
  PROVE  rep' = [pc |-> IF Len(rep.prices) + 1 = Settlements THEN "reported" ELSE rep.pc,
                 tool |-> rep.tool, input |-> rep.input, prices |-> Append(rep.prices, price),
                 preceding |-> rep.preceding, replay_error |-> rep.replay_error, label |-> label]
<1> DEFINE pc == IF Len(rep.prices) + 1 = Settlements THEN "reported" ELSE rep.pc
           ps == Append(rep.prices, price)
<1>1. rep' = [rep EXCEPT !.pc = pc, !.prices = ps, !.label = label]
  BY DEF Says
<1>2. rep = [pc |-> rep.pc, tool |-> rep.tool, input |-> rep.input, prices |-> rep.prices,
             preceding |-> rep.preceding, replay_error |-> rep.replay_error, label |-> rep.label]
  BY DEF ReportInv
<1> HIDE DEF pc, ps
<1>3. rep' = [pc |-> pc, tool |-> rep.tool, input |-> rep.input, prices |-> ps,
              preceding |-> rep.preceding, replay_error |-> rep.replay_error, label |-> label]
  BY <1>1, <1>2
<1> QED
  BY <1>3 DEF pc, ps

\* The only price of a report.
LEMMA OnlyPrice ==
  ASSUME ReportInv, NEW price, NEW label, Says(price, label),
         rep.prices = <<>>, Settlements = 1, Sound(price, label)
  PROVE  ReportInv'
<1>0. Len(<<>>) = 0 /\ Append(<<>>, price) = <<price>>
  OBVIOUS
<1>1. rep' = [pc |-> "reported", tool |-> rep.tool, input |-> rep.input, prices |-> <<price>>,
              preceding |-> rep.preceding, replay_error |-> rep.replay_error, label |-> label]
  BY <1>0, SaysRecord
<1>2. Settlements' = 1
  BY <1>1 DEF Settlements
<1>3. rep.tool \in {"cli", "wasm"}
  BY DEF ReportInv
<1> QED
  BY <1>1, <1>2, <1>3 DEF ReportInv, PricesComparable, OnTool, Succeeded, Sound

\* The second of two, obtained as the first was.
LEMMA SecondPrice ==
  ASSUME ReportInv, NEW price, NEW label, Says(price, label),
         rep.prices = <<price>>, Settlements = 2, Sound(price, label)
  PROVE  ReportInv'
<1>0. Len(<<price>>) = 1 /\ Append(<<price>>, price) = <<price, price>>
  <2>1. <<price>> \in Seq({price}) /\ Len(<<price>>) = 1
    OBVIOUS
  <2>2. /\ Len(Append(<<price>>, price)) = 2 /\ Append(<<price>>, price)[1] = price
        /\ Append(<<price>>, price)[2] = price /\ Append(<<price>>, price) \in Seq({price})
    BY <2>1, AppendProperties
  <2>3. <<price, price>> \in Seq({price}) /\ Len(<<price, price>>) = 2
    OBVIOUS
  <2>4. \A i \in 1 .. 2 : Append(<<price>>, price)[i] = <<price, price>>[i]
    BY <2>2
  <2> QED
    BY <2>1, <2>2, <2>3, <2>4, SeqEqual
<1>1. rep' = [pc |-> "reported", tool |-> rep.tool, input |-> rep.input, prices |-> <<price, price>>,
              preceding |-> rep.preceding, replay_error |-> rep.replay_error, label |-> label]
  BY <1>0, SaysRecord
<1>2. Settlements' = 2
  BY <1>1 DEF Settlements
<1>3. rep.tool \in {"cli", "wasm"}
  BY DEF ReportInv
<1> QED
  BY <1>1, <1>2, <1>3 DEF ReportInv, PricesComparable, OnTool, Succeeded, Sound

\* The first of two.
LEMMA FirstPrice ==
  ASSUME ReportInv, NEW price, NEW label, Says(price, label), rep.prices = <<>>, Settlements = 2,
         \/ OnTool("cli", "settle") /\ price = RunOver("chain", <<"preceding">>)
         \/ OnTool("wasm", "replay") /\ price = RunOver("prestate", <<>>)
         \/ OnTool("wasm", "price") /\ price = WithCallees(RunOver("seeded", <<>>))
  PROVE  ReportInv'
<1>0. Len(<<>>) = 0 /\ Append(<<>>, price) = <<price>>
  OBVIOUS
<1>1. rep' = [pc |-> rep.pc, tool |-> rep.tool, input |-> rep.input, prices |-> <<price>>,
              preceding |-> rep.preceding, replay_error |-> rep.replay_error, label |-> label]
  BY <1>0, SaysRecord
<1>2. Settlements' = Settlements
  BY <1>1 DEF Settlements
<1> HIDE DEF RunOver
<1>3. HalfPriced'
  BY <1>1, <1>2 DEF HalfPriced, OnTool
<1> QED
  BY <1>1, <1>2, <1>3 DEF ReportInv, PricesComparable, OnTool, Succeeded

\* The prices the steps name, for the state they are taken in.
LEMMA PriceFacts ==
  /\ RunOver("chain", <<"preceding">>).by = "run" /\ RunOver("chain", <<"preceding">>).callees = 1
  /\ RunOver("chain", <<"preceding">>).over = "chain"
  /\ RunOver("fork", <<>>).callees = 1 /\ RunOver("fork", <<>>).over = "fork"
  /\ RunOver("prestate", <<>>).callees = 1 /\ RunOver("prestate", <<>>).over = "prestate"
  /\ RunOver("seeded", <<>>).callees = 0 /\ RunOver("seeded", <<>>).over = "seeded"
  /\ WithCallees(RunOver("seeded", <<>>)).callees = 1
  /\ WithCallees(RunOver("seeded", <<>>)).over = "seeded"
  /\ FromUpdates.by = "updates" /\ FromUpdates.over = "trace"
  /\ FromOperations.by = "opcodes" /\ FromOperations.over = "trace"
  /\ report_error_price.by = "nothing" /\ report_error_price.over = "trace"
BY DEF RunOver, WithCallees, FromUpdates, FromOperations, report_error_price, Unrun

\* Every step of the two tools keeps the invariant.
LEMMA ReportStep == ReportInv /\ [ReportNext]_rep => ReportInv'
<1> SUFFICES ASSUME ReportInv, ReportNext PROVE ReportInv'
  <2>1. ASSUME ReportInv, UNCHANGED rep PROVE ReportInv'
    <3>1. Settlements' = Settlements
      BY <2>1 DEF Settlements
    <3>2. HalfPriced' <=> HalfPriced
      BY <2>1, <3>1 DEF HalfPriced, OnTool
    <3>3. PricesComparable'
      BY <2>1, <3>1 DEF PricesComparable, ReportInv
    <3> QED
      BY <2>1, <3>1, <3>2, <3>3 DEF ReportInv, OnTool
  <2> QED
    BY <2>1
<1> USE StopsInv
<1> USE DEF OnTool
<1>0. /\ Settlements \in {1, 2}
      /\ rep.tool = "cli" => (Settlements = 2 <=> parse_args(rep.input) = "owned")
      /\ rep.tool = "wasm" => (Settlements = 2 <=> rep.input.api = "tree")
  BY DEF Settlements, ReportInv
<1>1. rep.pc \notin {"reported", "error", "settle", "replay", "price"} => rep.prices = <<>>
  BY DEF ReportInv, HalfPriced
<1>2. AfterPreceding = RunOver("chain", <<"preceding">>) \/ ~rep.preceding
  BY DEF AfterPreceding, ReportInv
<1>3. CASE execute_command
  BY <1>1, <1>3, GoOnInv DEF execute_command, Succeeded
<1>4. CASE FetchTransaction
  BY <1>0, <1>1, <1>4, GoOnInv DEF FetchTransaction, Succeeded
<1>5. CASE what_if_split
  BY <1>1, <1>5, GoOnInv DEF what_if_split, Succeeded
<1>6. CASE LoadPreceding
  <2> DEFINE pc == IF parse_args(rep.input) = "owned" THEN "settle" ELSE "measure"
  <2>0. SUFFICES ASSUME rep' = [rep EXCEPT !.preceding = TRUE, !.pc = pc] PROVE ReportInv'
    BY <1>6 DEF LoadPreceding
  <2>1. rep' = [pc |-> pc, tool |-> "cli", input |-> rep.input, prices |-> <<>>,
                preceding |-> TRUE, replay_error |-> rep.replay_error, label |-> rep.label]
    BY <1>1, <1>6, <2>0 DEF LoadPreceding, ReportInv
  <2>2. Settlements' = Settlements
    BY <1>6, <2>1 DEF Settlements, LoadPreceding
  <2>3. rep.input.status
    BY <1>6 DEF LoadPreceding, ReportInv, Succeeded
  <2>4. Settlements = (IF parse_args(rep.input) = "owned" THEN 2 ELSE 1)
    BY <1>0, <1>6 DEF LoadPreceding
  <2>5. pc \in {"settle", "measure"} /\ (pc = "settle" => Settlements = 2) /\ (pc = "measure" => Settlements = 1)
    BY <2>4
  <2> HIDE DEF pc
  <2>6. /\ rep'.pc = pc /\ rep'.tool = "cli" /\ rep'.input = rep.input /\ rep'.prices = <<>>
        /\ rep'.preceding = TRUE
        /\ rep' = [pc |-> rep'.pc, tool |-> rep'.tool, input |-> rep'.input, prices |-> rep'.prices,
                   preceding |-> rep'.preceding, replay_error |-> rep'.replay_error, label |-> rep'.label]
    BY <2>1
  <2>7. pc \notin {"reported", "error", "what_if", "anvil", "extract", "no_updates", "fallback", "start", "replay"}
    BY <2>5
  <2>8. PricesComparable'
    BY <2>6, <2>7 DEF PricesComparable
  <2> QED
    BY <2>2, <2>3, <2>5, <2>6, <2>7, <2>8 DEF ReportInv
<1>7. CASE what_if_run
  <2>1. rep.tool = "cli" /\ rep.pc = "settle" /\ Settlements = 2 /\ rep.preceding /\ rep.input.status
    BY <1>7 DEF what_if_run, ReportInv, Succeeded
  <2>2. AfterPreceding = RunOver("chain", <<"preceding">>)
    BY <1>2, <2>1
  <2>3. rep.prices = <<>> \/ rep.prices = <<AfterPreceding>>
    BY <2>1, <2>2 DEF ReportInv, HalfPriced
  <2>4. Sound(AfterPreceding, "what-if")
    BY <2>1, <2>2, PriceFacts DEF Sound
  <2> QED
    BY <1>7, <2>1, <2>2, <2>3, <2>4, FirstPrice, SecondPrice DEF what_if_run
<1>8. CASE RunAnvil
  <2> SUFFICES ASSUME NEW price \in {RunOver("fork", <<>>), report_error_price},
                      rep.input.status, Says(price, "measured via Anvil")
               PROVE  ReportInv'
    BY <1>8 DEF RunAnvil
  <2>1. Sound(price, "measured via Anvil")
    BY <1>8, PriceFacts DEF Sound, RunAnvil
  <2>2. Settlements = 1 /\ rep.prices = <<>>
    BY <1>1, <1>8 DEF RunAnvil, ReportInv
  <2> QED
    BY <2>1, <2>2, OnlyPrice
<1>9. CASE ExtractUpdates
  <2>1. Settlements = 1
    BY <1>9 DEF ExtractUpdates, ReportInv
  <2> QED
    BY <1>1, <1>9, <2>1, GoOnInv DEF ExtractUpdates, Succeeded
<1>10. CASE EstimateFromTrace
  <2> DEFINE label == IF rep.pc = "fallback" THEN "fallback" ELSE "heuristic"
  <2>1. Settlements = 1 /\ rep.prices = <<>> /\ rep.input.status /\ rep.tool = "cli"
    BY <1>1, <1>10 DEF EstimateFromTrace, ReportInv, Succeeded
  <2>2. Sound(FromOperations, label)
    BY <2>1, PriceFacts DEF Sound
  <2> QED
    BY <1>10, <2>1, <2>2, OnlyPrice DEF EstimateFromTrace
<1>11. CASE MeasureUpdates
  <2>1. Settlements = 1 /\ rep.prices = <<>> /\ rep.input.status /\ rep.tool = "cli" /\ rep.preceding
    BY <1>1, <1>11 DEF MeasureUpdates, ReportInv, Succeeded
  <2>2. Sound(AfterPreceding, "measured") /\ Sound(FromUpdates, "heuristic")
    BY <1>2, <2>1, PriceFacts DEF Sound
  <2> QED
    BY <1>11, <2>1, <2>2, OnlyPrice DEF MeasureUpdates
<1>12. CASE ParseTrace
  <2>1. rep.tool = "wasm" /\ rep.prices = <<>> /\ ~rep.replay_error
    BY <1>1, <1>12 DEF ParseTrace, ReportInv
  <2>2. CASE rep.input.api = "heuristic" /\ Says(FromUpdates, "heuristic")
    BY <1>0, <2>1, <2>2, PriceFacts, OnlyPrice DEF Sound
  <2>3. CASE rep.input.api \in {"trace", "tree"} /\ GoOn("price")
    BY <2>1, <2>3, GoOnInv DEF Succeeded
  <2>4. CASE rep.input.api \in {"trace", "tree"} /\ GoOn("replay")
    <3>1. rep' = [pc |-> "replay", tool |-> "wasm", input |-> rep.input, prices |-> <<>>,
                  preceding |-> rep.preceding, replay_error |-> rep.replay_error, label |-> rep.label]
      BY <2>1, <2>4 DEF GoOn, ReportInv
    <3> QED
      BY <2>1, <2>4, <3>1 DEF ReportInv, PricesComparable, Succeeded
  <2> QED
    BY <1>12, <2>2, <2>3, <2>4 DEF ParseTrace
<1>13. CASE ReplayPrestate
  <2> DEFINE price == RunOver("prestate", <<>>)
  <2>1. /\ rep.tool = "wasm" /\ rep.pc = "replay" /\ rep.input.api \in {"trace", "tree"}
        /\ ~rep.replay_error
    BY <1>13 DEF ReplayPrestate, ReportInv
  <2>2. rep.prices = <<>> \/ (rep.prices = <<price>> /\ Settlements = 2)
    BY <2>1 DEF ReportInv, HalfPriced
  <2>3. Sound(price, "executed")
    BY <2>1, PriceFacts DEF Sound
  <2>4. CASE Says(price, "executed")
    <3> HIDE DEF price
    <3>1. price = RunOver("prestate", <<>>)
      BY DEF price
    <3> QED
      BY <1>0, <2>1, <2>2, <2>3, <2>4, <3>1, OnlyPrice, FirstPrice, SecondPrice
  <2>5. CASE DiscardReplay
    <3>1. rep' = [pc |-> "price", tool |-> "wasm", input |-> rep.input, prices |-> <<>>,
                  preceding |-> rep.preceding, replay_error |-> TRUE, label |-> rep.label]
      BY <2>1, <2>5 DEF DiscardReplay, ReportInv
    <3> QED
      BY <2>1, <3>1 DEF ReportInv, PricesComparable, Succeeded
  <2> QED
    BY <1>13, <2>4, <2>5 DEF ReplayPrestate
<1>14. CASE PriceSeeded
  <2> DEFINE price == WithCallees(RunOver("seeded", <<>>))
  <2>1. rep.tool = "wasm" /\ rep.pc = "price" /\ rep.input.api \in {"trace", "tree"}
    BY <1>14 DEF PriceSeeded, ReportInv
  <2>2. rep.prices = <<>> \/ (rep.prices = <<price>> /\ Settlements = 2)
    BY <2>1 DEF ReportInv, HalfPriced
  <2>3. Sound(price, "simulated") /\ Sound(FromUpdates, "heuristic")
    BY <2>1, PriceFacts DEF Sound
  <2>4. CASE Says(price, "simulated")
    <3> HIDE DEF price
    <3>1. price = WithCallees(RunOver("seeded", <<>>))
      BY DEF price
    <3> QED
      BY <1>0, <2>1, <2>2, <2>3, <2>4, <3>1, OnlyPrice, FirstPrice, SecondPrice
  <2>5. CASE rep.input.api = "trace" /\ Says(FromUpdates, "heuristic")
    BY <1>0, <2>1, <2>2, <2>3, <2>5, OnlyPrice
  <2> QED
    BY <1>14, <2>4, <2>5 DEF PriceSeeded
<1>15. CASE analyze_prestate
  <2>1. rep.tool = "wasm" /\ rep.prices = <<>> /\ rep.input.api = "prestate" /\ Settlements = 1
    BY <1>0, <1>1, <1>15 DEF analyze_prestate
  <2>2. Sound(RunOver("seeded", <<>>), "simulated") /\ Sound(FromUpdates, "heuristic")
    BY <2>1, PriceFacts DEF Sound
  <2> QED
    BY <1>15, <2>1, <2>2, OnlyPrice DEF analyze_prestate
<1> QED
  BY <1>3, <1>4, <1>5, <1>6, <1>7, <1>8, <1>9, <1>10, <1>11, <1>12, <1>13, <1>14, <1>15 DEF ReportNext

\* Whichever runs of the command line or the browser module fail, the prices
\* they report together were obtained in the same way, the callees' gas is in
\* each run once, and a price is called measured or executed only for such a run.
THEOREM PricesAreComparable == ReportSpec => []PricesComparable
<1>1. ReportInit => ReportInv
  BY DEF ReportInit, Asked, ReportInv, PricesComparable, OnTool, Succeeded
<1>2. ReportInv => PricesComparable
  BY DEF ReportInv
<1> QED
  BY <1>1, <1>2, ReportStep, PTL DEF ReportSpec

-----------------------------------------------------------------------------
LEMMA ForkInitInv == ForkInit => ForkInv
<1> SUFFICES ASSUME ForkInit PROVE ForkInv
  OBVIOUS
<1>1. PICK B \in Blocks, one \in BOOLEAN :
        /\ receipts = (IF one THEN gas_estimate_tx(Head(B)) ELSE gas_estimate_block(B))
        /\ fork = Pristine(Forked(B))
        /\ gk = [pc |-> "next", at |-> 0, snapshot |-> fork, original |-> "none", one |-> one]
  BY DEF ForkInit
<1> DEFINE C == Forked(B)
           R == [to: C, gas: Nat, status: BOOLEAN, code: BOOLEAN, extracts: BOOLEAN]
<1>2. DOMAIN fork.code = C /\ fork \in ForkState(C)
  BY <1>1 DEF Pristine, ForkState
<1>3. receipts \in Seq(R)
  <2> DEFINE T == [to: C \cup {NoTarget}, gas: Nat, status: BOOLEAN, code: BOOLEAN, extracts: BOOLEAN]
  <2>a. B \in Seq(T) /\ B # <<>>
    BY ForkAssumption
  <2>1. \A r \in Range(B) : r.to # NoTarget => r \in R
    <3>1. \A r \in T : r.to # NoTarget => r \in R
      OBVIOUS
    <3> HIDE DEF T, R
    <3>2. Range(B) \subseteq T
      BY <2>a, LenProperties, ElementOfSeq DEF Range
    <3> QED
      BY <3>1, <3>2
  <2>2. gas_estimate_block(B) \in Seq(R)
    <3> DEFINE S == {r \in Range(B) : r.to # NoTarget}
    <3>1. gas_estimate_block(B) \in Seq(S)
      BY ForkAssumption
    <3>2. S \subseteq R
      BY <2>1
    <3> HIDE DEF S, R
    <3> QED
      BY <3>1, <3>2, SeqMonotonic
  <2>3. Head(B) \in Range(B)
    <3> HIDE DEF T
    <3>1. Head(B) = B[1] /\ 1 \in DOMAIN B
      BY <2>a
    <3> QED
      BY <3>1 DEF Range
  <2>4. gas_estimate_tx(Head(B)) \in Seq(R)
    <3>1. CASE Head(B).to # NoTarget
      <4>1. Head(B) \in R
        BY <2>1, <2>3, <3>1
      <4> HIDE DEF R
      <4>2. <<>> \in Seq(R) /\ <<Head(B)>> \in Seq(R)
        BY <4>1
      <4> QED
        BY <4>2 DEF gas_estimate_tx
    <3>2. CASE Head(B).to = NoTarget
      BY <3>2 DEF gas_estimate_tx, invokes_smart_contract
    <3> QED
      BY <3>1, <3>2
  <2> QED
    BY <1>1, <2>2, <2>4
<1>a. one => Len(receipts) <= 1
  BY <1>1 DEF gas_estimate_tx
<1>b. Len(receipts) \in Nat
  BY <1>3, LenProperties
<1>c. gk \in Progress(C)
  <2>1. gk \in [pc: OutsideSteps \cup InsideSteps, at: 0 .. Len(receipts), snapshot: ForkState(C),
               original: C \cup {"estimator", "none"}, one: BOOLEAN]
    BY <1>1, <1>2, <1>b DEF OutsideSteps
  <2>2. (gk.one => Len(receipts) <= 1) /\ (gk.pc = "error" => gk.one)
    BY <1>1, <1>a
  <2> QED
    BY <2>1, <2>2 DEF Progress
<1>4. ForkTypeOK
  BY <1>2, <1>3, <1>c DEF ForkInit, ForkTypeOK
<1>5. ReportsInOrder
  BY <1>1 DEF ForkInit, ReportsInOrder, InStep
<1>6. ForkAsLeft
  BY <1>1, <1>2 DEF ForkInit, ForkAsLeft, Clean, Pristine, InsideSteps
<1> QED
  BY <1>4, <1>5, <1>6 DEF ForkInv

\* The contracts of the block, and the receipt being priced.
LEMMA ReceiptType ==
  ASSUME ForkInv, gk.pc # "next"
  PROVE  /\ gk.at \in 1 .. Len(receipts) /\ Len(reports) = gk.at - 1
         /\ receipt.to \in DOMAIN fork.code
         /\ receipt.status \in BOOLEAN /\ receipt.extracts \in BOOLEAN
<1>1. Len(receipts) \in Nat /\ Len(reports) \in Nat /\ gk.at \in 0 .. Len(receipts)
  BY LenProperties DEF ForkInv, ForkTypeOK, Progress
<1>2. gk.at \in 1 .. Len(receipts) /\ Len(reports) = gk.at - 1
  BY <1>1 DEF ForkInv, ReportsInOrder, InStep
<1> DEFINE R == [to: DOMAIN fork.code, gas: Nat, status: BOOLEAN, code: BOOLEAN, extracts: BOOLEAN]
<1>3. receipts \in Seq(R)
  BY DEF ForkInv, ForkTypeOK
<1>4. receipt \in R
  <2> HIDE DEF R
  <2> QED
    BY <1>2, <1>3, ElementOfSeq DEF receipt
<1> QED
  BY <1>2, <1>4

\* A report is added for the receipt at gk.at, and the next one is due.
LEMMA Reported ==
  ASSUME ForkInv, gk.pc # "next", NEW r,
         r \in [at: {gk.at}, gas: {"none", "measured"}, selector: BOOLEAN,
                behind: (DOMAIN fork.code) \cup {"estimator", "none"}],
         r.gas = "measured" => receipt.status /\ (receipt.to \notin dirty' => r.behind = receipt.to),
         reports' = Append(reports, r), receipts' = receipts, dirty \subseteq dirty',
         gk' = [gk EXCEPT !.pc = "next"]
  PROVE  ReportsInOrder'
<1>1. gk.at \in 1 .. Len(receipts) /\ Len(reports) = gk.at - 1
  BY ReceiptType
<1>2. /\ Len(reports') = gk.at /\ DOMAIN reports' = 1 .. gk.at /\ reports'[gk.at] = r
      /\ \A i \in 1 .. (gk.at - 1) : reports'[i] = reports[i]
  BY <1>1, AppendProperties, LenProperties DEF ForkInv, ForkTypeOK
<1>3. gk'.pc = "next" /\ gk'.at = gk.at
  BY DEF ForkInv, ForkTypeOK
<1>4. \A i \in DOMAIN reports' : i = gk.at \/ (i \in 1 .. (gk.at - 1) /\ i \in DOMAIN reports)
  BY <1>1, <1>2, LenProperties DEF ForkInv, ForkTypeOK
<1> QED
  BY <1>1, <1>2, <1>3, <1>4, LenProperties DEF ReportsInOrder, InStep, ForkInv, receipt

\* Every request of the anvil backend keeps the invariant.
LEMMA ForkStep == ForkInv /\ [ForkNext]_forkVars => ForkInv'
<1> SUFFICES ASSUME ForkInv, [ForkNext]_forkVars PROVE ForkInv'
  OBVIOUS
<1> USE DEF InStep, Then
<1> DEFINE C == DOMAIN fork.code
<1>1. /\ gk \in [pc: OutsideSteps \cup InsideSteps, at: 0 .. Len(receipts), snapshot: ForkState(C),
                original: C \cup {"estimator", "none"}, one: BOOLEAN]
      /\ (gk.one => Len(receipts) <= 1) /\ (gk.pc = "error" => gk.one)
      /\ fork \in ForkState(C) /\ Len(receipts) \in Nat /\ fork_faults \in Nat
      /\ dirty \subseteq C
  BY LenProperties DEF ForkInv, ForkTypeOK, Progress
<1>2. gk.pc # "next" => /\ gk.at \in 1 .. Len(receipts) /\ receipt.to \in C
                        /\ receipt.status \in BOOLEAN
  BY ReceiptType
<1> DEFINE Gk == {g \in [pc: OutsideSteps \cup InsideSteps, at: 0 .. Len(receipts), snapshot: ForkState(C),
                         original: C \cup {"estimator", "none"}, one: BOOLEAN] :
                    (g.one => Len(receipts) <= 1) /\ (g.pc = "error" => g.one)}
<1>3. ASSUME fork' \in ForkState(C) PROVE DOMAIN fork'.code = C
  BY <1>3 DEF ForkState
<1>a. ForkFault => fork_faults' \in Nat /\ fork_faults' # 0
  BY <1>1 DEF ForkFault
<1>4. CASE TakeReceipt
  <2>a. gk.at + 1 \in 0 .. Len(receipts)
    BY <1>1, <1>4 DEF TakeReceipt
  <2>b. gk' = [gk EXCEPT !.pc = "selector", !.at = gk.at + 1]
    BY <1>4 DEF TakeReceipt
  <2>1. gk' \in Gk /\ gk'.pc = "selector" /\ gk'.at = gk.at + 1
    BY <1>1, <2>a, <2>b DEF OutsideSteps
  <2>2. ForkTypeOK'
    BY <1>4, <2>1 DEF TakeReceipt, ForkInv, ForkTypeOK, Progress
  <2>3. ReportsInOrder'
    BY <1>1, <1>4, <2>1 DEF TakeReceipt, ForkInv, ReportsInOrder
  <2>4. ForkAsLeft'
    BY <1>4, <2>1 DEF TakeReceipt, ForkInv, ForkAsLeft, OutsideSteps, InsideSteps, Clean
  <2> QED
    BY <2>2, <2>3, <2>4 DEF ForkInv
\* A step of the estimate that reports nothing.
<1>5. ASSUME UNCHANGED <<receipts, reports, dirty, fork_faults>>, gk.pc # "next", gk' \in Gk,
             gk'.pc # "next", gk'.at = gk.at, fork' \in ForkState(C), ForkAsLeft'
      PROVE  ForkInv'
  <2>1. ForkTypeOK'
    BY <1>3, <1>5 DEF ForkInv, ForkTypeOK, Progress
  <2>2. ReportsInOrder'
    BY <1>5 DEF ForkInv, ReportsInOrder
  <2> QED
    BY <1>5, <2>1, <2>2 DEF ForkInv
\* A step that ends the estimate with a report.
<1>6. ASSUME receipts' = receipts, gk.pc # "next", gk' = [gk EXCEPT !.pc = "next"],
             NEW r, reports' = Append(reports, r),
             r \in [at: {gk.at}, gas: {"none", "measured"}, selector: BOOLEAN,
                    behind: C \cup {"estimator", "none"}],
             r.gas = "measured" => receipt.status /\ (receipt.to \notin dirty' => r.behind = receipt.to),
             dirty \subseteq dirty', dirty' \subseteq C, fork_faults' \in Nat,
             fork' \in ForkState(C), Clean(fork)'
      PROVE  ForkInv'
  <2>1. ReportsInOrder'
    BY <1>6, Reported
  <2>2. gk' \in Gk /\ gk'.pc = "next"
    BY <1>1, <1>6 DEF OutsideSteps
  <2> DEFINE Reps == [at: Nat, gas: {"none", "measured"}, selector: BOOLEAN,
                      behind: C \cup {"estimator", "none"}]
  <2>3. r \in Reps /\ reports \in Seq(Reps)
    BY <1>1, <1>6 DEF ForkInv, ForkTypeOK
  <2>4. reports' \in Seq(Reps)
    <3> HIDE DEF Reps
    <3> QED
      BY <1>6, <2>3, AppendProperties
  <2>5. ForkTypeOK'
    BY <1>3, <1>6, <2>2, <2>4 DEF ForkInv, ForkTypeOK, Progress
  <2>6. ForkAsLeft'
    BY <1>6, <2>2 DEF ForkAsLeft, InsideSteps
  <2> QED
    BY <2>1, <2>5, <2>6 DEF ForkInv
<1>7. CASE UNCHANGED forkVars
  BY <1>7 DEF forkVars, ForkInv, ForkTypeOK, Progress, ReportsInOrder, ForkAsLeft, Clean, receipt
\* A failed request outside the estimate: nothing has been done to the fork.
<1>8. ASSUME NEW sel \in BOOLEAN, report_error(sel), gk.pc \in {"selector", "trace"},
             UNCHANGED <<receipts, fork, dirty>>, fork_faults' \in Nat,
             fork_faults' = 0 => fork_faults = 0
      PROVE  ForkInv'
  <2>1. Clean(fork)'
    BY <1>8 DEF ForkInv, ForkAsLeft, OutsideSteps, Clean
  <2> QED
    BY <1>1, <1>6, <1>8, <2>1 DEF report_error
<1>9. CASE FetchSelector
  <2>1. CASE Then("trace") /\ UNCHANGED <<reports, fork_faults>>
    <3>1. gk' \in Gk /\ gk'.pc = "trace" /\ gk'.at = gk.at /\ gk.pc = "selector"
      BY <1>1, <1>9, <2>1 DEF FetchSelector, OutsideSteps
    <3>2. ForkAsLeft'
      BY <1>9, <3>1, <2>1 DEF FetchSelector, ForkInv, ForkAsLeft, OutsideSteps, InsideSteps, Clean
    <3> QED
      BY <1>1, <1>5, <1>9, <2>1, <3>1, <3>2 DEF FetchSelector
  <2>2. CASE ForkFault /\ report_error(FALSE)
    BY <1>8, <1>9, <1>a, <2>2 DEF FetchSelector
  <2>3. CASE ForkFault /\ gk.one /\ Then("error") /\ UNCHANGED reports
    <3>1. /\ gk.pc = "selector" /\ gk' = [gk EXCEPT !.pc = "error"]
          /\ UNCHANGED <<receipts, reports, fork, dirty>>
      BY <1>9, <2>3 DEF FetchSelector
    <3>2. gk' \in Gk /\ gk'.pc = "error" /\ gk'.at = gk.at
      BY <1>1, <2>3, <3>1 DEF OutsideSteps
    <3>3. ForkTypeOK'
      BY <1>a, <2>3, <3>1, <3>2 DEF ForkInv, ForkTypeOK, Progress
    <3>4. ReportsInOrder'
      BY <3>1, <3>2 DEF ForkInv, ReportsInOrder
    <3>5. ForkAsLeft'
      BY <1>a, <2>3, <3>1, <3>2 DEF ForkInv, ForkAsLeft, OutsideSteps, InsideSteps, Clean
    <3> QED
      BY <3>3, <3>4, <3>5 DEF ForkInv
  <2> QED
    BY <1>9, <2>1, <2>2, <2>3 DEF FetchSelector
<1>10. CASE GaskillerReporter
  <2>1. CASE receipt.status /\ receipt.extracts /\ Then("snapshot") /\ UNCHANGED <<reports, fork_faults>>
    <3>1. gk' \in Gk /\ gk'.pc = "snapshot" /\ gk'.at = gk.at /\ gk.pc = "trace"
      BY <1>1, <1>10, <2>1 DEF GaskillerReporter, OutsideSteps
    <3>2. ForkAsLeft'
      BY <1>10, <3>1, <2>1 DEF GaskillerReporter, ForkInv, ForkAsLeft, OutsideSteps, InsideSteps, Clean, receipt
    <3> QED
      BY <1>1, <1>5, <1>10, <2>1, <3>1, <3>2 DEF GaskillerReporter
  <2>2. CASE report_error(TRUE) /\ UNCHANGED fork_faults
    BY <1>1, <1>8, <1>10, <2>2 DEF GaskillerReporter
  <2>3. CASE ForkFault /\ report_error(TRUE)
    BY <1>8, <1>10, <1>a, <2>3 DEF GaskillerReporter
  <2> QED
    BY <1>10, <2>1, <2>2, <2>3 DEF GaskillerReporter
<1>11. CASE Snapshot
  <2>1. gk' \in Gk /\ gk'.pc = "read" /\ gk'.at = gk.at /\ gk.pc = "snapshot" /\ gk'.snapshot = fork
    BY <1>1, <1>11 DEF Snapshot, InsideSteps
  <2>2. ForkAsLeft'
    BY <1>11, <2>1 DEF Snapshot, ForkInv, ForkAsLeft, OutsideSteps, InsideSteps, Clean, receipt
  <2> QED
    BY <1>1, <1>5, <1>11, <2>1, <2>2 DEF Snapshot
<1>12. CASE ReadOriginal
  <2>1. fork.code[receipt.to] \in C \cup {"estimator", "none"}
    BY <1>1, <1>2, <1>12 DEF ReadOriginal, ForkState
  <2>2. /\ gk' \in Gk /\ gk'.pc = "backup" /\ gk'.at = gk.at /\ gk.pc = "read"
        /\ gk'.snapshot = gk.snapshot /\ gk'.original = fork.code[receipt.to]
    BY <1>1, <1>12, <2>1 DEF ReadOriginal, InsideSteps
  <2>3. ForkAsLeft'
    BY <1>12, <2>2 DEF ReadOriginal, ForkInv, ForkAsLeft, OutsideSteps, InsideSteps, Clean, receipt
  <2> QED
    BY <1>1, <1>5, <1>12, <2>2, <2>3 DEF ReadOriginal
\* A request that does something to the fork.
<1>13. ASSUME NEW pc \in InsideSteps, NEW pc2 \in InsideSteps, NEW f \in ForkState(C),
              ForkRequest(pc, pc2, f), ForkAsLeft'
       PROVE  ForkInv'
  <2>1. gk' \in Gk /\ gk'.pc # "next" /\ gk.pc # "next" /\ gk'.at = gk.at
    BY <1>1, <1>13 DEF ForkRequest, InsideSteps
  <2> QED
    BY <1>5, <1>13, <2>1 DEF ForkRequest
<1>14. ASSUME NEW pc \in InsideSteps, gk.pc = pc, NEW pc2 \in InsideSteps, Then(pc2)
       PROVE  gk'.pc = pc2 /\ gk'.at = gk.at /\ gk'.snapshot = gk.snapshot /\ gk'.original = gk.original
  BY <1>1, <1>14
<1>15. CASE StashOriginal
  <2>1. [fork EXCEPT !.backup = gk.original] \in ForkState(C)
    BY <1>1 DEF ForkState
  <2>2. /\ gk.pc = "backup" /\ gk'.pc = "inject" /\ gk'.at = gk.at
        /\ gk'.snapshot = gk.snapshot /\ gk'.original = gk.original
    BY <1>14, <1>15 DEF StashOriginal, ForkRequest, InsideSteps
  <2>3. fork'.code = fork.code /\ fork'.backup = gk.original
    BY <1>1, <1>15 DEF StashOriginal, ForkRequest, ForkState
  <2>4. ForkAsLeft'
    BY <1>15, <2>2, <2>3 DEF StashOriginal, ForkRequest, ForkInv, ForkAsLeft, OutsideSteps, InsideSteps, Clean, receipt
  <2> QED
    BY <1>13, <1>15, <2>1, <2>4 DEF StashOriginal, InsideSteps
<1>16. CASE InjectEstimator
  <2>1. [fork EXCEPT !.code[receipt.to] = "estimator"] \in ForkState(C)
    BY <1>1 DEF ForkState
  <2>2. /\ gk.pc = "inject" /\ gk'.pc = "slot" /\ gk'.at = gk.at
        /\ gk'.snapshot = gk.snapshot /\ gk'.original = gk.original
    BY <1>14, <1>16 DEF InjectEstimator, ForkRequest, InsideSteps
  <2>3. fork'.code = [fork.code EXCEPT ![receipt.to] = "estimator"] /\ fork'.backup = fork.backup
    BY <1>1, <1>16 DEF InjectEstimator, ForkRequest, ForkState
  <2>4. DOMAIN fork'.code = C /\ receipt.to \in C
    BY <1>2, <2>2, <2>3
  <2>5. ForkAsLeft'
    BY <1>16, <2>2, <2>3, <2>4 DEF InjectEstimator, ForkRequest, ForkInv, ForkAsLeft, OutsideSteps, InsideSteps, Clean, receipt
  <2> QED
    BY <1>13, <1>16, <2>1, <2>5 DEF InjectEstimator, InsideSteps
<1>17. CASE SetImplSlot
  <2>1. [fork EXCEPT !.impl = @ \cup {receipt.to}] \in ForkState(C)
    BY <1>1, <1>2, <1>17 DEF ForkState, SetImplSlot, ForkRequest
  <2>2. /\ gk.pc = "slot" /\ gk'.pc = "send" /\ gk'.at = gk.at
        /\ gk'.snapshot = gk.snapshot /\ gk'.original = gk.original
    BY <1>14, <1>17 DEF SetImplSlot, ForkRequest, InsideSteps
  <2>3. fork'.code = fork.code /\ fork'.backup = fork.backup
    BY <1>1, <1>17 DEF SetImplSlot, ForkRequest, ForkState
  <2>4. ForkAsLeft'
    BY <1>17, <2>2, <2>3 DEF SetImplSlot, ForkRequest, ForkInv, ForkAsLeft, OutsideSteps, InsideSteps, Clean, receipt
  <2> QED
    BY <1>13, <1>17, <2>1, <2>4 DEF SetImplSlot, InsideSteps
<1>18. CASE SendProgram
  <2> DEFINE mined == [fork EXCEPT !.number = @ + 1]
  <2>1. mined \in ForkState(C) /\ mined.code = fork.code /\ mined.backup = fork.backup
    BY <1>1 DEF ForkState
  <2>2. gk.pc = "send" /\ fork' = mined /\ receipts' = receipts
    BY <1>18 DEF SendProgram
  <2> HIDE DEF mined
  <2>3. CASE Then("mined") /\ UNCHANGED <<reports, dirty, fork_faults>>
    <3>1. gk'.pc = "mined" /\ gk'.at = gk.at /\ gk'.snapshot = gk.snapshot /\ gk'.original = gk.original
      BY <1>14, <2>2, <2>3 DEF InsideSteps
    <3>2. ForkAsLeft'
      BY <2>1, <2>2, <2>3, <3>1 DEF ForkInv, ForkAsLeft, OutsideSteps, InsideSteps, Clean, receipt
    <3>3. ForkRequest("send", "mined", mined)
      BY <2>2, <2>3 DEF ForkRequest
    <3> QED
      BY <1>13, <2>1, <3>2, <3>3 DEF InsideSteps
  <2>4. CASE ForkFault /\ report_error(TRUE) /\ dirty' = dirty \cup {receipt.to}
    <3>1. Clean(fork)'
      BY <1>a, <2>1, <2>2, <2>4 DEF ForkInv, ForkAsLeft, InsideSteps, Clean
    <3> QED
      BY <1>1, <1>2, <1>6, <1>a, <2>1, <2>2, <2>4, <3>1 DEF report_error
  <2> QED
    BY <1>18, <2>3, <2>4 DEF SendProgram
<1>19. CASE GetReceipt
  <2>1. /\ gk.pc = "mined" /\ gk'.pc = "restore" /\ gk'.at = gk.at
        /\ gk'.snapshot = gk.snapshot /\ gk'.original = gk.original
    BY <1>14, <1>19 DEF GetReceipt, ForkRequest, InsideSteps
  <2>2. ForkAsLeft'
    BY <1>19, <2>1 DEF GetReceipt, ForkRequest, ForkInv, ForkAsLeft, OutsideSteps, InsideSteps, Clean, receipt
  <2> QED
    BY <1>1, <1>13, <1>19, <2>2 DEF GetReceipt, InsideSteps
<1>20. CASE RestoreOriginal
  <2>1. /\ gk.pc = "restore" /\ gk'.pc = "revert" /\ gk'.at = gk.at
        /\ gk'.snapshot = gk.snapshot /\ gk'.original = gk.original
    BY <1>14, <1>20 DEF RestoreOriginal, ForkRequest, InsideSteps
  <2>2. gk.original = gk.snapshot.code[receipt.to] /\ receipt.to \in C
    BY <1>2, <2>1 DEF ForkInv, ForkAsLeft, InsideSteps
  <2>3. gk.original \in C \cup {"estimator"}
    BY <1>1, <2>2 DEF ForkState
  <2>4. [fork EXCEPT !.code[receipt.to] = gk.original] \in ForkState(C)
    BY <1>1, <2>3 DEF ForkState
  <2>5. fork'.code = [fork.code EXCEPT ![receipt.to] = gk.original] /\ fork'.backup = fork.backup
    BY <1>1, <1>20 DEF RestoreOriginal, ForkRequest, ForkState
  <2>a. UNCHANGED <<receipts, dirty, fork_faults>>
    BY <1>20, <2>1 DEF RestoreOriginal, ForkRequest
  <2>b. receipt' = receipt /\ DOMAIN fork'.code = DOMAIN fork.code
    BY <1>1, <2>1, <2>5, <2>a DEF receipt
  <2>c. /\ Clean(gk.snapshot) /\ receipt.status /\ fork.backup = gk.original
        /\ \A c \in DOMAIN fork.code : c # receipt.to => fork.code[c] = gk.snapshot.code[c]
    BY <2>1 DEF ForkInv, ForkAsLeft, InsideSteps
  <2>d. Clean(gk.snapshot)'
    BY <2>1, <2>a, <2>b, <2>c DEF Clean
  <2>6. ForkAsLeft'
    BY <1>1, <2>1, <2>2, <2>5, <2>b, <2>c, <2>d DEF ForkAsLeft, OutsideSteps, InsideSteps
  <2> QED
    BY <1>13, <1>20, <2>4, <2>6 DEF RestoreOriginal, InsideSteps
<1>21. CASE RevertSnapshot
  <2>1. gk.pc = "revert" /\ fork' = gk.snapshot /\ UNCHANGED <<receipts, dirty>>
    BY <1>21 DEF RevertSnapshot, Reverted
  <2>2. fork_faults' \in Nat /\ (fork_faults' = 0 => fork_faults = 0)
    BY <1>1, <1>a, <1>21 DEF RevertSnapshot
  <2>3. Clean(fork)'
    BY <1>1, <2>1, <2>2 DEF ForkInv, ForkAsLeft, InsideSteps, Clean, ForkState
  <2>4. fork.backup = gk.snapshot.code[receipt.to] /\ receipt.status /\ Clean(gk.snapshot)
    BY <2>1 DEF ForkInv, ForkAsLeft, InsideSteps
  <2>5. receipt.to \notin dirty => fork.backup = receipt.to
    BY <1>2, <2>1, <2>4 DEF Clean
  <2>6. fork.backup \in C \cup {"estimator", "none"}
    BY <1>1 DEF ForkState
  <2>7. CASE report_error(TRUE)
    BY <1>1, <1>6, <2>1, <2>2, <2>3, <2>7 DEF report_error
  <2>8. CASE /\ reports' = Append(reports, [at |-> gk.at, gas |-> "measured", selector |-> TRUE,
                                            behind |-> fork.backup])
             /\ Then("next")
    BY <1>1, <1>6, <2>1, <2>2, <2>3, <2>4, <2>5, <2>6, <2>8
  <2> QED
    BY <1>21, <2>7, <2>8 DEF RevertSnapshot
<1>22. CASE EstimateFails
  <2>1. gk.pc \in {"snapshot"} \cup InsideSteps
    BY <1>22 DEF EstimateFails, Steps, Range, InsideSteps
  <2>2. dirty \subseteq dirty' /\ dirty' \subseteq C /\ UNCHANGED <<receipts, fork>>
    BY <1>1, <1>2, <1>22, <2>1 DEF EstimateFails, InsideSteps
  <2>3. Clean(fork)'
    BY <1>a, <1>22, <2>1, <2>2 DEF EstimateFails, ForkInv, ForkAsLeft, OutsideSteps, InsideSteps, Clean
  <2> QED
    BY <1>1, <1>6, <1>a, <1>22, <2>1, <2>2, <2>3 DEF EstimateFails, report_error, InsideSteps
<1> QED
  BY <1>4, <1>7, <1>9, <1>10, <1>11, <1>12, <1>15, <1>16, <1>17, <1>18, <1>19, <1>20, <1>21, <1>22 DEF ForkNext

\* The transactions of a block are priced on one fork, each as if it were the
\* first, whichever requests fail: estimate_state_changes_gas cleans up.
THEOREM EstimatesAreIsolated == ForkSpec => []EstimatesIsolated
<1>1. ASSUME ForkInv PROVE InStep("error") => gk.one /\ reports = <<>>
  <2>1. ASSUME InStep("error") PROVE gk.one /\ reports = <<>>
    <3>1. gk.one /\ Len(receipts) <= 1
      BY <1>1, <2>1 DEF ForkInv, ForkTypeOK, Progress, InStep
    <3>2. gk.at \in 1 .. Len(receipts) /\ Len(reports) = gk.at - 1 /\ Len(receipts) \in Nat
      BY <1>1, <2>1, ReceiptType, LenProperties DEF InStep, ForkInv, ForkTypeOK
    <3>3. Len(reports) = 0
      BY <3>1, <3>2
    <3> QED
      BY <1>1, <3>1, <3>3, EmptySeq DEF ForkInv, ForkTypeOK
  <2> QED
    BY <2>1
<1>2. ForkInv => EstimatesIsolated
  BY <1>1 DEF ForkInv, ReportsInOrder, ForkAsLeft, Clean, EstimatesIsolated, InStep, OutsideSteps
<1> QED
  BY <1>2, ForkInitInv, ForkStep, PTL DEF ForkSpec

-----------------------------------------------------------------------------
(* Estimate: the cache. *)

\* What the endpoint answers of an account is the account, by proof or without.
LEMMA FetchedIsChain ==
  ASSUME NEW a \in Address, NEW hash \in ProofHashes(a), NEW code \in {{}, {CodeOf(a)}}
  PROVE  /\ try_fetch_with_proof(a, hash, code) \subseteq {InfoOf(a)}
         /\ \A lacks \in BOOLEAN : fetch_account(a, hash, code, lacks) \subseteq {InfoOf(a)}
<1>1. proof_code_hash(hash) = CodeOf(a)
  BY EstimateAssumption DEF ProofHashes, CodeOf, proof_code_hash
<1>2. try_fetch_with_proof(a, hash, code) \subseteq {InfoOf(a)}
  BY <1>1 DEF try_fetch_with_proof, InfoOf
<1>3. fetch_account_parallel(a, code) \subseteq {InfoOf(a)}
  BY DEF fetch_account_parallel, InfoOf
<1> QED
  BY <1>2, <1>3 DEF fetch_account

\* A read that has a default for its errors: what the cache holds, or the chain's
\* account, or the error is on record.
LEMMA BasicIsChain ==
  ASSUME NEW a \in Address, NEW read \in BasicOrDefault(a)
  PROVE  /\ accounts[a] # {} => read.info \in accounts[a] /\ ~read.fails
         /\ accounts[a] = {} /\ ~read.fails => read.info = InfoOf(a)
<1>1. CASE accounts[a] # {}
  <2>1. PICK x \in accounts[a] : read = [info |-> x, fails |-> FALSE, lacks |-> FALSE]
    BY <1>1 DEF BasicOrDefault
  <2> QED
    BY <1>1, <2>1
<1>2. CASE accounts[a] = {}
  <2>1. PICK hash \in ProofHashes(a), fails \in BOOLEAN, lacks \in BOOLEAN :
          read \in {[info |-> x, fails |-> fails, lacks |-> lacks]
                    : x \in IF fails THEN {NoAccount} ELSE fetch_account(a, hash, {CodeOf(a)}, lacks)}
    BY <1>2 DEF BasicOrDefault
  <2>2. PICK x \in IF fails THEN {NoAccount} ELSE fetch_account(a, hash, {CodeOf(a)}, lacks) :
          read = [info |-> x, fails |-> fails, lacks |-> lacks]
    BY <2>1
  <2>3. ~fails => x = InfoOf(a)
    BY <2>2, FetchedIsChain
  <2> QED
    BY <1>2, <2>2, <2>3
<1> QED
  BY <1>1, <1>2

\* Every step keeps the cache truthful.
LEMMA EstimateStep == EstimateInv /\ [EstimateNext]_estVars => EstimateInv'
<1> SUFFICES ASSUME EstimateInv, [EstimateNext]_estVars PROVE EstimateInv'
  OBVIOUS
<1> DEFINE Step == {"start", "prefetch", "replay", "inject", "run", "done", "failed"}
           Early == {"start", "prefetch", "replay"}
           EstOK(e) == e \in [pc: Step, tree: Trees, replayed: Nat]
           MayLack(e) == {e.tree[i].target : i \in DOMAIN e.tree} \cup {Caller}
           Stand(a, f) == [code |-> "estimator", funds |-> f,
                           hash |-> IF CodeOf(a) = "empty" THEN "estimator" ELSE CodeOf(a)]
           Truthful(a, acc, bak, unr) ==
             /\ bak # {} => acc # {}
             /\ a \notin unr =>
                  /\ bak = {} => acc \subseteq {InfoOf(a)}
                  /\ bak # {} => bak = {CodeOf(a)} /\ acc = {Stand(a, FundsOf(a))}
<1> USE DEF dbVars, runVars
<1>1. /\ EstOK(est) /\ DOMAIN accounts = Address /\ DOMAIN backups = Address
      /\ est.pc \in Early => \A a \in Address : backups[a] = {}
      /\ unread \subseteq MayLack(est)
      /\ \A a \in Address : Truthful(a, accounts[a], backups[a], unread)
  BY DEF EstimateInv, CacheTruthful, Targets
<1>2. ASSUME /\ EstOK(est') /\ DOMAIN accounts' = Address /\ DOMAIN backups' = Address
             /\ est'.pc \in Early => \A a \in Address : backups'[a] = {}
             /\ unread' \subseteq MayLack(est')
             /\ \A a \in Address : Truthful(a, accounts'[a], backups'[a], unread')
      PROVE  EstimateInv'
  BY <1>2 DEF EstimateInv, CacheTruthful, Targets
<1>3. ASSUME NEW e, EstOK(e), NEW p \in Step
      PROVE  EstOK([e EXCEPT !.pc = p]) /\ MayLack([e EXCEPT !.pc = p]) = MayLack(e)
  BY <1>3
<1>4. ASSUME NEW e, EstOK(e), NEW p \in Step PROVE [e EXCEPT !.pc = p].pc = p
  BY <1>4
<1>5. ASSUME NEW e, EstOK(e)
      PROVE  /\ EstOK([e EXCEPT !.replayed = @ + 1]) /\ [e EXCEPT !.replayed = @ + 1].pc = e.pc
             /\ MayLack([e EXCEPT !.replayed = @ + 1]) = MayLack(e)
  BY <1>5
<1>6. est.pc \in Step
  BY <1>1
<1>a. Caller \in MayLack(est) /\ \A a \in ToInject : a \in MayLack(est)
  BY DEF ToInject, Targets
<1> HIDE DEF EstOK, Truthful, MayLack, Stand
<1>7. ASSUME UNCHANGED <<accounts, backups, unread>>, EstOK(est'), est'.pc \in Early => est.pc \in Early,
             MayLack(est') = MayLack(est)
      PROVE  EstimateInv'
  BY <1>1, <1>2, <1>7
<1>8. ASSUME NEW p \in Step, est' = [est EXCEPT !.pc = p], p \in Early => est.pc \in Early,
             UNCHANGED <<accounts, backups, unread>>
      PROVE  EstimateInv'
  BY <1>1, <1>3, <1>4, <1>7, <1>8
<1>9. CASE PrefetchStarts \/ PrefetchEnds \/ ReplayEnds \/ ReplayFails \/ InjectEnds
  BY <1>8, <1>9 DEF PrefetchStarts, PrefetchEnds, ReplayEnds, ReplayFails, InjectEnds
<1>10. CASE replay_preceding_transactions
  BY <1>1, <1>5, <1>7, <1>10 DEF replay_preceding_transactions
<1>11. CASE RunToChild \/ RunToEnd \/ PieceFails
  <2>1. /\ est.pc = "run" /\ TopUp
        /\ est' = est \/ \E p \in {"failed", "done"} : est' = [est EXCEPT !.pc = p]
    BY <1>11 DEF RunToChild, RunToEnd, PieceFails, EstimateEnds
  <2>2. EstOK(est') /\ MayLack(est') = MayLack(est) /\ est'.pc \notin Early
    <3>1. ASSUME est' = est PROVE EstOK(est') /\ MayLack(est') = MayLack(est) /\ est'.pc \notin Early
      BY <1>1, <2>1, <3>1
    <3>2. ASSUME NEW p \in {"failed", "done"}, est' = [est EXCEPT !.pc = p]
          PROVE  EstOK(est') /\ MayLack(est') = MayLack(est) /\ est'.pc \notin Early
      <4>1. p \in Step /\ p \notin Early
        OBVIOUS
      <4> QED
        BY <1>1, <1>3, <1>4, <3>2, <4>1
    <3> QED
      BY <2>1, <3>1, <3>2
  <2>3. CASE UNCHANGED <<accounts, unread>>
    BY <1>7, <2>1, <2>2, <2>3 DEF TopUp
  <2>4. ASSUME NEW read \in BasicOrDefault(Caller), ReadCounted(Caller, read), UNCHANGED backups,
               accounts' = [accounts EXCEPT ![Caller] = {read.info}]
        PROVE  EstimateInv'
    <3>1. unread' = IF read.fails THEN unread \cup {Caller} ELSE unread
      BY <2>4 DEF ReadCounted
    <3>2. Caller \in Address
      BY EstimateAssumption
    <3>3. accounts'[Caller] = {read.info} /\ \A b \in Address \ {Caller} : accounts'[b] = accounts[b]
      BY <1>1, <2>4, <3>2
    <3>4. accounts[Caller] # {} => read.info \in accounts[Caller] /\ ~read.fails
      BY <2>4, <3>2, BasicIsChain
    <3>5. accounts[Caller] = {} /\ ~read.fails => read.info = InfoOf(Caller)
      BY <2>4, <3>2, BasicIsChain
    <3>6. Truthful(Caller, accounts'[Caller], backups'[Caller], unread')
      <4>1. CASE accounts[Caller] = {}
        BY <1>1, <2>4, <3>1, <3>2, <3>3, <3>5, <4>1 DEF Truthful
      <4>2. CASE accounts[Caller] # {}
        BY <1>1, <2>4, <3>1, <3>2, <3>3, <3>4, <4>2 DEF Truthful
      <4> QED
        BY <4>1, <4>2
    <3>7. \A b \in Address \ {Caller} : Truthful(b, accounts'[b], backups'[b], unread')
      BY <1>1, <2>4, <3>1, <3>3 DEF Truthful
    <3> QED
      BY <1>1, <1>2, <1>a, <2>2, <2>4, <3>1, <3>6, <3>7
  <2> QED
    BY <2>1, <2>3, <2>4 DEF TopUp
<1>12. ASSUME NEW a \in Address, PrefetchFails(a) \/ PrefetchUnsupported(a) PROVE EstimateInv'
  BY <1>1, <1>7, <1>12 DEF PrefetchFails, PrefetchUnsupported
<1>13. ASSUME NEW a \in Address, backups[a] = {}, UNCHANGED <<est, backups, unread>>, NEW acc,
              acc \subseteq {InfoOf(a)}, accounts' = [accounts EXCEPT ![a] = acc]
       PROVE  EstimateInv'
  <2>1. \A b \in Address : Truthful(b, accounts'[b], backups'[b], unread')
    BY <1>1, <1>13 DEF Truthful
  <2> QED
    BY <1>1, <1>2, <1>13, <2>1
<1>14. ASSUME NEW a \in Address, PrefetchJoin(a) PROVE EstimateInv'
  <2>1. PICK hash \in ProofHashes(a), code \in CodeAnswers(a) :
          accounts' = [accounts EXCEPT ![a] = IF try_fetch_with_proof(a, hash, code) = {}
                                             THEN accounts[a] ELSE try_fetch_with_proof(a, hash, code)]
    BY <1>14 DEF PrefetchJoin
  <2>2. backups[a] = {} /\ UNCHANGED <<est, backups, unread>>
    BY <1>1, <1>14 DEF PrefetchJoin
  <2>3. try_fetch_with_proof(a, hash, code) \subseteq {InfoOf(a)}
    BY FetchedIsChain DEF CodeAnswers
  <2>4. CASE try_fetch_with_proof(a, hash, code) = {}
    <3>1. DOMAIN accounts' = Address /\ \A b \in Address : accounts'[b] = accounts[b]
      BY <1>1, <2>1, <2>4
    <3> QED
      BY <1>1, <1>2, <2>2, <3>1
  <2> QED
    BY <1>13, <2>1, <2>2, <2>3, <2>4
<1>15. ASSUME NEW a \in Address, ReadAccount(a) PROVE EstimateInv'
  <2>1. PICK hash \in ProofHashes(a), lacks \in BOOLEAN :
          accounts' = [accounts EXCEPT ![a] = fetch_account(a, hash, {CodeOf(a)}, lacks)]
    BY <1>15 DEF ReadAccount
  <2>2. backups[a] = {} /\ UNCHANGED <<est, backups, unread>>
    BY <1>1, <1>15 DEF ReadAccount, Truthful
  <2>3. fetch_account(a, hash, {CodeOf(a)}, lacks) \subseteq {InfoOf(a)}
    BY FetchedIsChain
  <2> QED
    BY <1>13, <2>1, <2>2, <2>3
<1>16. ASSUME NEW a \in Address, inject_estimator(a) PROVE EstimateInv'
  <2> DEFINE New(o) == [code |-> "estimator", funds |-> o.funds,
                        hash |-> IF o.code = "empty" THEN "estimator" ELSE o.hash]
  <2>1. PICK read \in BasicOrDefault(a) :
          /\ ReadCounted(a, read)
          /\ backups' = [backups EXCEPT ![a] = {read.info.code}]
          /\ accounts' = [accounts EXCEPT ![a] = {New(read.info)}]
    BY <1>16, Zenon DEF inject_estimator
  <2>2. est.pc = "inject" /\ est' = est /\ backups[a] = {} /\ a \in MayLack(est)
    BY <1>16, <1>a DEF inject_estimator, ToInject
  <2>3. unread' = IF read.fails THEN unread \cup {a} ELSE unread
    BY <2>1 DEF ReadCounted
  <2>4. /\ accounts'[a] = {New(read.info)} /\ backups'[a] = {read.info.code}
        /\ \A b \in Address \ {a} : accounts'[b] = accounts[b] /\ backups'[b] = backups[b]
        /\ DOMAIN accounts' = Address /\ DOMAIN backups' = Address
    BY <1>1, <2>1
  <2>5. a \notin unread' => read.info = InfoOf(a)
    BY <1>1, <2>2, <2>3, BasicIsChain DEF Truthful
  <2>6. New(InfoOf(a)) = Stand(a, FundsOf(a)) /\ InfoOf(a).code = CodeOf(a)
    BY DEF InfoOf, Stand
  <2> HIDE DEF New
  <2>7. Truthful(a, accounts'[a], backups'[a], unread')
    BY <2>4, <2>5, <2>6 DEF Truthful
  <2>8. \A b \in Address \ {a} : Truthful(b, accounts'[b], backups'[b], unread')
    BY <1>1, <2>3, <2>4 DEF Truthful
  <2> QED
    BY <1>1, <1>2, <2>2, <2>3, <2>4, <2>7, <2>8
<1>17. CASE UNCHANGED estVars
  BY <1>1, <1>7, <1>17 DEF estVars
<1> QED
  BY <1>9, <1>10, <1>11, <1>12, <1>14, <1>15, <1>16, <1>17 DEF EstimateNext

\* RpcDatabase, inject_estimator and run_estimator's top-up: whichever requests
\* fail, come late or are refused, a cached account is the chain's, or the
\* estimator with the original's funds, code and hash behind it, unless it is a
\* target or the caller and could not be read.
THEOREM CacheIsTruthful == EstimateSpec => []CacheTruthful
<1>1. EstimateInit => EstimateInv
  BY DEF EstimateInit, EstimateInv, CacheTruthful
<1>2. EstimateInv => CacheTruthful
  BY DEF EstimateInv
<1> QED
  BY <1>1, <1>2, EstimateStep, PTL DEF EstimateSpec
=============================================================================
