------------------------------- MODULE Prices -------------------------------
(***************************************************************************)
(* The table eth_prices, one row per day.  The hourly loop, or the         *)
(* operator's button, stores the current price under the day it is then;   *)
(* the backfill asks CoinGecko for the history of the days the analyses    *)
(* span, lists the days that have a row, and upserts the others.           *)
(***************************************************************************)
EXTENDS Integers, FiniteSetsExt

CONSTANT
  MaxDay         \* bound: the last day modelled

ASSUME PricesAssumption == MaxDay \in Nat

VARIABLES
  today,         \* the UTC day
  analysed,      \* days with rows in analysis
  eth_prices,    \* [Day -> "none", "spot" (hourly), "history" (backfill)]
  hourly,        \* [pc, day]: a refresh on its way
  backfill,      \* [pc, from, to, days, existing]
  before         \* history: eth_prices when the backfill was asked for

priceVars == <<today, analysed, eth_prices, hourly, backfill, before>>

Day == 0..MaxDay
NotRunning == [pc |-> "idle"]

PricesInit ==
  /\ today = 0 /\ analysed = {} /\ eth_prices = [d \in Day |-> "none"]
  /\ hourly = NotRunning /\ backfill = NotRunning /\ before = eth_prices

Midnight ==
  /\ today < MaxDay /\ today' = today + 1
  /\ UNCHANGED <<analysed, eth_prices, hourly, backfill, before>>

AnalysisToday ==
  /\ analysed' = analysed \cup {today}
  /\ UNCHANGED <<today, eth_prices, hourly, backfill, before>>

\* The price has been fetched: Utc::now names the day it is stored under.
refresh_eth_price_now ==
  /\ hourly = NotRunning
  /\ hourly' = [pc |-> "store", day |-> today]
  /\ UNCHANGED <<today, analysed, eth_prices, backfill, before>>

upsert_eth_price(d, price) == eth_prices' = [eth_prices EXCEPT ![d] = price]

PriceStored ==
  /\ hourly.pc = "store"
  /\ upsert_eth_price(hourly.day, "spot")
  /\ hourly' = NotRunning
  /\ UNCHANGED <<today, analysed, backfill, before>>

\* A failed fetch or statement is logged; so is an upsert that fails.
PriceFails ==
  /\ hourly.pc = "store"
  /\ hourly' = NotRunning
  /\ UNCHANGED <<today, analysed, eth_prices, backfill, before>>

\* The handler sizes the range: nothing to do without a row in analysis.
backfill_eth_prices ==
  /\ backfill = NotRunning /\ analysed # {}
  /\ backfill' = [pc |-> "fetch", from |-> Min(analysed), to |-> Max(analysed \cup {today})]
  /\ before' = eth_prices
  /\ UNCHANGED <<today, analysed, eth_prices, hourly>>

\* CoinGecko answers with samples of days it has, beyond the range too; the
\* first sample of a day is its price.
BackfillFetched ==
  /\ backfill.pc = "fetch"
  /\ \E days \in SUBSET (0..today) :
       backfill' = [pc |-> "list", from |-> backfill.from, to |-> backfill.to, days |-> days]
  /\ UNCHANGED <<today, analysed, eth_prices, hourly, before>>

\* Mutant: the backfill does not ask which days have a row.
list_no_days == {}

list_eth_price_days == {d \in Day : eth_prices[d] # "none"}

BackfillListed ==
  /\ backfill.pc = "list"
  /\ backfill' = [pc |-> "upsert",
       days |-> {d \in backfill.days \ list_eth_price_days : d \in backfill.from..backfill.to}]
  /\ UNCHANGED <<today, analysed, eth_prices, hourly, before>>

\* In ascending order.
BackfillUpsert ==
  /\ backfill.pc = "upsert" /\ backfill.days # {}
  /\ upsert_eth_price(Min(backfill.days), "history")
  /\ backfill' = [backfill EXCEPT !.days = @ \ {Min(@)}]
  /\ UNCHANGED <<today, analysed, hourly, before>>

\* The fetch or a statement fails, or the batch is done.
BackfillEnds ==
  /\ backfill # NotRunning
  /\ backfill' = NotRunning
  /\ UNCHANGED <<today, analysed, eth_prices, hourly, before>>

PricesNext ==
  \/ Midnight \/ AnalysisToday
  \/ refresh_eth_price_now \/ PriceStored \/ PriceFails
  \/ backfill_eth_prices \/ BackfillFetched \/ BackfillListed \/ BackfillUpsert \/ BackfillEnds

PricesSpec == PricesInit /\ [][PricesNext]_priceVars

Price == {"none", "spot", "history"}

\* The price rows, and what the two requests hold between their statements.
PricesTypeOK ==
  /\ today \in Day /\ analysed \subseteq Day
  /\ eth_prices \in [Day -> Price] /\ before \in [Day -> Price]
  /\ hourly \in {NotRunning} \cup [pc: {"store"}, day: Day]
  /\ backfill \in {NotRunning} \cup [pc: {"fetch"}, from: Day, to: Day]
                         \cup [pc: {"list"}, from: Day, to: Day, days: SUBSET Day]
                         \cup [pc: {"upsert"}, days: SUBSET Day]

\* No row is ever deleted, so what had a price when a backfill was asked for
\* still has one; and the days it is about to write had none then.
BackfillAvoidsPriced ==
  backfill # NotRunning => \A d \in Day : before[d] # "none" =>
    /\ eth_prices[d] # "none"
    /\ backfill.pc = "upsert" => d \notin backfill.days

PricesInv == PricesTypeOK /\ BackfillAvoidsPriced

\* Existing rows are preserved: a day that had its price when the backfill was
\* asked for keeps it, whatever the hourly loop and midnight do meanwhile;
\* only the hourly loop changes it, for the day it names.
ExistingPricesKept ==
  [][backfill # NotRunning =>
       \A d \in Day : before[d] # "none" /\ eth_prices'[d] # eth_prices[d]
                      => hourly.pc = "store" /\ d = hourly.day /\ eth_prices'[d] = "spot"]_priceVars
=============================================================================
