---------------------------- MODULE CatalogProofs ----------------------------
(***************************************************************************)
(* Proofs about what the indexer's loops write beside the analyses: who    *)
(* decides which project a contract belongs to (Labels), for any contracts,*)
(* slugs, files and answers of the sources; and the price rows (Prices),   *)
(* for any number of days.                                                 *)
(***************************************************************************)
EXTENDS Labels, Prices, FoldTheorems, SequenceTheorems, NaturalsInduction

-----------------------------------------------------------------------------
(* Prices. *)

LEMMA PricesStep == PricesInv /\ [PricesNext]_priceVars => PricesInv'
<1> SUFFICES ASSUME PricesInv, [PricesNext]_priceVars PROVE PricesInv'
  OBVIOUS
<1> USE PricesAssumption DEF PricesInv, PricesTypeOK, BackfillAvoidsPriced, Day, NotRunning, Price
<1>1. CASE Midnight
  BY <1>1 DEF Midnight
<1>2. CASE AnalysisToday
  BY <1>2 DEF AnalysisToday
<1>3. CASE refresh_eth_price_now
  BY <1>3 DEF refresh_eth_price_now
<1>4. CASE PriceStored
  BY <1>4 DEF PriceStored, upsert_eth_price
<1>5. CASE PriceFails
  BY <1>5 DEF PriceFails
<1>6. CASE backfill_eth_prices
  <2>1. Min(analysed) \in Day
    <3>1. analysed \in SUBSET Nat /\ analysed # {}
      BY <1>6 DEF backfill_eth_prices
    <3> QED
      BY <3>1, MinOfNats
  <2>2. Max(analysed \cup {today}) \in Day
    <3>1. analysed \cup {today} \in SUBSET (0..MaxDay) /\ analysed \cup {today} # {}
      OBVIOUS
    <3> QED
      BY <3>1, MaxOfNats
  <2> QED
    BY <1>6, <2>1, <2>2 DEF backfill_eth_prices
<1>7. CASE BackfillFetched
  <2>1. PICK days \in SUBSET (0..today) :
          backfill' = [pc |-> "list", from |-> backfill.from, to |-> backfill.to, days |-> days]
    BY <1>7 DEF BackfillFetched
  <2>2. days \in SUBSET Day
    OBVIOUS
  <2> QED
    BY <1>7, <2>1, <2>2 DEF BackfillFetched
<1>8. CASE BackfillListed
  BY <1>8 DEF BackfillListed, list_eth_price_days
<1>9. CASE BackfillUpsert
  <2>1. Min(backfill.days) \in backfill.days
    BY <1>9, MinOfNats DEF BackfillUpsert
  <2> QED
    BY <1>9, <2>1 DEF BackfillUpsert, upsert_eth_price
<1>10. CASE BackfillEnds
  BY <1>10 DEF BackfillEnds
<1>11. CASE UNCHANGED priceVars
  BY <1>11 DEF priceVars
<1> QED
  BY <1>1, <1>2, <1>3, <1>4, <1>5, <1>6, <1>7, <1>8, <1>9, <1>10, <1>11 DEF PricesNext

\* A backfill never writes over a price that was there when it was asked for,
\* whatever the hourly refresh and midnight do between its statements.
THEOREM BackfillKeepsPrices == PricesSpec => ExistingPricesKept
<1>1. PricesInit => PricesInv
  BY PricesAssumption
     DEF PricesInit, PricesInv, PricesTypeOK, BackfillAvoidsPriced, Day, NotRunning, Price
<1>2. ASSUME PricesInv, PricesNext, backfill # NotRunning, NEW d \in Day,
             before[d] # "none", eth_prices'[d] # eth_prices[d]
      PROVE  hourly.pc = "store" /\ d = hourly.day /\ eth_prices'[d] = "spot"
  <2> USE <1>2 DEF PricesInv, PricesTypeOK, BackfillAvoidsPriced, Day, NotRunning, Price
  <2>1. CASE PriceStored
    BY <2>1 DEF PriceStored, upsert_eth_price
  <2>2. CASE BackfillUpsert
    <3>1. Min(backfill.days) \in backfill.days
      BY <2>2, MinOfNats, PricesAssumption DEF BackfillUpsert
    <3> QED
      BY <2>2, <3>1 DEF BackfillUpsert, upsert_eth_price
  <2> QED
    BY <2>1, <2>2 DEF PricesNext, Midnight, AnalysisToday, refresh_eth_price_now, PriceFails,
       backfill_eth_prices, BackfillFetched, BackfillListed, BackfillEnds
<1>3. PricesInv /\ [PricesNext]_priceVars =>
        [backfill # NotRunning =>
           \A d \in Day : before[d] # "none" /\ eth_prices'[d] # eth_prices[d]
                          => hourly.pc = "store" /\ d = hourly.day /\ eth_prices'[d] = "spot"]_priceVars
  BY <1>2
<1> QED
  BY <1>1, <1>3, PricesStep, PTL DEF PricesSpec, ExistingPricesKept
-----------------------------------------------------------------------------
(* Labels. *)

\* A file's last entry for an address is one of its entries.
LEMMA OverlaySlugs ==
  ASSUME NEW file \in Overlays
  PROVE  /\ DOMAIN load_overlay(file) \subseteq Addr
         /\ \A a \in DOMAIN load_overlay(file) : load_overlay(file)[a] \in RealSlug
<1> SUFFICES ASSUME NEW a \in Addr, Entries(file, a) # {}
             PROVE  file[Max(Entries(file, a))].slug \in RealSlug
  BY DEF load_overlay
<1>1. Entries(file, a) \in SUBSET (0..Len(file)) /\ Len(file) \in Nat
  BY DEF Entries, Overlays
<1>2. Max(Entries(file, a)) \in 1..Len(file)
  <2>1. Max(Entries(file, a)) \in Entries(file, a)
    BY <1>1, MaxOfNats
  <2> QED
    BY <2>1 DEF Entries, Overlays
<1> DEFINE R == [addr: Addr \cup {NoRow}, slug: RealSlug]
<1>3. file \in Seq(R) /\ \A e \in R : e.slug \in RealSlug
  BY DEF Overlays
<1> HIDE DEF R
<1> QED
  BY <1>2, <1>3, ElementOfSeq

LEMMA LlamaSlugs ==
  /\ DOMAIN load_defillama(LlamaList) \subseteq Addr
  /\ \A a \in DOMAIN load_defillama(LlamaList) : load_defillama(LlamaList)[a] \in RealSlug
<1> DEFINE Of(a) == {i \in DOMAIN LlamaList : parse_defillama_address(LlamaList[i]) = a}
<1> SUFFICES ASSUME NEW a \in Addr, Of(a) # {}
             PROVE  LlamaList[Min(Of(a))].slug \in RealSlug
  BY DEF load_defillama
<1> DEFINE R == [prefix: STRING, addr: Addr \cup {NoRow}, slug: RealSlug]
<1>3. LlamaList \in Seq(R) /\ \A e \in R : e.slug \in RealSlug
  BY LabelsAssumption
<1> HIDE DEF R
<1>0. DOMAIN LlamaList = 1..Len(LlamaList) /\ Len(LlamaList) \in Nat
  BY <1>3, LenProperties
<1>1. Of(a) \in SUBSET Nat /\ Of(a) \subseteq 1..Len(LlamaList)
  BY <1>0
<1>2. Min(Of(a)) \in 1..Len(LlamaList)
  BY <1>1, MinOfNats
<1> QED
  BY <1>2, <1>3, ElementOfSeq

\* Both snapshots map contracts to real slugs, and the one without DefiLlama
\* knows no contract that the other does not.
LEMMA SnapshotSlugs ==
  /\ DOMAIN Snapshot(TRUE) \subseteq Addr
  /\ \A a \in DOMAIN Snapshot(TRUE) : Snapshot(TRUE)[a] \in RealSlug
  /\ \A answered \in BOOLEAN : DOMAIN Snapshot(answered) \subseteq DOMAIN Snapshot(TRUE)
BY LabelsAssumption, OverlaySlugs, LlamaSlugs DEF Snapshot

LEMMA ResolvedSlug == \A a \in Addr : resolve(a) \in Slug
BY LabelsAssumption, OverlaySlugs DEF resolve, Slug

\* The row an upsert leaves is a mapping; a manual one is left as it was.
LEMMA UpsertedRow ==
  ASSUME NEW row \in Mapping \cup {NoRow}, NEW s \in Slug
  PROVE  /\ Upserted(row, s) \in Mapping
         /\ row \in Mapping /\ row.manual => Upserted(row, s) = row
BY LabelsAssumption DEF Upserted, Mapping

\* An upsert by a worker, the labeler or the refresher respects the overrides.
LEMMA UpsertKeeps ==
  ASSUME LabelsTypeOK, OverrideSticks, NEW a \in Addr, NEW s \in Slug,
         upsert_address_project(a, s), chosen' = chosen
  PROVE  /\ address_project' \in [Addr -> Mapping \cup {NoRow}]
         /\ OverrideSticks'
<1>1. address_project' = [address_project EXCEPT ![a] = Upserted(address_project[a], s)]
  BY DEF upsert_address_project
<1>2. address_project[a] \in Mapping \cup {NoRow}
  BY DEF LabelsTypeOK
<1>3. Upserted(address_project[a], s) \in Mapping
  BY <1>2, UpsertedRow
<1>4. ASSUME NEW b \in Addr, chosen[b] # NoRow
      PROVE  address_project'[b] = address_project[b]
  <2>1. address_project[b] \in Mapping /\ address_project[b].manual
    <3>1. chosen[b] \in Slug
      BY <1>4 DEF LabelsTypeOK, Slug
    <3>2. address_project[b] = [slug |-> chosen[b], manual |-> TRUE]
      BY <1>4 DEF OverrideSticks
    <3> QED
      BY <3>1, <3>2 DEF Mapping
  <2>2. Upserted(address_project[b], s) = address_project[b]
    BY <2>1, UpsertedRow
  <2> QED
    BY <1>1, <2>2 DEF LabelsTypeOK
<1> QED
  BY <1>1, <1>3, <1>4 DEF LabelsTypeOK, OverrideSticks

\* A relabel changes the slugs of unknown rows only, to those of mappings.
LEMMA RelabelKeeps ==
  ASSUME LabelsTypeOK, relabel_unknowns
  PROVE  /\ analysis' \in Seq([to: Addr, slug: Slug])
         /\ \A i \in DOMAIN analysis :
              ~IsUnknown(analysis[i].slug) => analysis'[i].slug = analysis[i].slug
<1> DEFINE R == [to: Addr, slug: Slug]
<1> DEFINE Row(i) == address_project[analysis[i].to]
<1>1. ASSUME NEW i \in 1..Len(analysis) PROVE analysis[i] \in R
  <2>1. analysis \in Seq(R)
    BY DEF LabelsTypeOK
  <2> HIDE DEF R
  <2> QED
    BY <1>1, <2>1, ElementOfSeq
<1>2. ASSUME NEW i \in 1..Len(analysis)
      PROVE  (IF IsUnknown(analysis[i].slug) /\ Row(i) # NoRow /\ ~IsUnknown(Row(i).slug)
              THEN [to |-> analysis[i].to, slug |-> Row(i).slug] ELSE analysis[i]) \in R
  BY <1>1, <1>2 DEF LabelsTypeOK, Mapping
<1>3. analysis \in Seq(R) /\ Len(analysis) \in Nat /\ DOMAIN analysis = 1..Len(analysis)
  BY DEF LabelsTypeOK
<1>4. analysis' \in [1..Len(analysis) -> R]
  <2> HIDE DEF R
  <2> QED
    BY <1>2, <1>3 DEF relabel_unknowns
<1>5. analysis' \in Seq(R)
  <2> HIDE DEF R
  <2> QED
    BY <1>3, <1>4
<1> QED
  BY <1>3, <1>5 DEF relabel_unknowns

\* The labeler's answer for a popped contract is work for the consumer.
LEMMA ToDoType ==
  ASSUME NEW a \in Addr, NEW answer \in Sources(a), NEW todo \in ToDo(a, answer)
  PROVE  todo \in [pc: {"address", "relabel"}, addr: Addr, slug: RealSlug]
                \cup [pc: {"attempt"}, addr: Addr, result: AttemptResult]
<1> DEFINE meta == ContractMeta(answer.etherscan, answer.blockscout)
<1>1. answer.etherscan.status \in {"verified", "unverified", "error"}
  BY DEF Sources, etherscan_get_contract_name, Failed, Unverified, Verified
<1>2. answer.blockscout.status \in {"verified", "unverified", "error"}
  <2>1. blockscout_get_contract_name(Blockscout[a]).status \in {"verified", "unverified"}
    BY Zenon DEF blockscout_get_contract_name, Unverified, Verified
  <2> QED
    BY <2>1 DEF Sources, Failed
<1>3. meta.status \in {"verified", "unverified", "error"}
  BY <1>1, <1>2 DEF ContractMeta
<1>4. lookup(NameDict, meta.name) \subseteq RealSlug
  BY LabelsAssumption DEF lookup
<1> HIDE DEF meta
<1> QED
  BY <1>3, <1>4 DEF ToDo, AttemptResult, meta

\* A score counts rows.
LEMMA ScoreType ==
  ASSUME LabelsTypeOK, NEW a \in Addr
  PROVE  Score(a) \in Nat
<1>1. Len(analysis) \in Nat /\ DOMAIN analysis = 1..Len(analysis)
  BY DEF LabelsTypeOK
<1>2. IsFiniteSet(1..Len(analysis)) /\ UnknownRows(a) \in SUBSET (1..Len(analysis))
  BY <1>1, FS_Interval DEF UnknownRows
<1> QED
  BY <1>2, FS_Subset, FS_CardinalityType DEF Score

LabelsInv == LabelsTypeOK /\ OverrideSticks

\* Every step of the worker, the labeler, the refresher and the operator keeps
\* the types and the overrides.
LEMMA LabelsStep == LabelsInv /\ [LabelsNext]_labelVars => LabelsInv'
<1> SUFFICES ASSUME LabelsInv, [LabelsNext]_labelVars PROVE LabelsInv'
  OBVIOUS
<1>a. LabelsTypeOK /\ OverrideSticks
  BY DEF LabelsInv
<1> USE DEF LabelsInv, labelTables, Idle
<1>1. ASSUME NEW a \in Addr, WkInsertAnalysis(a) PROVE LabelsInv'
  <2> DEFINE R == [to: Addr, slug: Slug]
  <2>1. [to |-> a, slug |-> resolve(a)] \in R
    BY ResolvedSlug
  <2>2. analysis \in Seq(R)
    BY <1>a DEF LabelsTypeOK
  <2>3. analysis' \in Seq(R)
    <3> HIDE DEF R
    <3> QED
      BY <1>1, <2>1, <2>2, AppendProperties DEF WkInsertAnalysis
  <2> QED
    BY <1>1, <1>a, <2>3 DEF WkInsertAnalysis, LabelsTypeOK, OverrideSticks
<1>2. CASE WkAddress
  <2>1. worker.to \in Addr
    BY <1>2, <1>a DEF WkAddress, LabelsTypeOK
  <2>2. address_project' \in [Addr -> Mapping \cup {NoRow}] /\ OverrideSticks'
    BY <1>2, <1>a, <2>1, UpsertKeeps, ResolvedSlug DEF WkAddress
  <2> QED
    BY <1>2, <1>a, <2>2 DEF WkAddress, LabelsTypeOK
<1>3. CASE WkGivesUp
  BY <1>3, <1>a DEF WkGivesUp, Fault, LabelsTypeOK, OverrideSticks
<1>4. CASE producer_tick_once \/ ProducerCutShort
  <2>1. PICK A : Push(A)
    BY <1>4 DEF producer_tick_once, ProducerCutShort
  <2>2. label_queue' \in [Addr -> Nat]
    BY <1>a, <2>1, ScoreType DEF Push, LabelsTypeOK
  <2>3. faults' \in Nat
    BY <1>4, <1>a DEF producer_tick_once, ProducerCutShort, Fault, LabelsTypeOK
  <2> QED
    BY <1>4, <1>a, <2>2, <2>3 DEF producer_tick_once, ProducerCutShort, LabelsTypeOK, OverrideSticks
<1>5. ASSUME NEW a \in Addr, AttemptAges(a) PROVE LabelsInv'
  <2>1. attempt' \in [Addr -> [result: AttemptResult, recent: BOOLEAN] \cup {NoRow}]
    <3> DEFINE A == [result: AttemptResult, recent: BOOLEAN]
    <3>1. attempt \in [Addr -> A \cup {NoRow}]
      BY <1>a DEF LabelsTypeOK
    <3>2. attempt[a] # NoRow /\ attempt' = [attempt EXCEPT ![a].recent = FALSE]
      BY <1>5 DEF AttemptAges
    <3>3. attempt[a] \in A
      BY <3>1, <3>2
    <3>4. [attempt[a] EXCEPT !.recent = FALSE] \in A
      BY <3>3
    <3> HIDE DEF A
    <3>5. attempt' \in [Addr -> A \cup {NoRow}]
      BY <3>1, <3>2, <3>4
    <3> QED
      BY <3>5 DEF A
  <2> QED
    BY <1>5, <1>a, <2>1 DEF AttemptAges, LabelsTypeOK, OverrideSticks
<1>6. ASSUME NEW a \in Addr, LbPop(a) PROVE LabelsInv'
  <2>1. PICK answer \in Sources(a) :
          /\ IF OutOfReach(a, answer) THEN Fault ELSE UNCHANGED faults
          /\ consumer' \in ToDo(a, answer)
    BY <1>6 DEF LbPop
  <2>2. consumer' \in [pc: {"address", "relabel"}, addr: Addr, slug: RealSlug]
                    \cup [pc: {"attempt"}, addr: Addr, result: AttemptResult]
    BY <2>1, ToDoType
  <2>3. faults' \in Nat
    BY <1>a, <2>1 DEF Fault, LabelsTypeOK
  <2> QED
    BY <1>6, <1>a, <2>2, <2>3 DEF LbPop, LabelsTypeOK, OverrideSticks
<1>7. CASE LbAddress
  <2>1. consumer \in [pc: {"address", "relabel"}, addr: Addr, slug: RealSlug]
    BY <1>7, <1>a DEF LbAddress, LabelsTypeOK
  <2>2. address_project' \in [Addr -> Mapping \cup {NoRow}] /\ OverrideSticks'
    BY <1>7, <1>a, <2>1, UpsertKeeps DEF LbAddress, Slug
  <2>3. consumer' \in [pc: {"address", "relabel"}, addr: Addr, slug: RealSlug]
    BY <1>7, <2>1 DEF LbAddress
  <2> QED
    BY <1>7, <1>a, <2>2, <2>3 DEF LbAddress, LabelsTypeOK
<1>8. CASE LbUpsertFails
  BY <1>8, <1>a DEF LbUpsertFails, Fault, LabelsTypeOK, OverrideSticks, AttemptResult
<1>9. CASE LbRelabel
  <2>1. analysis' \in Seq([to: Addr, slug: Slug])
    BY <1>9, <1>a, RelabelKeeps DEF LbRelabel, LabelsTypeOK
  <2>2. consumer' \in [pc: {"attempt"}, addr: Addr, result: AttemptResult]
    BY <1>9, <1>a DEF LbRelabel, LabelsTypeOK, AttemptResult
  <2>3. faults' \in Nat
    BY <1>9, <1>a DEF LbRelabel, Fault, LabelsTypeOK
  <2> QED
    BY <1>9, <1>a, <2>1, <2>2, <2>3 DEF LbRelabel, LabelsTypeOK, OverrideSticks
<1>10. CASE LbAttempt
  <2>1. consumer \in [pc: {"attempt"}, addr: Addr, result: AttemptResult]
    BY <1>10, <1>a DEF LbAttempt, LabelsTypeOK
  <2> QED
    BY <1>10, <1>a, <2>1 DEF LbAttempt, upsert_label_attempt, LabelsTypeOK, OverrideSticks
<1>11. CASE LbCrash
  BY <1>11, <1>a DEF LbCrash, Fault, LabelsTypeOK, OverrideSticks
<1>12. CASE RfRefresh
  <2>1. refresher' \in [pc: {"address"}, todo: SUBSET Known]
    <3>1. PICK answered \in BOOLEAN :
            refresher' = [pc |-> "address", todo |-> DOMAIN Snapshot(answered)]
      BY <1>12 DEF RfRefresh
    <3>2. DOMAIN Snapshot(answered) \in SUBSET Known
      BY SnapshotSlugs DEF Known
    <3> QED
      BY <3>1, <3>2
  <2>2. faults' \in Nat
    BY <1>12, <1>a DEF RfRefresh, Fault, LabelsTypeOK
  <2> QED
    BY <1>12, <1>a, <2>1, <2>2 DEF RfRefresh, LabelsTypeOK, OverrideSticks
<1>13. ASSUME NEW a \in Addr, RfAddress(a) PROVE LabelsInv'
  <2>1. refresher \in [pc: {"address"}, todo: SUBSET Known]
    BY <1>13, <1>a DEF RfAddress, LabelsTypeOK
  <2>2. Snapshot(TRUE)[a] \in Slug
    BY <1>13, <2>1, SnapshotSlugs DEF RfAddress, Slug, Known
  <2>3. address_project' \in [Addr -> Mapping \cup {NoRow}] /\ OverrideSticks'
    <3>1. CASE upsert_address_project(a, Snapshot(TRUE)[a])
      BY <1>13, <1>a, <2>2, <3>1, UpsertKeeps DEF RfAddress
    <3>2. CASE UNCHANGED address_project
      BY <1>13, <1>a, <3>2 DEF RfAddress, LabelsTypeOK, OverrideSticks
    <3> QED
      BY <1>13, <3>1, <3>2 DEF RfAddress
  <2>4. refresher' \in [pc: {"address"}, todo: SUBSET Known]
    BY <1>13, <2>1 DEF RfAddress
  <2>5. faults' \in Nat
    <3>1. faults \in Nat /\ (faults' = faults \/ Fault)
      BY <1>13, <1>a DEF RfAddress, LabelsTypeOK
    <3> QED
      BY <3>1 DEF Fault
  <2> QED
    BY <1>13, <1>a, <2>3, <2>4, <2>5 DEF RfAddress, LabelsTypeOK
<1>14. CASE RfRelabel \/ OpRelabel
  <2>1. analysis' \in Seq([to: Addr, slug: Slug])
    BY <1>14, <1>a, RelabelKeeps DEF RfRelabel, OpRelabel, LabelsTypeOK
  <2>2. faults' \in Nat
    BY <1>14, <1>a DEF RfRelabel, OpRelabel, Fault, LabelsTypeOK
  <2> QED
    BY <1>14, <1>a, <2>1, <2>2 DEF RfRelabel, OpRelabel, LabelsTypeOK, OverrideSticks
<1>15. ASSUME NEW a \in Addr, OpOverride(a) PROVE LabelsInv'
  <2>1. [slug |-> OverrideSlug, manual |-> TRUE] \in Mapping
    BY LabelsAssumption DEF Mapping, Slug
  <2> QED
    BY <1>15, <1>a, <2>1, LabelsAssumption
       DEF OpOverride, upsert_manual_address_project, LabelsTypeOK, OverrideSticks
<1>16. CASE UNCHANGED labelVars
  BY <1>16, <1>a DEF labelVars, LabelsTypeOK, OverrideSticks
<1> QED
  BY <1>1, <1>2, <1>3, <1>4, <1>5, <1>6, <1>7, <1>8, <1>9, <1>10, <1>11, <1>12, <1>13, <1>14,
     <1>15, <1>16 DEF LabelsNext, Labeler, Refresher

LEMMA LabelsStart == LabelsInit => LabelsInv
<1> SUFFICES ASSUME LabelsInit PROVE LabelsInv
  OBVIOUS
<1>1. address_project \in [Addr -> Mapping \cup {NoRow}]
  BY SnapshotSlugs DEF LabelsInit, Mapping, Slug
<1>2. LabelsTypeOK
  <2>1. analysis \in Seq([to: Addr, slug: Slug])
    BY Zenon, EmptySeq DEF LabelsInit
  <2>2. attempt \in [Addr -> [result: AttemptResult, recent: BOOLEAN] \cup {NoRow}]
    BY DEF LabelsInit
  <2>3. label_queue \in [Addr -> Nat] /\ chosen \in [Addr -> RealSlug \cup {NoRow}] /\ faults \in Nat
    BY DEF LabelsInit
  <2> QED
    BY <1>1, <2>1, <2>2, <2>3, Zenon DEF LabelsInit, LabelsTypeOK
<1>3. OverrideSticks
  BY DEF LabelsInit, OverrideSticks
<1> QED
  BY <1>2, <1>3 DEF LabelsInv

\* The tables and the processes' memories keep their types.
THEOREM LabelsTyped == LabelsSpec => []LabelsTypeOK
<1>1. LabelsInv => LabelsTypeOK
  BY DEF LabelsInv
<1> QED
  BY <1>1, LabelsStart, LabelsStep, PTL DEF LabelsSpec

\* No write of the workers, the labeler or the refresher, in whatever order
\* their statements fall, undoes what the operator chose for a contract.
THEOREM OverridesStick == LabelsSpec => []OverrideSticks
<1>1. LabelsInv => OverrideSticks
  BY DEF LabelsInv
<1> QED
  BY <1>1, LabelsStart, LabelsStep, PTL DEF LabelsSpec
=============================================================================
