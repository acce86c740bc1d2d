------------------------------- MODULE Labels -------------------------------
(***************************************************************************)
(* Who decides which project a contract belongs to.  Workers, the resolver *)
(* refresh, the auto-labeler and the operator write the same tables        *)
(* (analysis, projects, address_project), each in several statements that  *)
(* interleave.  The labeler finds its work through Redis: a producer fills *)
(* a sorted set with unknown contracts, a consumer pops the highest score. *)
(*                                                                         *)
(* A slug is a project of RealSlug, or an address: the address stands for  *)
(* the synthetic slug unknown:0xADDR.  Every writer upserts the project    *)
(* just before the mapping that refers to it, and nobody deletes one: the  *)
(* two statements are one step and the table projects has no variable.     *)
(* Rows without savings, or with skipped opcodes, are never due and are    *)
(* left out.                                                               *)
(***************************************************************************)
EXTENDS Names

CONSTANTS
  Addr,          \* contracts: pairs of chain and address
  RealSlug,      \* project slugs that are not synthetic
  NoRow,         \* no row for a key; an address that does not parse
  OverlayFile,   \* overlay.yaml as the refresher reads it: Seq([addr, slug])
  WorkerFile,    \* overlay.yaml as a worker read it, once, at its start
  LlamaList,     \* DefiLlama's protocols: Seq([prefix, addr, slug])
  Etherscan,     \* [Addr -> answer], see Names
  Blockscout,    \* [Addr -> answer]
  NameDict,      \* [names -> RealSlug]: known_names.yaml
  OverrideSlug,  \* the slug the operator types
  Overridden,    \* the contracts the operator relabels
  BatchSize,     \* LABELER_BATCH_SIZE
  MaxAnalyses,   \* bound: rows of analysis
  MaxLabelFaults \* bound: failed statements, failed lookups, crashes

Slug == RealSlug \cup Addr
IsUnknown(s) == s \in Addr

Mapping == [slug: Slug, manual: BOOLEAN]
Overlays == Seq([addr: Addr \cup {NoRow}, slug: RealSlug])

ASSUME LabelsAssumption ==
  /\ RealSlug \cap Addr = {} /\ NoRow \notin Slug /\ NoRow \notin Mapping
  /\ OverlayFile \in Overlays /\ WorkerFile \in Overlays
  /\ LlamaList \in Seq([prefix: STRING, addr: Addr \cup {NoRow}, slug: RealSlug])
  /\ \A name \in DOMAIN NameDict : NameDict[name] \in RealSlug
  /\ OverrideSlug \in RealSlug /\ Overridden \subseteq Addr
  /\ BatchSize \in Nat \ {0} /\ MaxAnalyses \in Nat /\ MaxLabelFaults \in Nat

VARIABLES
  analysis,        \* rows [to, slug]
  address_project, \* [Addr -> [slug, manual] or NoRow]
  attempt,         \* [Addr -> [result, recent] or NoRow]: address_label_attempt
  label_queue,     \* [Addr -> score]: labeler:queue; 0 is no member
  worker,          \* [pc, to]
  consumer,        \* [pc, addr, slug or result]
  refresher,       \* [pc, todo]: the refresh loop, or the operator's button
  operator,        \* [pc, addr]: the label-override request
  chosen,          \* history: [Addr -> the operator's last slug or NoRow]
  faults           \* faults so far

labelTables == <<analysis, address_project, attempt, label_queue>>
labelVars == <<labelTables, worker, consumer, refresher, operator, chosen, faults>>

Idle == [pc |-> "idle"]

Fault == faults < MaxLabelFaults /\ faults' = faults + 1

-----------------------------------------------------------------------------
(* The resolver's snapshot: addresses and their slugs. *)

Entries(file, a) == {i \in DOMAIN file : file[i].addr = a}

\* One entry that does not parse fails the whole file.
OverlayFails(file) == Entries(file, NoRow) # {}

\* HashMap::insert: an address listed twice has the later slug.
load_overlay(file) ==
  [a \in {b \in Addr : Entries(file, b) # {}} |-> file[Max(Entries(file, a))].slug]

\* A bare address or one of the Ethereum mainnet; all others are dropped.
parse_defillama_address(e) ==
  IF e.prefix \in {"bare", "ethereum"} THEN e.addr ELSE NoRow

\* entry(..).or_insert: the first protocol with an address has it.
load_defillama(list) ==
  LET Of(a) == {i \in DOMAIN list : parse_defillama_address(list[i]) = a}
  IN [a \in {b \in Addr : Of(b) # {}} |-> list[Min(Of(a))].slug]

\* The overlay's entries stand before DefiLlama's; without an answer from
\* DefiLlama the overlay stands alone.
Snapshot(answered) ==
  LET overlay == load_overlay(OverlayFile)
      llama == load_defillama(LlamaList)
  IN [a \in DOMAIN overlay \cup (IF answered THEN DOMAIN llama ELSE {}) |->
        IF a \in DOMAIN overlay THEN overlay[a] ELSE llama[a]]

\* A worker asks its own snapshot, loaded once from the overlay.
resolve(a) ==
  LET snapshot == load_overlay(WorkerFile) IN
  IF a \in DOMAIN snapshot THEN snapshot[a] ELSE a

-----------------------------------------------------------------------------
(* The store's statements. *)

\* Mutant: without WHERE address_project.manual_override = FALSE.
UpsertedAlways(row, s) == [slug |-> s, manual |-> FALSE]

\* The row upsert_address_project leaves for an address: a manual one stays.
Upserted(row, s) ==
  IF row # NoRow /\ row.manual THEN row ELSE [slug |-> s, manual |-> FALSE]

upsert_address_project(a, s) ==
  address_project' = [address_project EXCEPT ![a] = Upserted(@, s)]

upsert_manual_address_project(a, s) ==
  address_project' = [address_project EXCEPT ![a] = [slug |-> s, manual |-> TRUE]]

\* Mutant: the operator's mappings are not joined.
relabel_automatic ==
  analysis' = [i \in DOMAIN analysis |->
    LET row == address_project[analysis[i].to] IN
    IF IsUnknown(analysis[i].slug) /\ row # NoRow /\ ~row.manual /\ ~IsUnknown(row.slug)
    THEN [to |-> analysis[i].to, slug |-> row.slug] ELSE analysis[i]]

\* UPDATE analysis: the unknown rows whose contract is now mapped.
relabel_unknowns ==
  analysis' = [i \in DOMAIN analysis |->
    LET row == address_project[analysis[i].to] IN
    IF IsUnknown(analysis[i].slug) /\ row # NoRow /\ ~IsUnknown(row.slug)
    THEN [to |-> analysis[i].to, slug |-> row.slug] ELSE analysis[i]]

UnknownRows(a) == {i \in DOMAIN analysis :
  analysis[i].to = a /\ IsUnknown(analysis[i].slug)}

\* Mutant: an address is tried once.
DueOnce(a) == attempt[a] = NoRow

\* An earlier attempt does not keep the address from being tried again.
DueAgain(a) ==
  \/ attempt[a] = NoRow
  \/ attempt[a].result \in {"matched", "error"}
  \/ ~attempt[a].recent

Due == {a \in Addr : UnknownRows(a) # {} /\ DueAgain(a)}
Score(a) == Cardinality(UnknownRows(a))

\* The batches LIMIT may return: the highest scores, ties broken either way.
top_unknown_addresses ==
  {B \in SUBSET Due :
     /\ Cardinality(B) = Min({Cardinality(Due), BatchSize})
     /\ \A a \in B, b \in Due \ B : Score(a) >= Score(b)}

upsert_label_attempt(a, result) ==
  attempt' = [attempt EXCEPT ![a] = [result |-> result, recent |-> TRUE]]

-----------------------------------------------------------------------------
(* A worker that has analysed a transaction: insert, then upsert. *)

WkInsertAnalysis(a) ==
  /\ worker = Idle /\ Len(analysis) < MaxAnalyses
  /\ analysis' = Append(analysis, [to |-> a, slug |-> resolve(a)])
  /\ worker' = [pc |-> "address", to |-> a]
  /\ UNCHANGED <<address_project, attempt, label_queue, consumer, refresher,
                 operator, chosen, faults>>

WkAddress ==
  /\ worker.pc = "address"
  /\ upsert_address_project(worker.to, resolve(worker.to))
  /\ worker' = Idle
  /\ UNCHANGED <<analysis, attempt, label_queue, consumer, refresher, operator,
                 chosen, faults>>

\* A failed statement or a crash leaves the rest of the handler undone.
WkGivesUp ==
  /\ worker.pc = "address" /\ Fault
  /\ worker' = Idle
  /\ UNCHANGED <<labelTables, consumer, refresher, operator, chosen>>

-----------------------------------------------------------------------------
(* The labeler's producer, on its interval or at the operator's request. *)

Push(A) == label_queue' = [a \in Addr |-> IF a \in A THEN Score(a) ELSE label_queue[a]]

producer_tick_once ==
  /\ Due # {}
  /\ \E B \in top_unknown_addresses : Push(B)
  /\ UNCHANGED <<analysis, address_project, attempt, worker, consumer, refresher,
                 operator, chosen, faults>>

\* A failed ZADD ends the tick: the lower scores are not pushed.
ProducerCutShort ==
  /\ Due # {} /\ Fault
  /\ \E B \in top_unknown_addresses : \E pushed \in SUBSET B :
       /\ pushed # B /\ \A a \in pushed, b \in B \ pushed : Score(a) >= Score(b)
       /\ Push(pushed)
  /\ UNCHANGED <<analysis, address_project, attempt, worker, consumer, refresher,
                 operator, chosen>>

\* retry_after_days pass: days, where a tick comes every hour, so that the
\* labeler has worked off what was due by then.
AttemptAges(a) ==
  /\ attempt[a] # NoRow /\ attempt[a].recent
  /\ Due = {} /\ consumer = Idle /\ \A b \in Addr : label_queue[b] = 0
  /\ attempt' = [attempt EXCEPT ![a].recent = FALSE]
  /\ UNCHANGED <<analysis, address_project, label_queue, worker, consumer,
                 refresher, operator, chosen, faults>>

-----------------------------------------------------------------------------
(* The labeler's consumer. *)

\* What the sources say of a contract, either of them perhaps out of reach.
Sources(a) ==
  [etherscan: {etherscan_get_contract_name(Etherscan[a]), Failed},
   blockscout: {blockscout_get_contract_name(Blockscout[a]), Failed}]

OutOfReach(a, answer) ==
  \/ answer.etherscan # etherscan_get_contract_name(Etherscan[a])
  \/ answer.blockscout # blockscout_get_contract_name(Blockscout[a])

\* What process_address is to do with an address the sources speak of so.
ToDo(a, answer) ==
  LET meta == ContractMeta(answer.etherscan, answer.blockscout)
      slugs == IF meta.status = "verified" THEN lookup(NameDict, meta.name) ELSE {}
  IN {[pc |-> "address", addr |-> a, slug |-> s] : s \in slugs}
     \cup IF slugs # {} THEN {}
          ELSE {[pc |-> "attempt", addr |-> a,
                 result |-> IF meta.status = "verified" THEN "no-match" ELSE meta.status]}

\* ZPOPMAX: from here on the address is nowhere but in the consumer's memory.
\* The lookups that follow read no table.
LbPop(a) ==
  /\ consumer = Idle /\ label_queue[a] > 0
  /\ \A b \in Addr : label_queue[b] <= label_queue[a]
  /\ label_queue' = [label_queue EXCEPT ![a] = 0]
  /\ \E answer \in Sources(a) :
       /\ IF OutOfReach(a, answer) THEN Fault ELSE UNCHANGED faults
       /\ consumer' \in ToDo(a, answer)
  /\ UNCHANGED <<analysis, address_project, attempt, worker, refresher, operator,
                 chosen>>

LbAddress ==
  /\ consumer.pc = "address"
  /\ upsert_address_project(consumer.addr, consumer.slug)
  /\ consumer' = [consumer EXCEPT !.pc = "relabel"]
  /\ UNCHANGED <<analysis, attempt, label_queue, worker, refresher, operator,
                 chosen, faults>>

\* A failed upsert is recorded as an error attempt.
LbUpsertFails ==
  /\ consumer.pc = "address" /\ Fault
  /\ consumer' = [pc |-> "attempt", addr |-> consumer.addr, result |-> "error"]
  /\ UNCHANGED <<labelTables, worker, refresher, operator, chosen>>

\* A failed relabel is swallowed: the attempt is still recorded as matched.
LbRelabel ==
  /\ consumer.pc = "relabel"
  /\ \/ relabel_unknowns /\ UNCHANGED faults
     \/ Fault /\ UNCHANGED analysis
  /\ consumer' = [pc |-> "attempt", addr |-> consumer.addr, result |-> "matched"]
  /\ UNCHANGED <<address_project, attempt, label_queue, worker, refresher,
                 operator, chosen>>

LbAttempt ==
  /\ consumer.pc = "attempt"
  /\ upsert_label_attempt(consumer.addr, consumer.result)
  /\ consumer' = Idle
  /\ UNCHANGED <<analysis, address_project, label_queue, worker, refresher,
                 operator, chosen, faults>>

\* The process dies and starts again, and the popped address is gone; or the
\* attempt row fails, which is swallowed.
LbCrash ==
  /\ consumer # Idle /\ Fault
  /\ consumer' = Idle
  /\ UNCHANGED <<labelTables, worker, refresher, operator, chosen>>

-----------------------------------------------------------------------------
(* refresh_resolver_with: overlay and DefiLlama into the store. *)

RfRefresh ==
  /\ refresher = Idle /\ ~OverlayFails(OverlayFile)
  /\ \E answered \in BOOLEAN :
       /\ IF answered THEN UNCHANGED faults ELSE Fault
       /\ refresher' = [pc |-> "address", todo |-> DOMAIN Snapshot(answered)]
  /\ UNCHANGED <<labelTables, worker, consumer, operator, chosen>>

\* A failed upsert is logged and the loop goes on.
RfAddress(a) ==
  /\ refresher.pc = "address" /\ a \in refresher.todo
  /\ \/ upsert_address_project(a, Snapshot(TRUE)[a]) /\ UNCHANGED faults
     \/ Fault /\ UNCHANGED address_project
  /\ refresher' = [refresher EXCEPT !.todo = @ \ {a}]
  /\ UNCHANGED <<analysis, attempt, label_queue, worker, consumer, operator, chosen>>

RfRelabel ==
  /\ refresher.pc = "address" /\ refresher.todo = {}
  /\ \/ relabel_unknowns /\ UNCHANGED faults
     \/ Fault /\ UNCHANGED analysis
  /\ refresher' = Idle
  /\ UNCHANGED <<address_project, attempt, label_queue, worker, consumer,
                 operator, chosen>>

-----------------------------------------------------------------------------
(* The operator's label override. *)

\* validate_slug admits no slug of the form unknown:0xADDR.
validate_slug(s) == ~IsUnknown(s)

OpOverride(a) ==
  /\ operator = Idle /\ a \in Overridden /\ chosen[a] = NoRow
  /\ validate_slug(OverrideSlug)
  /\ upsert_manual_address_project(a, OverrideSlug)
  /\ chosen' = [chosen EXCEPT ![a] = OverrideSlug]
  /\ operator' = [pc |-> "relabel"]
  /\ UNCHANGED <<analysis, attempt, label_queue, worker, consumer, refresher, faults>>

OpRelabel ==
  /\ operator.pc = "relabel"
  /\ \/ relabel_unknowns /\ UNCHANGED faults
     \/ Fault /\ UNCHANGED analysis
  /\ operator' = Idle
  /\ UNCHANGED <<address_project, attempt, label_queue, worker, consumer,
                 refresher, chosen>>

-----------------------------------------------------------------------------
\* The refresher's first pass runs before its loops start.
LabelsInit ==
  /\ analysis = <<>>
  /\ address_project = [a \in Addr |->
       IF a \in DOMAIN Snapshot(TRUE)
       THEN [slug |-> Snapshot(TRUE)[a], manual |-> FALSE] ELSE NoRow]
  /\ attempt = [a \in Addr |-> NoRow]
  /\ label_queue = [a \in Addr |-> 0]
  /\ worker = Idle /\ consumer = Idle /\ refresher = Idle /\ operator = Idle
  /\ chosen = [a \in Addr |-> NoRow]
  /\ faults = 0

Labeler == LbAddress \/ LbRelabel \/ LbAttempt \/ \E a \in Addr : LbPop(a)

Refresher == RfRefresh \/ RfRelabel \/ \E a \in Addr : RfAddress(a)

LabelsNext ==
  \/ \E a \in Addr : WkInsertAnalysis(a)
  \/ WkAddress \/ WkGivesUp
  \/ producer_tick_once \/ ProducerCutShort
  \/ \E a \in Addr : AttemptAges(a)
  \/ Labeler \/ LbUpsertFails \/ LbCrash
  \/ Refresher
  \/ \E a \in Addr : OpOverride(a)
  \/ OpRelabel

LabelsSpec == LabelsInit /\ [][LabelsNext]_labelVars

\* The loops of the labeler process and the resolver refresh, which comes round
\* on its interval, keep running; a worker that has inserted its row goes on to
\* the upsert; days pass for every row alike, however often
\* another one falls due in between.
LabelsFairness ==
  /\ WF_labelVars(producer_tick_once)
  /\ WF_labelVars(Labeler)
  /\ \A a \in Addr : SF_labelVars(AttemptAges(a))
  /\ WF_labelVars(WkAddress)
  /\ WF_labelVars(Refresher)

-----------------------------------------------------------------------------
(* Properties. *)

Known == DOMAIN Snapshot(TRUE)
AttemptResult == {"matched", "no-match", "unverified", "error"}

\* The tables and what each process holds between its statements: only a real
\* slug is ever on its way into a mapping from the labeler, and the refresher
\* works through contracts its snapshot knows.
LabelsTypeOK ==
  /\ analysis \in Seq([to: Addr, slug: Slug])
  /\ address_project \in [Addr -> Mapping \cup {NoRow}]
  /\ attempt \in [Addr -> [result: AttemptResult, recent: BOOLEAN] \cup {NoRow}]
  /\ label_queue \in [Addr -> Nat]
  /\ worker \in {Idle} \cup [pc: {"address"}, to: Addr]
  /\ consumer \in {Idle} \cup [pc: {"address", "relabel"}, addr: Addr, slug: RealSlug]
                         \cup [pc: {"attempt"}, addr: Addr, result: AttemptResult]
  /\ refresher \in {Idle} \cup [pc: {"address"}, todo: SUBSET Known]
  /\ operator \in {Idle, [pc |-> "relabel"]}
  /\ chosen \in [Addr -> RealSlug \cup {NoRow}]
  /\ faults \in Nat

\* What the operator chose for a contract stays its mapping whatever the
\* workers, the refresher and the labeler write afterwards.
OverrideSticks ==
  \A a \in Addr : chosen[a] # NoRow =>
    address_project[a] = [slug |-> chosen[a], manual |-> TRUE]

\* The contracts that have a project by the sources' names.
Named == {a \in Addr :
  LET meta == ContractMeta(etherscan_get_contract_name(Etherscan[a]),
                           blockscout_get_contract_name(Blockscout[a]))
  IN meta.status = "verified" /\ lookup(NameDict, meta.name) # {}}

\* Every row whose contract's name is in the dictionary ends up, for good,
\* under a real project: a worker that maps the contract back to unknown, a
\* popped address lost in a crash, a failed lookup or a failed relabel only
\* delay it.
NamedContractsLabelled ==
  <>[](\A i \in DOMAIN analysis :
         analysis[i].to \in Named => ~IsUnknown(analysis[i].slug))

\* While the overlay parses, no row of a contract that it or DefiLlama lists, or
\* that the operator has relabelled, stays unknown: a worker that read an older
\* overlay and maps the contract back between the refresher's upsert and its
\* relabel, a row inserted after the override's relabel, or a relabel that
\* fails only delay it to a later refresh.
ListedContractsLabelled ==
  <>[](\A i \in DOMAIN analysis :
         analysis[i].to \in Known \/ chosen[analysis[i].to] # NoRow
           => ~IsUnknown(analysis[i].slug))
=============================================================================
