# A TLA+ verification of gas-analyzer

This directory models the parts of the repository that carry its own logic: the
indexer's ingestion pipeline and the loops that label and price what it stores,
the dashboard over it, the extractors that turn a traced call into a signed
update program, the service that encodes and prices such programs, and the tools
in front of them. TLC checks the models on small instances; TLAPS proves, for
every instance, the safety properties of most parts; of extraction, that the
journals it keeps are the native storage, that it stops only on a failed create,
and that the settlement of the canonical program repeats the traced transaction.

Run a check with `tlc -config <cfg> <MC module>` and the proofs of a module with
`tlapm <...Proofs>.tla`.

## 1. Inventory

### Indexer (a live dashboard of gas that could be saved)

| Component | State | Operations | Interacts with |
|---|---|---|---|
| head-tracker (`indexer-service/head_tracker.rs`) | cursor `next_block`, in memory only | poll head, publish it, wait on backpressure, skip ahead, fan a block out | node, Redis |
| queue (`queue.rs`) | Redis lists `pending` and `dead`, `last_head` with a 60 s TTL, two drop counters | `enqueue`, `claim`, `requeue`, `dead_letter`, `incr_dropped`, `publish_last_head` | head-tracker, workers, admin view |
| worker pool (`worker.rs`) | the claimed job | claim, expire, analyse under a timeout, store, retry, dead-letter | Redis, Postgres, node |
| store (`indexer-store`) | tables `analysis`, `project`, `address_project`, prices, label attempts, selectors, rollups | idempotent upserts | workers, labeler, refresher, web |
| analyzer (`indexer-api`) | none | `analyze_tx`: skip decisions, trace, measured or heuristic estimate | node, core, evmsketch |
| rate limiter (`indexer-rpc`) | token bucket, semaphore | `acquire`, `with_retry` | head-tracker, workers |
| labeler (`labeler.rs`) | a Redis sorted set, label attempts in Postgres | producer tick, pop, ask the sources, upsert, relabel | store, Etherscan, Blockscout |
| refresher, 4byte resolver | resolver snapshot | refresh the overlay and relabel, prices, rollups, selectors | store, HTTP services |
| web (`indexer-web`) | signed cookies, data floor, diagnose cache, allowlist | pages, admin edits, label overrides, diagnosis | store, Redis, an LLM |

Hard behaviour: two kinds of processes share Redis and Postgres without
transactions between them; every await may fail or lose its reply; processes are
restarted; retries share the list with new work; the node's replicas lag.
Correct means: no block is left behind unnoticed, no job is lost or repeated
without a record, the queue is bounded, the counters on `/admin` are true, and
everything fanned out ends; what a person decided is not undone by a loop, what
the sources know is stored in the end, and the pages agree with each other.

### Extraction (what validators sign)

| Component | State | Operations |
|---|---|---|
| legacy extractor (`core/trace.rs`) | target depth, call stack, pending create | one pass over the struct logs |
| canonical / nested extractor (`core/nested.rs`) | candidates; frames with journals, views and updates; programs | `scan_candidates`, `split_frame_tree`, pruning, compaction |
| prestate net form (`core/prestate.rs`) | none | eligibility, net stores, ordered logs |
| encoding calls (`evmsketch/lib.rs`, `rpc`) | executor cache, chain ids, mux support | two calls that trace, extract, check the budget and price |
| RPC-backed database (`simple_rpc_db.rs`) | account cache, whether proofs are supported | reads, prefetch, proof fallback |
| cost models (`heuristic.rs`, `sim_profile.rs`, `gas-estimator`) | the simulated state | heuristics, payload bound, frame tree run in pieces |
| witness encoding (`nested.rs`) | none | leaves, Merkle proofs, witnesses |
| anvil backend (`anvil`) | a forked node | snapshot, inject, send, restore, revert |
| tools (`cli`, `wasm`) | none | which price is reported, and what it falls back to |

Hard behaviour: re-entrancy, reverts inside delegated code, calls that open no
frame, creates that fail, frames that are dropped after they were opened, and a
writer that leaves out stores it believes to be on chain already. Correct means:
applying the program on chain shows external code the world the traced call
showed it, and ends in the traced storage and events; every operator signs the
same program; and a price is of that program, on that state, counted once.

## 2. Modules

| Module | Models | Notes |
|---|---|---|
| `Ingest` | head-tracker, queue, workers, the three store statements | one action per await |
| `Ledger` | abstract specification: a transaction is offered, its copies are in flight, each leaves with one fate | implemented by `Ingest` (`JobLedger`) |
| `MCIngest` | instances of `Ingest` | blocks, worker symmetry |
| `IngestProofs` | theorems about `Ingest` and `Ledger` | TLAPS, as the other proof modules |
| `Evm` | external: the traced execution | produces every well-formed trace |
| `Settlement` | external: applying a program on chain | extends `Evm` |
| `Candidates` | `scan_candidates` | a fold over the trace |
| `Walker` | `split_frame_tree` and what follows it | one log is one step |
| `Witness` | `encode_frame_tree`, leaves, Merkle proofs | hashes are free terms |
| `Seeds` | wasm `frame_tree_seeds` | operators over a split |
| `Legacy` | `compute_state_updates` | a fold |
| `Prestate` | the net form | operators over the trace |
| `Hybrid` | `extract_state_updates_hybrid` | composes `Walker`, `Legacy`, `Prestate` |
| `Heuristic` | `heuristic.rs`, `sim_profile.rs` | operators over a trace and its extraction |
| `MCWalker`, `MCHybrid` | instances | |
| `WalkerProofs` | theorems about `Evm`, `Candidates` and `Walker` | |
| `Names` | label sources, name dictionary | pure operators |
| `Labels` | workers, labeler, refresher and operator as writers of label rows | one action per statement |
| `Selectors`, `Prices` | the 4byte loop; the hourly price and the backfill | |
| `MCCatalog` | instances of the last three | one of them at a time |
| `CatalogProofs` | theorems about `Labels` and `Prices` | |
| `Dashboard` | rollups, blacklist, organizations, every query and page | queries are operators on the tables |
| `Console` | sessions, data floor, diagnose button, restarts | one action per await |
| `Analyzer` | rate limiter, retries, `analyze_tx` | one action per request |
| `Encode` | the two encoding calls, `MuxSupport`, executor cache, registry reads | one action per await |
| `Estimate` | `SimpleRpcDb`, prefetch, preceding transactions, injection, `FrameTreeRun` | |
| `Fork` | the anvil backend | one action per request |
| `Report` | command line and browser module | one action per stage |
| `MCRequests` | instances of the last seven | one of them at a time |
| `WebProofs` | theorems about `Console` and `Dashboard` | |
| `AnalyzerProofs`, `EncodeProofs` | theorems about the module of that name | |
| `ToolProofs` | theorems about `Report`, `Fork` and `Estimate` | |
| `FoldTheorems` | lemmas about least elements and sums | used by four of the proof modules |

### Ingest

`htPc` is where `head_tracker::run` stands: `poll` (about to ask for the head),
`depth` (head published, LLEN next), `fetch`, `fan` (inside `enqueue_block`'s
loop at index `idx`), `down` (the process has exited). `HtPoll`, `HtWait`,
`HtSkipAhead`, `HtProceed`, `HtFetch`, `HtSkipCreate`, `HtEnqueue` and
`HtBlockDone` are the loop; `HtFetchFails` and `HtEnqueueFails` its
`continue`-and-retry path, `HtCrash` its `?` exits and kills, `HtStart` the
restart. `wPc[w]` is where worker `w` stands in `worker::run` and `handle`;
`WkReport`, `WkSkip`, `WkRequeue` and `WkDeadLetter` are the outcomes of an
analysis, which may be any; `WkInsert`, `WkUpsertProject` and `WkUpsertAddress`
are the three statements. `WkAbandon` is a failed push or statement, which `run`
only logs, or a kill; `WkClaimLost` a BLPOP whose reply is lost. A push whose
reply is lost may or may not have been applied.

A job's hash is its block and index; the chain id is one value. `pushed`,
`fate`, `skipped`, `uncounted`, `missed` and `publishFailed` are history
variables of the specification. Reorganisations are ignored, as by the code.

### Evm and Settlement

`Evm` executes any sequence of the instructions of a menu and records the struct
logs a node would return: depth, operation, operands, error, and the value on
top of the stack, which on the log that resumes a caller is the callee's success
flag (or a create's address). Each log also carries the world it saw and the
frames open at it; the extractors never read these fields, the properties and
their proofs do. The root call succeeds, as
`ensure_call_succeeded` demands.

`Settlement` applies the extracted program: stores and logs directly, calls and
creates by what the trace says of their effect, nested frames by checking the
child's transition index, incrementing its counter and applying its program. A
replayed call is assumed to repeat the traced effects *because* it finds the
traced world; `BoundaryInSync` checks that it does, so the assumption is
discharged wherever that property holds. With `Divergent` re-entrant calls may
leave the root's ordinary slots with any values.

### Walker, Candidates, Legacy, Prestate, Hybrid

`w.frames` is the code's `Vec<WalkFrame>`, `w.programs` its `Vec<ProgramState>`,
`w.pending` the optional `PendingFrame`; `scan` is what `scan_candidates`
returned. Each `Walk...` action is an arm of the `match` on the opcode together
with what the loop does before it (`Enter`, `Leave`, composed in `Settled`).
`Split` is everything after the loop. Optional values are sets of at most one
element; storage maps are functions with the written slots as domain; slots are
naturals since the code iterates ordered maps.

Abstractions: gas is one unit per log, so a call's gas is the distance to the
log that resumes its caller; the byte sizes in `prune_unprofitable` are replaced
by a free choice of the frames that pay; values, calldata and hashes of a call
are the index of its log; `CALLCODE` is `DELEGATECALL`, `CREATE2` is `CREATE`,
`SELFDESTRUCT` is `TSTORE`, `LOG0`–`LOG4` are one; every log carries the stack
and the memory the extractors read. Traces are those a node can produce, so
depth 0, short stacks and unclosed frames do not occur.

### Names, Labels, Selectors, Prices

`Labels` has the tables `analysis`, `address_project` and
`address_label_attempt`, the Redis sorted set, and one program counter for each
writer: a worker (row, then mapping), the labeler's consumer (pop, mapping,
relabel, attempt), the refresher (snapshot, then address by address) and the
operator's override (mapping, then relabel). A slug is a project or, for
`unknown:0xADDR`, the address itself. A worker resolves with the overlay it read
at its start (`WorkerFile`), the refresher with the current one. `AttemptAges`
is the passing of the retry interval.

### Dashboard and Console

Tables are variables, `project_daily` and `function_daily` are refreshed by
separate actions, and each query is an operator on what the tables then hold;
`overview`, `project`, `contract_page`, `function_page` and `unknowns` put them
together as the handlers do. `MayShow` and `MustShow` say which rows a page of
transactions may and must hold when the order leaves ties open. `Console` has
the process' memory, what survives it (users.yaml, Redis, cookies) and the
requests in flight; `WebRestart` keeps only the latter two. A SET of the data
floor may be refused, or its answer may be lost (`FloorSaveLost`: a broken
connection, or a client that goes away and has the handler cancelled); Redis
then runs it at any later moment or never (`FloorLate`), after a restart too.

### Analyzer, Encode, Estimate

A task of `Analyzer` charges the bucket in chunks, waits for a slot and then
makes its requests, each of which may fail and be retried; what the node said is
kept in `said`. A run of `Encode` goes through the pause check, the tracers, the
registry reads, the executor cache and the estimate; what a call does is a fact
of the job, what a node answers is not. `Estimate` reads accounts through the
cache, prefetches in any order, replays, injects the estimator at each target
and runs the frames depth first in pieces; a piece with a value first tops up
the caller's account (`TopUp`), which a failed read leaves empty.

### Fork and Report

`Fork` is one node and the step `gk.pc` of `estimate_state_changes_gas`; each
request may fail, and the loop over the receipts goes on; `gk.one` is the estimate
of a single transaction, which an unreadable selector ends with an error.
`Report` abstracts a price to where it comes from: what produced it (a run, the
formula over the updates or over the opcodes, nothing), over which state, what
had run there before, and how often the callees' gas is in a run. Each run is a
step that may fail, so that a tree's first settlement has its price when the
second one fails.

## 3. Runs

| Run | Checks | Shows |
|---|---|---|
| `ingest_safety` | `TypeOK`, `CursorCoverage`, `SkipsCounted`, `BlocksBehindNonNegative`, `AgeFromFanOut`, `QueueBound` | three blocks (two calls; a creation; empty), a worker, `MAX_BLOCKS_BEHIND` 1, TTL 1, one fault anywhere |
| `ingest_live` | `JobsConserved`, `EveryJobSettles`, `CatchesUp` | two workers: refinement of `Ledger` and liveness under fairness |
| `encodings` | `PricesConsistent`, `EncodingsInSync`, `EncodingsReachTracedWorld`, `AbortsOnlyOnFailedCall`, `RejectsOnlyCreates` | all instruction kinds but TSTORE, all three encodings; the fallback price against the extraction's |
| `nested` | `ImageIsNative`, `SettlesInSync`, `SettlesAsTraced`, `SettlesUnlessCallFails`, `CallGasExact`, `TreeVerifies`, `SeedsOriginal`, `FailsOnlyOnCreate` | nested frames, re-entrancy into the root included, every pruning; their witnesses and seeds; creates, static calls, logs, inline calls and failing instructions |
| `catalog` | `OverrideSticks`, `NamedContractsLabelled`, `ListedContractsLabelled`, `SelectorsSettled`, `ExistingPricesKept` | four writers of two label rows with a fault; the selector loop with two; prices over a midnight |
| `requests` | `ViewsAgree`, `BoardsHideExactly`, `PagesShowAll`, `FloorSurvivesRestart`, `TimeLimitsKept`, `QuotaKept`, `OutcomeHonest`, `OperatorsAgree`, `ExecutorFits`, `CacheTruthful`, `TreePriced`, `EstimatesIsolated`, `PricesComparable` | each part that answers requests, on its own |
| `ingest_drops` | `NeverDropsSeenBlocks` (violated) | see findings |
| `counter_pins` | `NestedFramesPinned` (violated) | see findings |
| `diverged_replay` | `FinalStateDetermined` (violated) | see findings |
| `org_totals` | `OrgTotalsCombine` (violated) | see findings |
| `payload_budget` | `SignedPayloadsFit` (violated) | see findings |
| `blacklist_scope` | `BlacklistEverywhere` (violated) | see findings |

Every property of a passing run has a mutant in `PROJECT.json`: a variant of one
modelled definition, as a plausible bug would leave it, under which TLC finds the
property violated.

In `catalog` and `requests` the parts share no state, so a behaviour follows one
of them (`focus`) and the run is the sum of their state spaces, not the product.
The three parts of `Console` share its clock and its restarts, and each of them
is followed with both.

**Qualifications.** `SkipsCounted` and `BlocksBehindNonNegative` hold for nodes
that do not lag (`RpcLag` 0): a head that moves back makes `/admin` show a
negative lag, and one that moves back past a skip makes a restarted head-tracker
count the same blocks twice. `CursorCoverage` and `QueueBound` are proved for
every lag; no run has one. `BoardsHideExactly` is about the queries that apply the
blacklist, and `ViewsAgree` compares the others without one; `blacklist_scope` is
about the difference. `ExistingPricesKept` is about the prices there were when the
backfill was asked for, not about one stored since. `PricesComparable` says nothing
of what an estimate without a run counts, which is the subject of
`PricesConsistent`, nor of the label anvil's error reports are printed under.
The properties of a legacy program except calls whose delegated frames
fail, which `StateEncoding::Legacy` documents as leaking. The `Settles...`
properties except traces in which the increment that made a frame eligible is
rolled back while the frame's call lasts (`IncrementsKept`); the run
`counter_pins` is about those.
`PricesConsistent`, `SeedsOriginal`, `FloorSurvivesRestart`, `CacheTruthful` and
`EstimatesIsolated` name the states they except; each exception is needed, and
the observations below say what happens in it.

**Bounds.** `MaxFaults` 1: each fault is handled by one retry or restart, and
the retries are themselves ordinary steps. Two workers where it matters
(`ingest_live`): a requeue and a fan-out interleave, two copies of one job are in
two workers' hands; the proofs are for any number. Two slots (the counter and one
other) and two values: a slot can be written, rewritten and set back. Depth 3: a
re-entrant call, a delegated frame in a call, a nested frame in a nested frame.
`nested` takes its traces from four menus: seven logs with stores, delegated
frames and reverts (a write before and after a re-entrant call), eight with stores
alone (two sibling frames of one contract that both write), nine of increments,
calls, delegated frames and reverts (trees of up to three frames, siblings or
nested; with two of them the leaves are odd in number; an increment in a
delegated frame that fails), five with every other instruction.
`encodings` has five logs: one frame with two instructions of its own, or two
calls in a row. `Labels`: two contracts, one the overlay knows and one only the
sources name, two analyses, so that a worker writes after the labeler did. A
batch of 1 makes selectors and addresses wait for each other. `Dashboard`: two
rows from four kinds (two functions on a day, another contract, an earlier day,
skipped opcodes), windows of two and three days over a clock of half-days, pages
of one row. `Analyzer`: a weight above the burst, so that one acquire takes
several chunks. `Encode`: three runs by two runners over a cache of one entry and
a pause after two rejections. `Estimate`: trees with a shared contract, an empty
frame, a frame between two children, a root and a child with a value, and
malformed ones. `Fork`: three receipts,
two of one contract, and two failures. `Report`: every input there is. In every module the constants commented
as bounds are the only ones the code does not have.

**Deadlock** is checked in every run but `catalog`, `requests` and the
violation runs over their modules: the inputs of those are bounded, and a part that
has answered them stops. Walker and Hybrid stutter explicitly (`Done`) once the
extraction has failed or the settlement is over.

**Fairness.** Ingestion (`FairSpec`): weak fairness of the head-tracker's and of
every worker's steps. Both loop for ever, awaits return (the analysis under a
timeout), and the deployment restarts processes (`restart: unless-stopped`).
Nothing is assumed of the chain, the clock, the faults, or of what an analysis
returns. Labels (`LabelsFairness`): weak fairness of the producer's ticks, of the
consumer, of the resolver refresh, which comes round on its interval, and of a
worker that has inserted its row, all loops of processes that are restarted;
strong fairness of the passing of an attempt's retry interval, which is time.
Nothing is assumed of the operator. In `catalog` this is asked only of the
behaviours that follow the labels: elsewhere these loops are enabled and never
move, and fairness would leave no behaviour to check. Selectors
(`SelectorsFairness`): weak fairness of the ticker and of the loop over its batch.
Faults are bounded in both: a source that fails for ever labels nothing.

## 4. Findings

* **A restart drops blocks** (`ingest_drops`). The documentation says blocks are
  never dropped with `MAX_BLOCKS_BEHIND` = 0; a failed head poll or LLEN ends the
  process and the restart begins at the new head.
* **A reverted increment makes a nested frame** (`counter_pins`): the pre-pass
  does not see reverts, the committed journal does, so the frame's target is
  missing from `counter_moves`.
* **The final slice does not determine the end state under divergence**
  (`diverged_replay`): it leaves out slots it believes emitted, so a slot only a
  diverged re-entrant replay changed is not put right.
* **An organization's line counts a day once per function** (`org_totals`): the
  query joins `project_daily` with `function_daily` before it sums.
* **The net form escapes the payload budget** (`payload_budget`): under the
  unbounded profile `call_to_frame_tree_with_evmsketch` returns it without the
  validation both other ways apply.
* **The blacklist does not reach every aggregate** (`blacklist_scope`), as page and
  migration say it does: only the boards of functions and contracts apply it, and
  the candidates its whole-contract entries.

Observations met while modelling, which no run isolates:

* *Fallback price.* `extract_operation_counts_from_trace` keeps the CALL it
  measures from until depth 1 is reached again. A call of the root that opens no
  frame, or a CALL made inside a delegated frame, leaves that mark behind, and
  what follows is counted as call gas as well as by itself. `Countable` excepts
  both.
* *Seeds.* `original_storage` takes the value last stored by a frame for a slot
  that the diff leaves out. When a native call writes the slot after the
  contract's last frame returned, that value is not the original (`ClosedBy`).
* *Anvil.* Every error of an estimate returns before `anvil_set_code` and
  `evm_revert`: the contract keeps the estimator, and the fork its block number
  and backup code, for the transactions that follow (`dirty`). The command line's
  anvil path forks at the parent block without the preceding transactions, and
  prints the zero estimate of an error report as "(measured via Anvil)", the error
  on a line below (`cli/main.rs` 279-318, `RunAnvil`).
* *Heuristics that are not marked so.* When `get_preceding_transactions` fails,
  `analyze_tx` measures with none replayed and reports `is_heuristic` false; the
  command line stops instead. It labels a transaction without updates "measured
  estimation failed".
* *Failed reads.* `inject_estimator` takes a failed read of the original for an
  empty account, and `run_estimator` one of the caller, which stays in the cache
  so for the pieces that follow (`unread`).
* *Pieces.* A frame run in pieces pays for cold accesses again in each piece, as
  `gas-estimator` says; the model's operations cost the same warm or cold.
* *Caches.* The executor cache is keyed by block number, so an entry outlives a
  reorganisation. Two misses at once fetch the chain id twice. `MuxSupport`
  pauses in two relaxed stores.
* *Limiter.* A retry is not charged again; a weight above the burst needs the
  bucket full several times while lighter callers keep taking from it.
* *Pages.* The queries of a page are made at different moments and the two views
  refreshed one after the other; `ORDER BY block_timestamp` leaves the rows of
  one block in any order, so paging may repeat or miss them.
* *Unsupported opcodes.* `compute_state_updates` hands only CALL, SSTORE, LOG* and
  CREATE* to the function that reports the others (`core/trace.rs` 351), so under
  `StateEncoding::Legacy` a TSTORE or SELFDESTRUCT of the top-level scope never
  reaches `skipped_opcodes`, where `docs/ARCHITECTURE.md` 295 expects it. The
  walker reports both (`WalkUnsupported`).
* *Overrides and history.* The relabel of `label_override` is `relabel_unknowns`,
  which rewrites the rows that are still unknown. A row the labeler had put under
  another project stays there, where `indexer-web/labels.rs` 113 and
  `docs/INDEXER.md` 278 speak of all historical rows.
* *Price backfill.* It lists the days that have a price once and then upserts the
  others, so a price the hourly loop stores in between is overwritten, although
  the comment at `refresher.rs` 281 says that existing rows are preserved.
* *Labels.* A worker's `upsert_project` puts back a project name an operator has
  changed.
* *Web process.* Two overlapping floor changes may leave Redis and memory
  different, and so does a SET that is run although its answer was lost: the
  operator reads "could not save", and the next start takes it up. A start that
  cannot read Redis takes the default (`floor_doubt` marks the three). A diagnosis
  that answers late replaces a newer one; putting a removed user back revives a
  token still within its time.

## 5. Proofs

| Module | Theorem | States |
|---|---|---|
| `IngestProofs` | `TypeCorrect`, `CursorCovers`, `AgeKept`, `QueueBounded` | `Spec => []TypeOK`, `[]CursorCoverage`, `[]AgeFromFanOut`, `[]QueueBound` |
| | `LedgerImplemented` | `Spec => JobsConserved`: the refinement of `Ledger` |
| | `SkipsAreCounted`, `BlocksBehindIsNatural` | `[]SkipsCounted`, `[]BlocksBehindNonNegative`, if `RpcLag = 0` |
| `CatalogProofs` | `OverridesStick` | `LabelsSpec => []OverrideSticks` |
| | `BackfillKeepsPrices` | `PricesSpec => ExistingPricesKept` (an action property) |
| `WebProofs` | `FloorIsDurable`, `LimitsAreKept` | `ConsoleSpec => []FloorSurvivesRestart`, `[]TimeLimitsKept` |
| | `PagesCoverAll`, `PagesAgree`, `BlacklistHidesExactly` | `DashboardSpec => []PagesShowAll`, `[]ViewsAgree`, `[]BoardsHideExactly` |
| `AnalyzerProofs` | `QuotaIsKept`, `OutcomesHonest` | `AnalyzerSpec => []QuotaKept`, `[]OutcomeHonest` |
| `EncodeProofs` | `OperatorsSignAlike`, `ExecutorsFit` | `EncodeSpec => []OperatorsAgree`, `[]ExecutorFits` |
| `WalkerProofs` | `ImageNative`, `BailsOnlyOnCreate` | `Spec => []ImageIsNative`, `[]FailsOnlyOnCreate` |
| | `CanonicalInSync`, `CanonicalAsTraced`, `CanonicalAborts` | `Spec => []BoundaryInSync`, `[]ReachesTracedWorld`, `[]AbortsOnlyOnFailedCall` (each with the `Settles...` property over it), if `Nestable = {}` and `Divergent = FALSE` |
| `ToolProofs` | `PricesAreComparable` | `ReportSpec => []PricesComparable` |
| | `EstimatesAreIsolated` | `ForkSpec => []EstimatesIsolated` |
| | `CacheIsTruthful` | `EstimateSpec => []CacheTruthful` |

They hold for every value of the constants: any chain, pool of workers, table,
tree or block, any interleaving, and any number of faults.

**Assumptions** are the named `ASSUME`s of the modules that declare the constants,
which TLC evaluates on every run over them: bounds are naturals, model values are
distinct from each other and from the members of the sets they stand beside, the
inputs are records of the code's shape. `WorkersAssumption` and
`AnalyzerAssumption` take the workers and the tasks to be finite,
`DashboardAssumption` the contracts and functions there are rows of, and
`EvmAssumption` the slots an execution touches. `DashboardAssumption` also has
prices that are not negative, and the window of thirty days within the one of
ninety, both as in the code. The last
conjunct of `ForkAssumption` says that filtering a block's receipts leaves a
sequence of its receipts with a target, which is a fact of `SelectSeq` that the
provers have no rule for. The two theorems with `RpcLag = 0` are about nodes
that do not lag; without it both are false (§3). The three theorems
`Canonical...` are about `compute_state_updates_canonical`, which is
`split_frame_tree` with no contract nestable, and about calls that do at
settlement what they did in the trace; the constants of the run `encodings`
satisfy both hypotheses. Without the second, `diverged_replay` shows that the
final state is not determined.

**Invariants.** Hardly any property is inductive alone; what each proof adds:

* `Ingest` (`IInv`). `CursorCoverage` needs `FanProgress` (the loop has pushed
  every call before its index), so that the cursor may move at the loop's end,
  and `CursorOnChain` (a block is fetched only once the head has it), so that the
  block exists. `AgeFromFanOut` follows from `JobsGenuine`: every job stands for
  a call some fan-out pushed at the job's time; requeues keep both. `QueueBound`
  follows from `QueueBudget`: queue, busy workers and the rest of the fan-out
  share one budget. A requeue moves a job from the second to the first, a push
  from the third to the first, and only the depth check opens the third. It needs
  `WorkersHoldJobs`, that a worker holds a job exactly when not idle.
* The refinement maps the copies of a transaction to those in the list and those
  in workers' hands. A claim and a requeue move one between the two, so their sum,
  the ledger's count, stays; the lemmas on `QueueCopies` and `HeldCopies` say how
  one element more or less changes each. `RowsWritten` (a worker past the insert
  has its row) is why "stored" is only said with a row.
* `SkipsBelowCursor`: without lag the cursor never goes back, so the blocks of two
  skips are disjoint and their numbers add up. `HeadAbovePushes`: nothing is
  pushed or stored from above the head last seen.
* `Labels` (`LabelsInv`): types beside the property; in particular what any
  writer resolves, from overlay, sources or dictionary, is a slug.
  `Prices` (`PricesInv`): a listed day that had a price is not among the days the
  backfill is about to write.
* `Console`: `FloorInv` says that a change without company is the only one on its
  way and, once saved, what Redis holds, and that a SET whose answer was lost
  leaves the doubt until a later change is made alone; `SessionInv` ties a cookie's expiry to a
  login; `DiagnoseInv` ties the gate's history to the mutex and the age of an
  answer to its bundle's.
* `Dashboard`. Paging needs `RowsOK` alone and is arithmetic: a row's rank is the
  number of rows above it; the pages reached by "next" are those whose offset is
  at most the number of rows, and a rank lies in exactly one of them.
  `BoardsHideExactly` holds over stale views too and needs `ViewInv`, that their
  lines are of the tables' shape. `ViewsAgree` is about sums of sums: both views
  group the covered rows by some columns, and a page groups their lines again.
  `SumFibres` (a sum over the fibres of a map, added up, is the sum over all) turns
  every total into one over the rows, where the two can be compared; a line exists
  exactly when some row falls into it, and its share is positive, so that no group
  is empty. `ClockInv` has the floor and the windows be days.
* `Analyzer`: `BudgetInv`, that what all tasks have paid and what the bucket still
  holds came from the burst and the refills, is a sum over the tasks; its lemmas
  (one term changes, terms are compared, a subset) are proved by taking a least
  counterexample, as induction over sets is out of reach. `TasksOK` says what a
  task's step presupposes of what the node has said.
* `Walker`: two invariants. `TraceInv` is about the execution alone: each log
  follows the one before it with the same frames open, one more (only after a
  call that was made), or one less, over the storage that leaves: after a revert,
  the one saved when the frame was opened. `WalkInv` says that the walk's frames
  are the ones open at the log last looked at (`Mirrors`): same depths and
  contexts, and for every n the journals of the first n frames show the storage
  that frame n + 1 was opened on. The last part is the strengthening: the image
  itself would say nothing of what is left when the top journal is dropped.
  `PendingOK` says that a frame is awaited exactly after a call, in the context
  the call gives it. Each operator that touches the frames (`flush_slice`,
  `forget_overwritten`, charging gas, committing, entering, leaving) has a lemma
  saying what of this it keeps; `SettledStep` puts them together.
  `FailsOnlyOnCreate` adds `NestedInv`: the candidates the pre-pass has kept are
  calls that opened a frame (`ScanOK` along the fold, shown for every prefix by a
  least counterexample), and the last op of a nested frame's caller is its NESTED
  op while the frame is open (`OpsOK`), which is what removing it on a failure
  looks at.
  The canonical settlement takes three more. `HistoryInv` extends the trace by its
  events and by what a static frame may not do: nothing has changed since it was
  opened. `CanonInv` gives every emitting frame k a world C[k] that its updates lead
  to from C[k - 1] (`Runs`). As long as the frame has not called out, C[k] is the
  traced world but for the root's slots that await a slice, and the frame's view
  says what C[k] holds of the slots it has set (`Clean`); while a call that it
  emitted is open, the updates before the call lead exactly to the world the trace
  saw there, and the view is true of that world (`Away`). A slice sets the slots
  in which the view differs from the image, which by `ImageIsNative` is the native
  storage, so C[k] becomes the traced world just before a call is emitted; a frame
  that commits appends its updates to its parent's, one that fails takes C[k] away
  with them; a call that ends is resumed in the world the trace went on in.
  `SettleInv` then follows the cursor along the worlds the finished program passes
  through: at a boundary the chain is the world of its `CALL`, after the last
  update it is the final one.
* `Encode` (`EncodeInv`): a run's step determines its encoding from the job alone,
  every cached executor is the one its key names, and the program recorded is
  `ProgramOf` its job. `Fork` (`ForkAsLeft`): at each step the node differs from
  its snapshot only in what the steps before have changed. `Estimate`
  (`EstimateInv`): the estimator comes only after the replay, and a replaced
  account stays cached, so that a topped-up caller that is itself a target keeps
  what was put there. `Report` (`ReportInv`): what each stage knows of its input,
  and `HalfPriced`: while one of two settlements has its price, it was obtained
  as the step under way will obtain the other's.

Each proof of an invariant has one case per action. The proof about `Encode`
showed one definition of the model, `static_read`, to be ambiguous (two `CASE`
guards overlapped, so TLC took the first); it now states the order the code has.
The proofs about `Walker` showed the exception of the `Settles...` properties to
be too narrow. `IncrementsKept` compared the counter before and after the call;
an increment in a delegated frame that fails, a call to others, and a second
increment leave it higher in the end and one too low at that call. TLC finds this
with nine logs, which the bounds of `nested` now include, and the exception is now
a counter that at some log after the call's first write of it is not above its
value at the call.

**Only model-checked:**

* liveness (`EveryJobSettles`, `CatchesUp`, `NamedContractsLabelled`,
  `ListedContractsLabelled`, `SelectorsSettled`): fairness is out of the prover's reach;
* `TreePriced`, whose reference order is recursive over the tree: what it computes
  needs induction over data;
* the settlement of nested programs (`Settles...` with a nestable contract, in the
  run `nested`): the proved half is the canonical program, which has one frame at
  settlement; a nested one needs the same argument for a tree of programs and
  views reset at every boundary;
* the choice between encodings over `HybridSpec` (`EncodingsInSync`,
  `EncodingsReachTracedWorld`, `RejectsOnlyCreates`), whose other two encodings
  are folds over the trace;
* witnesses, seeds, gas and prices (`TreeVerifies`, `SeedsOriginal`,
  `CallGasExact`, `PricesConsistent`), which speak of what folds over the
  programs or the tree compute.

## 6. Not modelled

* **Bytes.** ABI encoding, keccak, calldata, JSON and HTTP: values are model
  values and hashes free terms. The byte sizes in the nesting cost model are a
  free choice of the frames that pay.
* **The EVM and the SDK contract** are external: any well-formed trace, and the
  application of a program as `crates/core` relies on it. Gas is one unit per
  log; what a program costs in revm is a library's.
* **Hypothetical eligibility** (`compute_frame_tree_hypothetical`,
  `unnested_owned`): the same walk with a set of addresses in place of the
  increment; only its use by the tools is modelled (`Report`).
* **wasm `net_sstore_costs`**, a table of EIP-2200 charges from a diff.
* **Presentation**: HTML, CSV and terminal output, error texts, the diagnosis'
  prompt, the health page beyond its lag and drop counters.
* **Reorganisations**, which no part of the code looks for.
* `rename_project` and the admin's partial pages, single statements or reads
  that no other part depends on.

`PROJECT.json` lists every component with its status.

## 7. Plan

Done: ingestion with its proofs; extraction, settlement, witnesses and seeds; the
catalog loops; the dashboard and the web process; analyzer, encoding service,
estimate, anvil backend and tools. Left, in this order:

1. The argument of `CanonInv` for a tree of programs, and with it the settlement of
   nested programs whose frames keep their increment.
2. Hypothetical eligibility in `Candidates`, and callee gas beside call gas in
   `Walker` and `Legacy`, so that `CallGasExact` covers both.
3. `Analyzer` in the place of the nondeterministic outcome in `Ingest`.
