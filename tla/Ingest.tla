------------------------------- MODULE Ingest -------------------------------
(***************************************************************************)
(* The block ingestion pipeline of the indexer: one head-tracker process,  *)
(* the Redis job list, a pool of worker processes and the Postgres tables   *)
(* the workers write (crates/indexer-service: head_tracker.rs, queue.rs,   *)
(* worker.rs; the three store statements of worker::handle).               *)
(*                                                                         *)
(* Every await that touches Redis, Postgres or the node is a step of its   *)
(* own, so the head-tracker and the workers interleave between them.  A    *)
(* failed call, a lost reply and a killed process are faults; MaxFaults    *)
(* bounds how many of them a behaviour has.                                *)
(***************************************************************************)
EXTENDS Naturals, Sequences, FiniteSets

CONSTANTS
  Workers,          \* the worker processes
  Address,          \* `to` addresses
  NoTo,             \* a contract creation has no `to`
  MaxHead,          \* bound: the last block the chain grows to
  MaxTxs,           \* bound: the most transactions a block has
  Block,            \* Block[n]: the `to` fields of block n's transactions
  MaxQueueDepth,    \* MAX_QUEUE_DEPTH
  MaxBlocksBehind,  \* MAX_BLOCKS_BEHIND (0 = never skip)
  MaxRetries,       \* WORKER_MAX_RETRIES
  JobTtl,           \* QUEUE_JOB_TTL_SECS (0 = no expiry)
  RpcLag,           \* how far behind the chain a node's answer may be
  MaxClock,         \* bound: the last instant of the clock
  MaxFaults,        \* bound: failed calls, lost replies and kills
  NoJob,            \* what an idle worker holds
  NoHead            \* the last-head key is absent

Blocks == 1 .. MaxHead

ASSUME WorkersAssumption == IsFiniteSet(Workers) /\ Workers # {}
ASSUME BoundsAssumption ==
  /\ MaxHead \in Nat /\ MaxTxs \in Nat /\ MaxClock \in Nat \ {0}
  /\ MaxFaults \in Nat /\ RpcLag \in Nat
ASSUME ConfigAssumption ==
  /\ MaxQueueDepth \in Nat /\ MaxBlocksBehind \in Nat
  /\ MaxRetries \in Nat /\ JobTtl \in Nat
ASSUME BlockAssumption ==
  /\ Block \in [Blocks -> Seq(Address \cup {NoTo})]
  /\ \A n \in Blocks : Len(Block[n]) <= MaxTxs
ASSUME DistinctAssumption == NoTo \notin Address /\ NoHead \notin Nat

\* queue::AnalyzeTxJob.  The hash is the pair (block_number, tx_index), counted
\* from 1; the chain id is one value of the deployment.
Job == [block_number : Blocks, tx_index : 1 .. MaxTxs,
        attempt : Nat, enqueued_at : 1 .. MaxClock]

ASSUME NoJobAssumption == NoJob \notin Job

Tx == Blocks \X (1 .. MaxTxs)
TxOf(j) == <<j.block_number, j.tx_index>>

\* The transactions of block n that enqueue_block does not skip as creations.
Calls(n) == {i \in DOMAIN Block[n] : Block[n][i] # NoTo}

Fates == {"stored", "skipped", "expired", "dead", "lost"}

VARIABLES
  chainHead,        \* the chain's head (external)
  clock,            \* wall-clock time
  (* the head-tracker process *)
  htPc,             \* where head_tracker::run stands
  head,             \* run's `head`
  next_block,       \* run's cursor
  idx,              \* enqueue_block's loop index
  (* Redis *)
  queue,            \* analyzer:queue:pending
  dead,             \* analyzer:queue:dead
  last_head,        \* indexer:state:last_head
  skipped_blocks,   \* indexer:state:skipped_blocks
  expired_jobs,     \* indexer:state:expired_jobs
  (* the workers *)
  wPc,              \* where each worker stands
  job,              \* the job each worker holds
  (* Postgres *)
  analysis,         \* keys of table analysis
  projects,         \* the addresses whose project row exists
  address_project,  \* the addresses that have a mapping
  (* bookkeeping of the specification *)
  faults,           \* faults so far
  pushed,           \* <<tx, time>> of every fan-out push
  fate,             \* <<tx, fate>> of every job copy that has left the pipeline
  skipped,          \* blocks passed over to honour MaxBlocksBehind
  uncounted,        \* those of them whose INCR failed
  missed,           \* blocks passed over by a restart
  publishFailed     \* the latest SET of last_head failed

htVars     == <<htPc, head, next_block, idx>>
redisVars  == <<queue, dead, last_head, skipped_blocks, expired_jobs>>
workerVars == <<wPc, job>>
dbVars     == <<analysis, projects, address_project>>
ghostVars  == <<pushed, fate, skipped, uncounted, missed, publishFailed>>
envVars    == <<chainHead, clock>>
vars == <<envVars, htVars, redisVars, workerVars, dbVars, ghostVars, faults>>

TypeOK ==
  /\ chainHead \in 0 .. MaxHead
  /\ clock \in 1 .. MaxClock
  /\ htPc \in {"down", "poll", "depth", "fetch", "fan"}
  /\ head \in 0 .. MaxHead
  /\ next_block \in 1 .. (MaxHead + 1)
  /\ idx \in 1 .. (MaxTxs + 1)
  /\ queue \in Seq(Job)
  /\ dead \in Seq(Job)
  /\ last_head \in (0 .. MaxHead) \cup {NoHead}
  /\ skipped_blocks \in Nat
  /\ expired_jobs \in Nat
  /\ wPc \in [Workers -> {"idle", "claimed", "analyze", "insert", "project", "map"}]
  /\ job \in [Workers -> Job \cup {NoJob}]
  /\ analysis \subseteq Tx
  /\ projects \subseteq Address
  /\ address_project \subseteq Address
  /\ faults \in 0 .. MaxFaults
  /\ pushed \subseteq Tx \X (1 .. MaxClock)
  /\ fate \subseteq Tx \X Fates
  /\ skipped \subseteq Blocks /\ uncounted \subseteq Blocks /\ missed \subseteq Blocks
  /\ publishFailed \in BOOLEAN

\* The head-tracker has just started on the current head, every worker is
\* waiting on an empty queue and the tables are empty.
Init ==
  /\ chainHead = 0 /\ clock = 1
  /\ htPc = "poll" /\ head = 0 /\ next_block = 1 /\ idx = 1
  /\ queue = <<>> /\ dead = <<>>
  /\ last_head = NoHead /\ skipped_blocks = 0 /\ expired_jobs = 0
  /\ wPc = [w \in Workers |-> "idle"]
  /\ job = [w \in Workers |-> NoJob]
  /\ analysis = {} /\ projects = {} /\ address_project = {}
  /\ faults = 0
  /\ pushed = {} /\ fate = {}
  /\ skipped = {} /\ uncounted = {} /\ missed = {}
  /\ publishFailed = FALSE

\* A call fails, loses its reply, or a process is killed.
Fault == faults < MaxFaults /\ faults' = faults + 1

(***************************************************************************)
(* Environment                                                             *)
(***************************************************************************)
AdvanceChain ==
  /\ chainHead < MaxHead
  /\ chainHead' = chainHead + 1
  /\ UNCHANGED <<clock, htVars, redisVars, workerVars, dbVars, ghostVars, faults>>

Tick ==
  /\ clock < MaxClock
  /\ clock' = clock + 1
  /\ UNCHANGED <<chainHead, htVars, redisVars, workerVars, dbVars, ghostVars, faults>>

\* The 60-second TTL of the last-head key runs out.
ExpireLastHead ==
  /\ last_head # NoHead
  /\ last_head' = NoHead
  /\ UNCHANGED <<envVars, htVars, queue, dead, skipped_blocks, expired_jobs,
                 workerVars, dbVars, ghostVars, faults>>

\* What eth_blockNumber may answer: replicas lag.
SeenHeads == {h \in 0 .. chainHead : chainHead - h <= RpcLag}

(***************************************************************************)
(* The head-tracker                                                        *)
(***************************************************************************)

\* Process start: the cursor is the current head plus one, whatever it was
\* before; the blocks in between are never fanned out.
HtStart ==
  /\ htPc = "down"
  /\ \E h \in SeenHeads :
       /\ next_block' = h + 1
       /\ missed' = missed \cup (next_block .. h)
  /\ htPc' = "poll"
  /\ UNCHANGED <<envVars, head, idx, redisVars, workerVars, dbVars, faults,
                 pushed, fate, skipped, uncounted, publishFailed>>

\* A failed head poll or LLEN leaves run through `?`; a kill may come anywhere.
HtCrash ==
  /\ htPc # "down"
  /\ Fault
  /\ htPc' = "down"
  /\ UNCHANGED <<envVars, head, next_block, idx, redisVars, workerVars, dbVars, ghostVars>>

\* Variant: publishes the head of the previous iteration.
HtPollStale ==
  /\ htPc = "poll"
  /\ head' \in SeenHeads
  /\ last_head' = head /\ publishFailed' = FALSE
  /\ htPc' = "depth"
  /\ UNCHANGED <<envVars, next_block, idx, queue, dead, skipped_blocks, expired_jobs,
                 workerVars, dbVars, pushed, fate, skipped, uncounted, missed, faults>>

\* eth_blockNumber, then the best-effort SET of last_head.
HtPoll ==
  /\ htPc = "poll"
  /\ \E h \in SeenHeads :
       /\ head' = h
       /\ \/ last_head' = h /\ publishFailed' = FALSE /\ UNCHANGED faults
          \/ Fault /\ publishFailed' = TRUE /\ UNCHANGED last_head
  /\ htPc' = "depth"
  /\ UNCHANGED <<envVars, next_block, idx, queue, dead, skipped_blocks, expired_jobs,
                 workerVars, dbVars, pushed, fate, skipped, uncounted, missed>>

\* Variants: the wrong list is measured; the bound is off by one.
SaturatedByDead == Len(dead) > MaxQueueDepth
SaturatedEarly == Len(queue) >= MaxQueueDepth

Saturated == Len(queue) > MaxQueueDepth

\* Backpressure: sleep and poll again.
HtWait ==
  /\ htPc = "depth"
  /\ Saturated
  /\ htPc' = "poll"
  /\ UNCHANGED <<envVars, head, next_block, idx, redisVars, workerVars, dbVars,
                 ghostVars, faults>>

\* head.saturating_sub(next_block) exceeds the bound.
TooFarBehind == MaxBlocksBehind > 0 /\ head > next_block + MaxBlocksBehind

\* Variant: counts the whole lag instead of the blocks passed over.
HtSkipAheadCountsLag ==
  /\ htPc = "depth"
  /\ ~Saturated
  /\ TooFarBehind
  /\ next_block' = head - MaxBlocksBehind
  /\ skipped' = skipped \cup (next_block .. (next_block' - 1))
  /\ skipped_blocks' = skipped_blocks + (head - next_block)
  /\ htPc' = "fetch"
  /\ UNCHANGED <<envVars, head, idx, queue, dead, last_head, expired_jobs, workerVars,
                 dbVars, pushed, fate, uncounted, missed, publishFailed, faults>>

\* The cursor jumps to head - max_blocks_behind and the block there is fetched;
\* INCR of the skip counter is best-effort.
HtSkipAhead ==
  /\ htPc = "depth"
  /\ ~Saturated
  /\ TooFarBehind
  /\ LET new_start == head - MaxBlocksBehind
         gap       == next_block .. (new_start - 1)
     IN  /\ next_block' = new_start
         /\ skipped' = skipped \cup gap
         /\ \/ /\ skipped_blocks' = skipped_blocks + (new_start - next_block)
               /\ UNCHANGED <<uncounted, faults>>
            \/ /\ Fault
               /\ uncounted' = uncounted \cup gap
               /\ UNCHANGED skipped_blocks
  /\ htPc' = "fetch"
  /\ UNCHANGED <<envVars, head, idx, queue, dead, last_head, expired_jobs, workerVars,
                 dbVars, pushed, fate, missed, publishFailed>>

\* Nothing to skip: fetch the block under the cursor once the head has it.
HtProceed ==
  /\ htPc = "depth"
  /\ ~Saturated
  /\ ~TooFarBehind
  /\ htPc' = IF head < next_block THEN "poll" ELSE "fetch"
  /\ UNCHANGED <<envVars, head, next_block, idx, redisVars, workerVars, dbVars,
                 ghostVars, faults>>

\* enqueue_block: the block is fetched and its transactions enumerated.
HtFetch ==
  /\ htPc = "fetch"
  /\ htPc' = "fan"
  /\ idx' = 1
  /\ UNCHANGED <<envVars, head, next_block, redisVars, workerVars, dbVars, ghostVars, faults>>

\* The fetch fails or the node does not know the block yet: same block again.
HtFetchFails ==
  /\ htPc = "fetch"
  /\ Fault
  /\ htPc' = "poll"
  /\ UNCHANGED <<envVars, head, next_block, idx, redisVars, workerVars, dbVars, ghostVars>>

\* Variant: the index is advanced before the job is built.
NewJobOffByOne ==
  [block_number |-> next_block, tx_index |-> idx + 1, attempt |-> 0, enqueued_at |-> clock]

NewJob ==
  [block_number |-> next_block, tx_index |-> idx, attempt |-> 0, enqueued_at |-> clock]

HtSkipCreate ==
  /\ htPc = "fan"
  /\ idx <= Len(Block[next_block])
  /\ Block[next_block][idx] = NoTo
  /\ idx' = idx + 1
  /\ UNCHANGED <<envVars, htPc, head, next_block, redisVars, workerVars, dbVars,
                 ghostVars, faults>>

HtEnqueue ==
  /\ htPc = "fan"
  /\ idx <= Len(Block[next_block])
  /\ Block[next_block][idx] # NoTo
  /\ queue' = Append(queue, NewJob)
  /\ pushed' = pushed \cup {<<TxOf(NewJob), clock>>}
  /\ idx' = idx + 1
  /\ UNCHANGED <<envVars, htPc, head, next_block, dead, last_head, skipped_blocks,
                 expired_jobs, workerVars, dbVars, faults,
                 fate, skipped, uncounted, missed, publishFailed>>

\* Variant: the cursor moves on although a push failed.
HtEnqueueFailsMovesOn ==
  /\ htPc = "fan"
  /\ idx <= Len(Block[next_block])
  /\ Block[next_block][idx] # NoTo
  /\ Fault
  /\ next_block' = next_block + 1
  /\ htPc' = "poll"
  /\ UNCHANGED <<envVars, head, idx, redisVars, workerVars, dbVars, ghostVars>>

\* RPUSH fails, applied or not: the whole block is tried again, so the jobs
\* already pushed are pushed a second time.
HtEnqueueFails ==
  /\ htPc = "fan"
  /\ idx <= Len(Block[next_block])
  /\ Block[next_block][idx] # NoTo
  /\ Fault
  /\ \/ UNCHANGED <<queue, pushed>>
     \/ /\ queue' = Append(queue, NewJob)
        /\ pushed' = pushed \cup {<<TxOf(NewJob), clock>>}
  /\ htPc' = "poll"
  /\ UNCHANGED <<envVars, head, next_block, idx, dead, last_head, skipped_blocks,
                 expired_jobs, workerVars, dbVars,
                 fate, skipped, uncounted, missed, publishFailed>>

\* Every transaction was pushed: the cursor moves on.
HtBlockDone ==
  /\ htPc = "fan"
  /\ idx > Len(Block[next_block])
  /\ next_block' = next_block + 1
  /\ htPc' = "poll"
  /\ UNCHANGED <<envVars, head, idx, redisVars, workerVars, dbVars, ghostVars, faults>>

HeadTracker ==
  \/ HtStart \/ HtPoll \/ HtWait \/ HtSkipAhead \/ HtProceed
  \/ HtFetch \/ HtSkipCreate \/ HtEnqueue \/ HtBlockDone

(***************************************************************************)
(* The workers                                                             *)
(***************************************************************************)

\* Worker w is done with its job, which leaves the pipeline with fate f.
Finish(w, f) ==
  /\ wPc' = [wPc EXCEPT ![w] = "idle"]
  /\ job' = [job EXCEPT ![w] = NoJob]
  /\ fate' = fate \cup {<<TxOf(job[w]), f>>}

To(w) == Block[job[w].block_number][job[w].tx_index]

\* BLPOP.
WkClaim(w) ==
  /\ wPc[w] = "idle"
  /\ queue # <<>>
  /\ job' = [job EXCEPT ![w] = Head(queue)]
  /\ queue' = Tail(queue)
  /\ wPc' = [wPc EXCEPT ![w] = "claimed"]
  /\ UNCHANGED <<envVars, htVars, dead, last_head, skipped_blocks, expired_jobs,
                 dbVars, ghostVars, faults>>

Expired(j) == JobTtl > 0 /\ clock - j.enqueued_at > JobTtl

\* Too old at claim time: dropped; INCR of the expiry counter is best-effort.
WkExpire(w) ==
  /\ wPc[w] = "claimed"
  /\ Expired(job[w])
  /\ Finish(w, "expired")
  /\ \/ expired_jobs' = expired_jobs + 1 /\ UNCHANGED faults
     \/ Fault /\ UNCHANGED expired_jobs
  /\ UNCHANGED <<envVars, htVars, queue, dead, last_head, skipped_blocks, dbVars,
                 pushed, skipped, uncounted, missed, publishFailed>>

\* Young enough: the worker acquires the rate limiter and starts the analysis.
WkAcquire(w) ==
  /\ wPc[w] = "claimed"
  /\ ~Expired(job[w])
  /\ wPc' = [wPc EXCEPT ![w] = "analyze"]
  /\ UNCHANGED <<envVars, htVars, redisVars, job, dbVars, ghostVars, faults>>

\* analyze_tx returns a report; the three store statements follow.
WkReport(w) ==
  /\ wPc[w] = "analyze"
  /\ wPc' = [wPc EXCEPT ![w] = "insert"]
  /\ UNCHANGED <<envVars, htVars, redisVars, job, dbVars, ghostVars, faults>>

\* analyze_tx returns Skipped(reason).
WkSkip(w) ==
  /\ wPc[w] = "analyze"
  /\ Finish(w, "skipped")
  /\ UNCHANGED <<envVars, htVars, redisVars, dbVars, faults,
                 pushed, skipped, uncounted, missed, publishFailed>>

\* Variants: the retry refreshes the age; the retry is not counted.
next_attempt_refreshed(j) == [j EXCEPT !.attempt = @ + 1, !.enqueued_at = clock]
next_attempt_uncounted(j) == j

next_attempt(j) == [j EXCEPT !.attempt = @ + 1]

RetriesLeft(j) == j.attempt + 1 < MaxRetries

\* Variant: the failed job is dropped instead of pushed back.
WkRequeueForgets(w) ==
  /\ wPc[w] = "analyze"
  /\ RetriesLeft(job[w])
  /\ wPc' = [wPc EXCEPT ![w] = "idle"]
  /\ job' = [job EXCEPT ![w] = NoJob]
  /\ UNCHANGED <<envVars, htVars, redisVars, dbVars, ghostVars, faults>>

\* analyze_tx fails or times out with retries left: back to the tail.
WkRequeue(w) ==
  /\ wPc[w] = "analyze"
  /\ RetriesLeft(job[w])
  /\ queue' = Append(queue, next_attempt(job[w]))
  /\ wPc' = [wPc EXCEPT ![w] = "idle"]
  /\ job' = [job EXCEPT ![w] = NoJob]
  /\ UNCHANGED <<envVars, htVars, dead, last_head, skipped_blocks, expired_jobs,
                 dbVars, ghostVars, faults>>

\* analyze_tx fails on its last attempt: dead-lettered.
WkDeadLetter(w) ==
  /\ wPc[w] = "analyze"
  /\ ~RetriesLeft(job[w])
  /\ dead' = Append(dead, job[w])
  /\ Finish(w, "dead")
  /\ UNCHANGED <<envVars, htVars, queue, last_head, skipped_blocks, expired_jobs,
                 dbVars, faults, pushed, skipped, uncounted, missed, publishFailed>>

\* insert_analysis, upsert_project and upsert_address_project: three statements,
\* each idempotent on its key.
WkInsert(w) ==
  /\ wPc[w] = "insert"
  /\ analysis' = analysis \cup {TxOf(job[w])}
  /\ wPc' = [wPc EXCEPT ![w] = "project"]
  /\ UNCHANGED <<envVars, htVars, redisVars, job, projects, address_project,
                 ghostVars, faults>>

WkUpsertProject(w) ==
  /\ wPc[w] = "project"
  /\ projects' = projects \cup {To(w)}
  /\ wPc' = [wPc EXCEPT ![w] = "map"]
  /\ UNCHANGED <<envVars, htVars, redisVars, job, analysis, address_project,
                 ghostVars, faults>>

WkUpsertAddress(w) ==
  /\ wPc[w] = "map"
  /\ address_project' = address_project \cup {To(w)}
  /\ Finish(w, "stored")
  /\ UNCHANGED <<envVars, htVars, redisVars, analysis, projects, faults,
                 pushed, skipped, uncounted, missed, publishFailed>>

\* What becomes of the job when worker w gives up where it stands: it is lost
\* unless its row was already written.
Abandoned(w) == IF wPc[w] \in {"project", "map"} THEN "stored" ELSE "lost"

\* A requeue, a dead-letter push or a store statement fails (handle's `?`, only
\* logged by run), or the process is killed and restarted: nothing puts the
\* job back.
WkAbandon(w) ==
  /\ job[w] # NoJob
  /\ Fault
  /\ Finish(w, Abandoned(w))
  /\ UNCHANGED <<envVars, htVars, redisVars, dbVars,
                 pushed, skipped, uncounted, missed, publishFailed>>

\* The BLPOP reply is lost after Redis has popped the job.
WkClaimLost(w) ==
  /\ wPc[w] = "idle"
  /\ queue # <<>>
  /\ Fault
  /\ fate' = fate \cup {<<TxOf(Head(queue)), "lost">>}
  /\ queue' = Tail(queue)
  /\ UNCHANGED <<envVars, htVars, dead, last_head, skipped_blocks, expired_jobs,
                 workerVars, dbVars, pushed, skipped, uncounted, missed, publishFailed>>

Worker(w) ==
  \/ WkClaim(w) \/ WkExpire(w) \/ WkAcquire(w) \/ WkReport(w) \/ WkSkip(w)
  \/ WkRequeue(w) \/ WkDeadLetter(w)
  \/ WkInsert(w) \/ WkUpsertProject(w) \/ WkUpsertAddress(w)

Environment == AdvanceChain \/ Tick \/ ExpireLastHead

Faulty ==
  \/ HtCrash \/ HtFetchFails \/ HtEnqueueFails
  \/ \E w \in Workers : WkAbandon(w) \/ WkClaimLost(w)

Next == Environment \/ Faulty \/ HeadTracker \/ \E w \in Workers : Worker(w)

Spec == Init /\ [][Next]_vars

(***************************************************************************)
(* Fairness.  Both processes loop for ever, every await of theirs returns   *)
(* (timeouts bound the analysis) and the deployment restarts a process that *)
(* exits, so a step that stays enabled is taken.  Nothing is assumed of the *)
(* chain, the clock or the faults, nor of what an analysis returns.         *)
(***************************************************************************)
FairSpec == Spec /\ WF_vars(HeadTracker) /\ \A w \in Workers : WF_vars(Worker(w))

-----------------------------------------------------------------------------
(***************************************************************************)
(* Properties                                                              *)
(***************************************************************************)

\* Backpressure bounds the queue although LLEN is read before the fan-out and
\* the workers requeue meanwhile: on top of MAX_QUEUE_DEPTH the list holds at
\* most one block's jobs and one requeued job per worker.
QueueBound == Len(queue) <= MaxQueueDepth + MaxTxs + Cardinality(Workers)

\* The cursor never leaves a block behind unnoticed: every call of a block below
\* it was pushed, or the block was skipped for MAX_BLOCKS_BEHIND, or a restart
\* of the head-tracker moved the cursor past it.  Failed fetches and pushes
\* retry the same block.
CursorCoverage ==
  \A b \in 1 .. (next_block - 1) :
    \/ b \in skipped \cup missed
    \/ \A i \in Calls(b) : \E t \in 1 .. MaxClock : <<<<b, i>>, t>> \in pushed

\* indexer:state:skipped_blocks counts exactly the blocks skipped, except those
\* whose best-effort INCR failed (nodes that do not lag).
SkipsCounted == skipped_blocks = Cardinality(skipped \ uncounted)

\* The lag /admin shows, last_head minus the newest analysed block, is never
\* negative while the key is present and its latest SET succeeded: the head is
\* published before the blocks up to it are fanned out (nodes that do not lag).
BlocksBehindNonNegative ==
  last_head # NoHead /\ ~publishFailed => \A t \in analysis : t[1] <= last_head

\* The TTL of a job runs from a fan-out of its transaction, never from a retry:
\* every job in Redis or in a worker carries the time of a head-tracker push.
AgeFromFanOut ==
  \A j \in {queue[i] : i \in DOMAIN queue} \cup {job[w] : w \in Workers} :
    j # NoJob => <<TxOf(j), j.enqueued_at>> \in pushed

\* The copies of transaction t in Redis and in the workers.
QueueCopies(q, t) == Cardinality({i \in DOMAIN q : TxOf(q[i]) = t})
HeldCopies(held, t) == Cardinality({w \in Workers : held[w] # NoJob /\ TxOf(held[w]) = t})
Copies(t) == QueueCopies(queue, t) + HeldCopies(job, t)

\* The pipeline implements the job ledger: claims and requeues neither create
\* nor destroy a copy, and a copy that leaves has one recorded fate.
JobLedger == INSTANCE Ledger WITH
  inflight <- [t \in Tx |-> Copies(t)], rows <- analysis, fate <- fate

JobsConserved == JobLedger!Spec

\* Every transaction that is fanned out reaches a fate: the retry budget is
\* finite, requeued jobs come round again, and a duplicate push does not starve
\* the others.
EveryJobSettles ==
  \A t \in Tx : (\E c \in pushed : c[1] = t) ~> (\E f \in Fates : <<t, f>> \in fate)

\* The head-tracker is never held back for ever: backpressure ends, failed
\* blocks are retried and a restart resumes, so the cursor keeps passing the
\* highest head a node may still report.
CatchesUp == []<>(next_block + RpcLag > chainHead)

\* The promise of MAX_BLOCKS_BEHIND = 0, "never drop, lag and catch up": no step
\* passes over a block the head-tracker has already seen on the chain.
NeverDropsSeenBlocks ==
  [][MaxBlocksBehind = 0 =>
       \A b \in (skipped' \cup missed') \ (skipped \cup missed) : b > head]_vars

-----------------------------------------------------------------------------
(***************************************************************************)
(* The inductive invariant behind TypeOK, CursorCoverage, AgeFromFanOut and *)
(* QueueBound                                                              *)
(***************************************************************************)

\* A job stands for a call that some fan-out pushed at the job's time.
Genuine(j) ==
  /\ j.tx_index \in Calls(j.block_number)
  /\ <<TxOf(j), j.enqueued_at>> \in pushed

JobsGenuine ==
  /\ \A i \in 1 .. Len(queue) : Genuine(queue[i])
  /\ \A w \in Workers : job[w] # NoJob => Genuine(job[w])

WorkersHoldJobs == \A w \in Workers : job[w] = NoJob <=> wPc[w] = "idle"

\* A block is only fetched once the head has reached it.
CursorOnChain ==
  /\ htPc \in {"fetch", "fan"} => next_block <= head
  /\ htPc = "fan" => idx <= Len(Block[next_block]) + 1

Pushed(b, i) == \E t \in 1 .. MaxClock : <<<<b, i>>, t>> \in pushed

\* The loop of enqueue_block has pushed every call before its index.
FanProgress ==
  htPc = "fan" => \A i \in Calls(next_block) : i < idx => Pushed(next_block, i)

Busy == {w \in Workers : job[w] # NoJob}

\* The jobs the head-tracker may still push before it looks at the depth again.
Remaining ==
  IF htPc = "fetch" THEN MaxTxs
  ELSE IF htPc = "fan" THEN (Len(Block[next_block]) + 1) - idx ELSE 0

\* Queue, workers and the rest of the fan-out share one budget: a requeue moves a
\* job from the second to the first, a push from the third to the first.
QueueBudget ==
  Len(queue) + Cardinality(Busy) + Remaining
    <= MaxQueueDepth + MaxTxs + Cardinality(Workers)

IInv ==
  /\ TypeOK /\ JobsGenuine /\ WorkersHoldJobs /\ CursorOnChain
  /\ FanProgress /\ CursorCoverage /\ QueueBudget

\* What the refinement needs besides: a worker past the insert has its row.
RowsWritten == \A w \in Workers : wPc[w] \in {"project", "map"} => TxOf(job[w]) \in analysis

\* With nodes that do not lag the cursor never goes back, so that no block is
\* skipped twice, ...
SkipsBelowCursor ==
  /\ head <= chainHead /\ next_block <= chainHead + 1
  /\ uncounted \subseteq skipped /\ skipped \subseteq 1 .. (next_block - 1)
  /\ SkipsCounted

\* ... and neither does the head, so that nothing is pushed or stored from above
\* the head that was published.
HeadAbovePushes ==
  /\ \A c \in pushed : c[1][1] <= head
  /\ \A t \in analysis : t[1] <= head
  /\ last_head # NoHead /\ ~publishFailed => last_head = head
=============================================================================
