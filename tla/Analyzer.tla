------------------------------ MODULE Analyzer ------------------------------
(***************************************************************************)
(* The RPC budget and what is done with it: tasks charge a token bucket in *)
(* chunks, take a concurrency slot, and then poll the head or analyse a    *)
(* transaction, whose requests are retried, bounded by one timeout over    *)
(* the whole analysis.                                                     *)
(*                                                                         *)
(* Clones of a limiter share its bucket and its slots.  The head-tracker   *)
(* and each worker use one of their own, from one loop; the model has the  *)
(* general case, several tasks and both weights on one bucket.             *)
(*                                                                         *)
(* What the node would say of a transaction is chosen when it says it: a   *)
(* request that succeeds is not repeated, so each thing is said once.      *)
(***************************************************************************)
EXTENDS Integers, FiniteSetsExt

CONSTANTS
  Poll,            \* tasks that poll the head
  Analysis,        \* tasks that analyse a transaction
  PollWeight, AnalyzeWeight, \* weights::HEAD_POLL, weights::ANALYZE_TX
  BucketBurst, RefillRate,   \* config.burst, config.rps_budget
  MaxConcurrency,  \* config.max_concurrency
  MaxAttempts,     \* RetryConfig::max_attempts
  HeuristicOnly,   \* AnalyzerConfig::heuristic_only
  MaxRefills       \* bound: seconds

RpcTask == Poll \cup Analysis

ASSUME AnalyzerAssumption ==
  /\ BucketBurst \in Nat \ {0} /\ RefillRate \in Nat \ {0} /\ MaxConcurrency \in Nat \ {0}
  /\ MaxAttempts \in Nat \ {0} /\ PollWeight \in Nat /\ AnalyzeWeight \in Nat
  /\ Poll \cap Analysis = {} /\ IsFiniteSet(RpcTask)

VARIABLES
  tokens,          \* in the bucket
  refills,         \* seconds since the start
  task             \* [RpcTask -> [pc, left, tries, said, outcome]]

rpcVars == <<tokens, refills, task>>

WeightOf(t) == IF t \in Poll THEN PollWeight ELSE AnalyzeWeight

\* What a task is charged: nothing is free.
Owed(t) == Max({WeightOf(t), 1})

Requests == {"receipt", "block", "tx", "trace"}    \* each under with_retry
Working == Requests \cup {"poll", "preceding", "build", "measure"}
Running == {t \in RpcTask : task[t].pc \in Working}

Goto(t, pc) == task' = [task EXCEPT ![t].pc = pc, ![t].tries = 0]
Ends(t, outcome) == task' = [task EXCEPT ![t].pc = "done", ![t].outcome = outcome]

AnalyzerInit ==
  /\ tokens = BucketBurst /\ refills = 0
  /\ task = [t \in RpcTask |-> [pc |-> "charge", left |-> Owed(t), tries |-> 0,
                                said |-> {}, outcome |-> [kind |-> "none"]]]

-----------------------------------------------------------------------------
(* RateLimiter::acquire. *)

Refill ==
  /\ refills < MaxRefills /\ refills' = refills + 1
  /\ tokens' = Min({BucketBurst, tokens + RefillRate})
  /\ UNCHANGED task

\* Mutant: a weight above the burst is charged as one burst.
ChargeOnce(t) ==
  LET chunk == Min({task[t].left, BucketBurst}) IN
  /\ task[t].pc = "charge" /\ tokens >= chunk
  /\ tokens' = tokens - chunk
  /\ task' = [task EXCEPT ![t].left = 0, ![t].pc = "permit"]
  /\ UNCHANGED refills

\* until_n_ready for a chunk the bucket can hold.
Charge(t) ==
  LET chunk == Min({task[t].left, BucketBurst}) IN
  /\ task[t].pc = "charge" /\ tokens >= chunk
  /\ tokens' = tokens - chunk
  /\ task' = [task EXCEPT ![t].left = @ - chunk,
                          ![t].pc = IF task[t].left = chunk THEN "permit" ELSE "charge"]
  /\ UNCHANGED refills

TakeSlot(t) ==
  /\ task[t].pc = "permit" /\ Cardinality(Running) < MaxConcurrency
  /\ Goto(t, IF t \in Poll THEN "poll" ELSE "receipt")
  /\ UNCHANGED <<tokens, refills>>

PollDone(t) ==
  /\ task[t].pc = "poll"
  /\ Ends(t, [kind |-> "polled"])
  /\ UNCHANGED <<tokens, refills>>

-----------------------------------------------------------------------------
(* analyze_tx. *)

AnalyzerFails(t, error) == Ends(t, [kind |-> "failed", error |-> error])
Reports(t, heuristic, reason) ==
  Ends(t, [kind |-> "report", is_heuristic |-> heuristic, failure_reason |-> reason])

\* Receipts: none yet, reverted, a creation, below the gas threshold, one that
\* lacks its block or index, or one to analyse.
Receipts == {"absent", "reverted", "creation", "cheap", "partial", "good"}

Said(t, what, next) ==
  task' = [task EXCEPT ![t].pc = next, ![t].tries = 0, ![t].said = @ \cup {what}]
SaidLast(t, what, outcome) ==
  task' = [task EXCEPT ![t].pc = "done", ![t].said = @ \cup {what}, ![t].outcome = outcome]
Skipped(reason) == [kind |-> "skipped", reason |-> reason]
FailedWith(error) == [kind |-> "failed", error |-> error]

ReceiptAnswer(t, receipt) ==
  CASE receipt = "good"     -> Said(t, receipt, "block")
    [] receipt = "absent"   -> SaidLast(t, receipt, FailedWith("receipt"))
    [] receipt = "partial"  -> SaidLast(t, receipt, FailedWith("rpc"))
    [] receipt = "reverted" -> SaidLast(t, receipt, Skipped("Reverted"))
    [] receipt = "creation" -> SaidLast(t, receipt, Skipped("ContractCreation"))
    [] receipt = "cheap"    -> SaidLast(t, receipt, Skipped("BelowGasThreshold"))

\* The trace's extraction has no updates, or some: with heuristic_only the
\* report follows from them alone.
TraceAnswer(t, updates) ==
  IF updates = "no updates" THEN SaidLast(t, updates, Skipped("NoStateUpdates"))
  ELSE IF HeuristicOnly
  THEN SaidLast(t, updates, [kind |-> "report", is_heuristic |-> TRUE, failure_reason |-> FALSE])
  ELSE Said(t, updates, "preceding")

\* A request that is answered; a transaction the node does not know leaves
\* the selector and the value zero.
Answered(t) ==
  /\ task[t].pc \in Requests
  /\ CASE task[t].pc = "receipt" -> \E r \in Receipts : ReceiptAnswer(t, r)
       [] task[t].pc = "block"   -> Said(t, "block", "tx") \/ SaidLast(t, "no block", FailedWith("rpc"))
       [] task[t].pc = "tx"      -> Said(t, "tx", "trace")
       [] task[t].pc = "trace"   -> \E u \in {"no updates", "updates"} : TraceAnswer(t, u)
  /\ UNCHANGED <<tokens, refills>>

\* Mutant: a trace that cannot be had counts as one without updates.
RequestErrorSkips(t, transient) ==
  IF task[t].tries + 1 >= MaxAttempts \/ ~transient
  THEN IF task[t].pc = "trace" THEN Ends(t, Skipped("NoStateUpdates")) ELSE AnalyzerFails(t, "rpc")
  ELSE task' = [task EXCEPT ![t].tries = @ + 1]

\* with_retry: a transient error is retried, after a backoff, until the
\* attempts are used up; any other error ends the analysis at once.
RequestError(t, transient) ==
  IF task[t].tries + 1 >= MaxAttempts \/ ~transient
  THEN AnalyzerFails(t, IF task[t].pc = "trace" THEN "trace" ELSE "rpc")
  ELSE task' = [task EXCEPT ![t].tries = @ + 1]

RequestFails(t) ==
  /\ task[t].pc \in Requests
  /\ \E transient \in BOOLEAN : RequestError(t, transient)
  /\ UNCHANGED <<tokens, refills>>

\* get_preceding_transactions: a failure is logged and none are replayed.
FetchPreceding(t) ==
  /\ task[t].pc = "preceding"
  /\ \E found \in {"preceding", "no preceding"} : Said(t, found, "build")
  /\ UNCHANGED <<tokens, refills>>

BuildSketch(t) ==
  /\ task[t].pc = "build"
  /\ Goto(t, "measure") \/ AnalyzerFails(t, "estimation")
  /\ UNCHANGED <<tokens, refills>>

\* Measured, or the heuristic with the reason why not.
Measure(t) ==
  /\ task[t].pc = "measure"
  /\ Reports(t, FALSE, FALSE) \/ Reports(t, TRUE, TRUE)
  /\ UNCHANGED <<tokens, refills>>

\* The worker's backstop over the whole analysis.
AnalyzeTimeout(t) ==
  /\ t \in Analysis /\ task[t].pc \in Working \ {"measure"}
  /\ AnalyzerFails(t, "rpc")
  /\ UNCHANGED <<tokens, refills>>

AnalyzerNext ==
  \/ Refill
  \/ \E t \in RpcTask : Charge(t) \/ TakeSlot(t)
  \/ \E t \in Poll : PollDone(t)
  \/ \E t \in Analysis : \/ Answered(t) \/ RequestFails(t) \/ AnalyzeTimeout(t)
                         \/ FetchPreceding(t) \/ BuildSketch(t) \/ Measure(t)

AnalyzerSpec == AnalyzerInit /\ [][AnalyzerNext]_rpcVars

-----------------------------------------------------------------------------
(* Properties. *)

Begun == {t \in RpcTask : task[t].pc \in Working \cup {"done"}}

\* What has been begun never weighs more than the bucket could have given by
\* now, weights above the burst included, and the slots bound what runs at
\* once, however the tasks interleave their chunks.
QuotaKept ==
  /\ MapThenSumSet(WeightOf, Begun) <= BucketBurst + RefillRate * refills
  /\ Cardinality(Running) <= MaxConcurrency

Grounds == [Reverted |-> "reverted", ContractCreation |-> "creation",
            BelowGasThreshold |-> "cheap", NoStateUpdates |-> "no updates"]

\* What an outcome may rest on, of what the node has said.
Honest(outcome, said) ==
  /\ outcome.kind = "skipped" => Grounds[outcome.reason] \in said
  /\ outcome.kind = "report" =>
       /\ {"good", "block", "updates"} \subseteq said
       /\ ~outcome.is_heuristic => said \cap {"preceding", "no preceding"} # {}
       /\ outcome.failure_reason => outcome.is_heuristic

\* A transaction is given up for good, as skipped, only for what the node said
\* of it, and never because a request failed or timed out: those end as
\* failures, which the worker retries.  A report rests on a receipt, a block
\* and a trace with updates, and says so when its figure is not measured.
OutcomeHonest == \A t \in Analysis : Honest(task[t].outcome, task[t].said)

-----------------------------------------------------------------------------
(* What the two rest on. *)

\* What an analysis has heard from the node when it is at a step.
Presupposed(pc, said) ==
  /\ pc \in {"block", "tx", "trace", "preceding", "build", "measure"} => "good" \in said
  /\ pc \in {"tx", "trace", "preceding", "build", "measure"} => "block" \in said
  /\ pc \in {"preceding", "build", "measure"} => "updates" \in said
  /\ pc \in {"build", "measure"} => said \cap {"preceding", "no preceding"} # {}

\* A task that is past the bucket has paid all it owes.
TaskOK(t) ==
  /\ DOMAIN task[t] = {"pc", "left", "tries", "said", "outcome"}
  /\ task[t].pc \in Working \cup {"charge", "permit", "done"}
  /\ task[t].left \in 0..Owed(t)
  /\ task[t].pc # "charge" => task[t].left = 0
  /\ task[t].pc # "done" => task[t].outcome = [kind |-> "none"]
  /\ t \in Analysis => Presupposed(task[t].pc, task[t].said)

TasksOK == DOMAIN task = RpcTask /\ \A t \in RpcTask : TaskOK(t)
=============================================================================
