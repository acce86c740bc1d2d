------------------------------- MODULE Encode -------------------------------
(***************************************************************************)
(* One operator's encoding service: concurrent runs of                     *)
(* call_to_encoded_state_updates and call_to_frame_tree over a shared      *)
(* executor cache, against nodes that lack tracers, lag, throttle or fail. *)
(*                                                                         *)
(* A job names an endpoint, a block and a call; what the call does at that *)
(* block is a fact of the job, what a node answers is not.  Two runs of a  *)
(* job stand for two operators, or for one operator twice: the program     *)
(* they sign is what must not depend on the node.  A run's trace and its   *)
(* executor are fetched concurrently in the code; they share no state, and *)
(* are taken one after the other here.                                     *)
(***************************************************************************)
EXTENDS Integers, FiniteSetsExt, SequencesExt

CONSTANTS
  Runner,         \* concurrent runs
  Jobs,           \* [url, block, api, fails, net, callees, heavy]
  Encoding,       \* the fleet's StateEncoding
  Unbounded,      \* SimProfile::Unbounded, or the chain's profile
  Registry,       \* [addresses -> its registry, or "none"]: nested_registry's truth
  Root,           \* the address every job calls
  ChainOf,        \* [urls -> chain id]
  Supported,      \* chain ids with a hardfork schedule
  Capacity,       \* the executor cache's capacity
  RejectionLimit, \* MUX_REJECTIONS_BEFORE_PAUSE
  MuxPause,       \* MUX_PAUSE
  MaxRuns,        \* bound: runs in all
  MaxMuxTime      \* bound: time

Url == DOMAIN ChainOf

ASSUME EncodeAssumption ==
  /\ Jobs \subseteq [url: Url, block: Nat, api: {"encode", "tree"}, fails: BOOLEAN, net: BOOLEAN,
                    callees: SUBSET DOMAIN Registry, heavy: BOOLEAN]
  /\ Encoding \in {"PrestateNet", "Canonical", "Legacy"}
  /\ Capacity \in Nat \ {0}

VARIABLES
  run,            \* [Runner -> [pc, job, ...]]
  mux,            \* [Url -> [until, rejections]]: MuxSupport's two atomics
  chain_ids,      \* [Url -> {} or {the chain id}]
  inner,          \* the LRU cache: Seq([key, exec]), most recently used first
  signed,         \* history: [job, program] of the runs that succeeded
  runs, mux_time

encodeVars == <<run, mux, chain_ids, inner, signed, runs, mux_time>>

NoRun == [pc |-> "idle"]
At(r, pc) == run[r].pc = pc
Goes(r, pc) == run' = [run EXCEPT ![r].pc = pc]
Errors(r) == run' = [run EXCEPT ![r] = NoRun]
Holds(r, program) == run' = [run EXCEPT ![r].pc = "lookup", ![r].program = program]

-----------------------------------------------------------------------------
(* What a node may answer. *)

\* An error response: whether its code, or its wording, says the EVM failed,
\* whether it is reth's wrapping of an internal failure, whether it throttles,
\* and whether it says that the tracer is not offered.
ErrorPayload == [code: BOOLEAN, wording: BOOLEAN, revm: BOOLEAN, throttles: BOOLEAN, tracer: BOOLEAN]

\* Mutant: a node's internal failure that quotes the EVM counts as the EVM's.
is_evm_wording(e) == e.code \/ e.wording

is_evm_failure(e) == ~e.revm /\ (e.code \/ e.wording)

Plainly == [code |-> FALSE, wording |-> FALSE, revm |-> FALSE, throttles |-> FALSE, tracer |-> FALSE]

\* What a node says of a call that fails in the EVM, and what it says for
\* reasons of its own: internal failures quote the EVM's words.
EvmErrors == {[Plainly EXCEPT !.code = TRUE], [Plainly EXCEPT !.wording = TRUE]}
NodeErrors == {Plainly, [Plainly EXCEPT !.revm = TRUE, !.wording = TRUE],
               [Plainly EXCEPT !.throttles = TRUE], [Plainly EXCEPT !.tracer = TRUE]}

CallErrors(job) == NodeErrors \cup (IF job.fails THEN EvmErrors ELSE {})

\* A throttled or unanswered request is an error for the caller; the other
\* errors are answers about the tracer.
classify_mux_error(e) ==
  CASE e.throttles -> "error" [] e.tracer -> "unsupported" [] OTHER -> "rejected"

-----------------------------------------------------------------------------
(* muxTracer, and the pause. *)

is_paused(u) == mux_time < mux[u].until

\* prestate_diff_and_call_frame begins with the one check of the pause.
CheckPause(r) ==
  /\ At(r, "net")
  /\ Goes(r, IF is_paused(run[r].job.url) THEN "separate" ELSE "mux")
  /\ UNCHANGED <<mux, chain_ids, inner, signed, runs, mux_time>>

answered(u) == mux' = [mux EXCEPT ![u].rejections = 0]

MuxFrames(r) ==
  /\ At(r, "mux")
  /\ answered(run[r].job.url) /\ Goes(r, "classify")
  /\ UNCHANGED <<chain_ids, inner, signed, runs, mux_time>>

\* fetch_add, and whether it was one too many; a pause takes two more stores.
rejected(r, u) ==
  /\ mux' = [mux EXCEPT ![u].rejections = @ + 1]
  /\ Goes(r, IF mux[u].rejections + 1 >= RejectionLimit THEN "pause" ELSE "separate")

MuxError(r) ==
  LET u == run[r].job.url IN
  /\ At(r, "mux")
  /\ \E e \in CallErrors(run[r].job) :
       CASE classify_mux_error(e) = "error" -> Errors(r) /\ UNCHANGED mux
         [] classify_mux_error(e) = "unsupported" -> Goes(r, "pause") /\ UNCHANGED mux
         [] is_evm_failure(e) -> answered(u) /\ Errors(r)
         [] OTHER -> rejected(r, u)
  /\ UNCHANGED <<chain_ids, inner, signed, runs, mux_time>>

\* An answer that is not the two frames.
MuxMalformed(r) ==
  /\ At(r, "mux") /\ Goes(r, "pause")
  /\ UNCHANGED <<mux, chain_ids, inner, signed, runs, mux_time>>

PauseUntil(r) ==
  /\ At(r, "pause")
  /\ mux' = [mux EXCEPT ![run[r].job.url].until = mux_time + MuxPause]
  /\ Goes(r, "clear")
  /\ UNCHANGED <<chain_ids, inner, signed, runs, mux_time>>

PauseClears(r) ==
  /\ At(r, "clear")
  /\ mux' = [mux EXCEPT ![run[r].job.url].rejections = 0]
  /\ Goes(r, "separate")
  /\ UNCHANGED <<chain_ids, inner, signed, runs, mux_time>>

\* The two tracers separately: both answers, or an error.
SeparateTracers(r) ==
  /\ At(r, "separate")
  /\ Goes(r, "classify") \/ Errors(r)
  /\ UNCHANGED <<mux, chain_ids, inner, signed, runs, mux_time>>

-----------------------------------------------------------------------------
(* Extraction. *)

signs_prestate_net == Encoding = "PrestateNet"
struct_log_encoder == IF Encoding = "Legacy" THEN "legacy" ELSE "canonical"

\* A tree needs an encoder that splits traces.
StartRun(r, job) ==
  /\ run[r] = NoRun /\ runs < MaxRuns /\ runs' = runs + 1
  /\ job.api = "tree" => Encoding # "Legacy"
  /\ run' = [run EXCEPT ![r] = [pc |-> IF signs_prestate_net THEN "net" ELSE "trace",
                                job |-> job, program |-> {}, exec |-> {}]]
  /\ UNCHANGED <<mux, chain_ids, inner, signed, mux_time>>

\* try_prestate_net: a failed root frame is an EvmFailure; an eligible call has
\* the net form as its program, and the others go to the struct logs.
try_prestate_net(r) ==
  /\ At(r, "classify")
  /\ IF run[r].job.fails THEN Errors(r)
     ELSE IF run[r].job.net THEN Holds(r, {[form |-> "net", nested |-> {}]})
     ELSE Goes(r, "trace")
  /\ UNCHANGED <<mux, chain_ids, inner, signed, runs, mux_time>>

\* get_trace_from_call: an error, or a trace that must not have failed.
FetchTrace(r) ==
  /\ At(r, "trace")
  /\ \/ Errors(r)
     \/ IF run[r].job.fails THEN Errors(r)
        ELSE IF run[r].job.api = "tree" THEN Goes(r, "probe")
        ELSE Holds(r, {[form |-> struct_log_encoder, nested |-> {}]})
  /\ UNCHANGED <<mux, chain_ids, inner, signed, runs, mux_time>>

\* eth_call: the registry of a nestable contract, none when the read fails in
\* the EVM, and an error when the node could not answer.
static_read(a, e) ==
  IF e = {} THEN {Registry[a]}
  ELSE IF \A x \in e : is_evm_failure(x) THEN {"none"} ELSE {}

\* What may come of the read: the truth, as a value or as an error of the EVM,
\* or an error of the node.
Reads(a) == {{x} : x \in NodeErrors} \cup
            (IF Registry[a] = "none" THEN {{x} : x \in EvmErrors} \cup {{}} ELSE {{}})

\* The callees that share the root's registry.
Nestable(job, answers) ==
  {a \in job.callees : static_read(a, answers[a]) = static_read(Root, answers[Root])
                       /\ static_read(Root, answers[Root]) # {"none"}}

\* Any read that failed for a reason of the node's fails the run.
nestable_callees(r) ==
  LET job == run[r].job
      probed == job.callees \cup {Root}
  IN /\ At(r, "probe")
     /\ \E answers \in [probed -> UNION {Reads(a) : a \in probed}] :
          /\ \A a \in probed : answers[a] \in Reads(a)
          /\ IF \E a \in probed : static_read(a, answers[a]) = {} THEN Errors(r)
             ELSE Holds(r, {[form |-> "canonical", nested |-> Nestable(job, answers)]})
     /\ UNCHANGED <<mux, chain_ids, inner, signed, runs, mux_time>>

-----------------------------------------------------------------------------
(* The executor cache. *)

\* Mutant: the endpoint is left out of the cache key.
KeyOfBlock(job) == <<job.block>>

KeyOf(job) == <<job.url, job.block>>
Built(job) == {i \in DOMAIN inner : inner[i].key = KeyOf(job)}

\* A hit makes the entry the most recently used.
CacheHit(r) ==
  /\ At(r, "lookup")
  /\ \E i \in Built(run[r].job) :
       /\ inner' = <<inner[i]>> \o RemoveAt(inner, i)
       /\ run' = [run EXCEPT ![r].pc = "estimate", ![r].exec = {inner[i].exec}]
  /\ UNCHANGED <<mux, chain_ids, signed, runs, mux_time>>

\* The lock is not held while the chain id is fetched and the executor built.
CacheMiss(r) ==
  /\ At(r, "lookup") /\ Built(run[r].job) = {}
  /\ Goes(r, IF chain_ids[run[r].job.url] = {} THEN "chain" ELSE "build")
  /\ UNCHANGED <<mux, chain_ids, inner, signed, runs, mux_time>>

FetchChainId(r) ==
  /\ At(r, "chain")
  /\ \/ /\ chain_ids' = [chain_ids EXCEPT ![run[r].job.url] = {ChainOf[run[r].job.url]}]
        /\ Goes(r, "build")
     \/ Errors(r) /\ UNCHANGED chain_ids
  /\ UNCHANGED <<mux, inner, signed, runs, mux_time>>

Without(key) ==
  LET at == {i \in DOMAIN inner : inner[i].key = key}
  IN IF at = {} THEN inner ELSE RemoveAt(inner, CHOOSE i \in at : TRUE)

\* The header is fetched from the run's endpoint at the run's block, with the
\* hardforks of the chain id; the entry replaces an equal key, or evicts the
\* least recently used.
put(key, exec) ==
  LET entries == <<[key |-> key, exec |-> exec]>> \o Without(key)
  IN inner' = SubSeq(entries, 1, Min({Capacity, Len(entries)}))

BuildExecutor(r) ==
  LET job == run[r].job
      exec == [url |-> job.url, block |-> job.block, forks |-> chain_ids[job.url]]
  IN /\ At(r, "build")
     /\ \/ /\ chain_ids[job.url] \subseteq Supported
           /\ put(KeyOf(job), exec)
           /\ run' = [run EXCEPT ![r].pc = "estimate", ![r].exec = {exec}]
        \/ Errors(r) /\ UNCHANGED inner
     /\ UNCHANGED <<mux, chain_ids, signed, runs, mux_time>>

\* The unbounded profile prices the program against the payload budget, as a
\* function of the program alone.  A net program of call_to_frame_tree returns
\* before the tree is priced.
TooCostly(r) ==
  /\ Unbounded /\ run[r].job.heavy
  /\ ~(run[r].job.api = "tree" /\ \A p \in run[r].program : p.form = "net")

\* The estimate reads the chain, and may fail.
EstimateRun(r) ==
  /\ At(r, "estimate")
  /\ \/ /\ ~TooCostly(r)
        /\ signed' = signed \cup {[job |-> run[r].job, program |-> p] : p \in run[r].program}
        /\ run' = [run EXCEPT ![r] = NoRun]
     \/ Errors(r) /\ UNCHANGED signed
  /\ UNCHANGED <<mux, chain_ids, inner, runs, mux_time>>

-----------------------------------------------------------------------------
EncodeInit ==
  /\ run = [r \in Runner |-> NoRun]
  /\ mux = [u \in Url |-> [until |-> 0, rejections |-> 0]]
  /\ chain_ids = [u \in Url |-> {}]
  /\ inner = <<>> /\ signed = {} /\ runs = 0 /\ mux_time = 0

MuxTick ==
  /\ mux_time < MaxMuxTime /\ mux_time' = mux_time + 1
  /\ UNCHANGED <<run, mux, chain_ids, inner, signed, runs>>

EncodeNext ==
  \/ MuxTick
  \/ \E r \in Runner :
       \/ \E job \in Jobs : StartRun(r, job)
       \/ CheckPause(r) \/ MuxFrames(r) \/ MuxError(r) \/ MuxMalformed(r)
       \/ PauseUntil(r) \/ PauseClears(r) \/ SeparateTracers(r)
       \/ try_prestate_net(r) \/ FetchTrace(r) \/ nestable_callees(r)
       \/ CacheHit(r) \/ CacheMiss(r) \/ FetchChainId(r) \/ BuildExecutor(r) \/ EstimateRun(r)

EncodeSpec == EncodeInit /\ [][EncodeNext]_encodeVars

-----------------------------------------------------------------------------
(* Properties. *)

\* Every run of a job that succeeds signs the same program, whichever tracers
\* the node offers, however it words its errors, and whatever other runs have
\* left in the pause and the cache: a node's configuration may fail a task but
\* cannot split the operators.
OperatorsAgree ==
  \A x, y \in signed : x.job = y.job => x.program = y.program

\* A run prices its program under the header of its own endpoint and block and
\* the hardforks of that endpoint's chain, though runs share the cache, build
\* the same entry twice and evict each other's; and the cache keeps no more
\* than its capacity, one entry per key.
ExecutorFits ==
  /\ \A r \in Runner : At(r, "estimate") =>
       run[r].exec = {[url |-> run[r].job.url, block |-> run[r].job.block,
                       forks |-> {ChainOf[run[r].job.url]}]}
  /\ Len(inner) <= Capacity
  /\ \A i, j \in DOMAIN inner : inner[i].key = inner[j].key => i = j

\* Under the unbounded profile no program that costs more than the payload
\* budget is handed out for signing, whichever form and whichever of the two
\* encoding calls produced it.
SignedPayloadsFit == Unbounded => \A x \in signed : ~x.job.heavy

-----------------------------------------------------------------------------
(* What they rest on. *)

\* The one program a job can have signed.
ProgramOf(job) ==
  IF signs_prestate_net /\ job.net THEN [form |-> "net", nested |-> {}]
  ELSE IF job.api = "tree"
  THEN [form |-> "canonical",
        nested |-> {a \in job.callees : Registry[a] = Registry[Root] /\ Registry[Root] # "none"}]
  ELSE [form |-> struct_log_encoder, nested |-> {}]

\* The one executor that fits an endpoint and a block.
ExecutorOf(u, b) == [url |-> u, block |-> b, forks |-> {ChainOf[u]}]

NetSteps == {"net", "mux", "pause", "clear", "separate", "classify"}
ProgramSteps == {"lookup", "chain", "build", "estimate"}

\* A run on its way: a job that goes to the struct logs is not eligible for
\* the net form, and from the cache lookup on the run has the job's program.
RunOK(r) ==
  \/ run[r] = NoRun
  \/ /\ run[r].job \in Jobs
     /\ run[r].pc \in NetSteps \cup ProgramSteps \cup {"trace", "probe"}
     /\ DOMAIN run[r] = {"pc", "job", "program", "exec"}
     /\ run[r].pc \in NetSteps => signs_prestate_net
     /\ run[r].pc \in {"trace", "probe"} => ~(signs_prestate_net /\ run[r].job.net)
     /\ run[r].pc = "probe" => run[r].job.api = "tree"
     /\ run[r].pc \in ProgramSteps => run[r].program = {ProgramOf(run[r].job)}
     /\ run[r].pc = "build" => chain_ids[run[r].job.url] = {ChainOf[run[r].job.url]}
     /\ run[r].pc = "estimate" => run[r].exec = {ExecutorOf(run[r].job.url, run[r].job.block)}

Entry == {[key |-> <<u, b>>, exec |-> ExecutorOf(u, b)] : u \in Url, b \in Nat}
OnePerKey(entries) == \A i, j \in DOMAIN entries : entries[i].key = entries[j].key => i = j

\* The chain ids are the endpoints' own, and every cached executor is the one
\* its key names.
EncodeInv ==
  /\ DOMAIN run = Runner /\ \A r \in Runner : RunOK(r)
  /\ DOMAIN chain_ids = Url /\ \A u \in Url : chain_ids[u] \subseteq {ChainOf[u]}
  /\ inner \in Seq(Entry) /\ Len(inner) <= Capacity /\ OnePerKey(inner)
  /\ \A x \in signed : x.program = ProgramOf(x.job)
=============================================================================
