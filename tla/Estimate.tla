------------------------------ MODULE Estimate ------------------------------
(***************************************************************************)
(* Pricing a program against the chain: a cache over an RPC-backed         *)
(* database, warmed by a prefetch whose answers come in any order, the     *)
(* transactions that precede the priced one, the estimator put in place of *)
(* each frame's contract, and the frames' programs run in pieces, depth    *)
(* first, on the one state.                                                *)
(*                                                                         *)
(* An account is its code, its code hash and its funds: the balance and    *)
(* the nonce that it starts from, the chain's or none; what the execution  *)
(* makes of them is left out.  Executing an operation costs 1, and a piece *)
(* that meets again what an earlier one has warmed costs no more; what an  *)
(* operation does is its place in the log of what was applied.             *)
(***************************************************************************)
EXTENDS Integers, FiniteSetsExt, SequencesExt

CONSTANTS
  Account,        \* [addresses -> "absent", "eoa" or "contract"]: the chain
  Hints,          \* the addresses to prefetch
  Caller,         \* the address that sends every piece
  Trees,          \* inputs: frame trees, Seq([target, value, updates, children])
  Preceding,      \* number of preceding transactions
  TxGasCap,       \* EIP7825_TX_GAS_CAP
  Osaka,          \* whether the block's spec is Osaka or later
  BlockGasLimit,
  BaseTxCost,     \* BASE_TX_COST
  MaxDbFaults     \* bound: requests that fail

Address == DOMAIN Account
NestedOp == "nested"

ASSUME EstimateAssumption ==
  /\ Hints \subseteq Address /\ Caller \in Address /\ BaseTxCost \in Nat /\ Preceding \in Nat
  /\ {"zero", "empty", "estimator"} \cap Address = {}
  /\ \A T \in Trees : T # <<>> /\ \A i \in DOMAIN T : T[i].target \in Address

VARIABLES
  est,            \* [pc, tree, replayed]
  proof_supported,
  fetching,       \* addresses whose prefetch has not been joined
  accounts,       \* [Address -> {} or {[code, hash, funds]}]: CacheDB's accounts
  backups,        \* [Address -> {} or {code}]: what is kept at backup_address
  unread,         \* history: targets and caller, when the account could not be read
  stack,          \* the frames being run: Seq([frame, at, pieces, child])
  applied,        \* history: what was executed, in order
  frame_gas,      \* [frames of the tree -> gas]
  db_faults

estVars == <<est, proof_supported, fetching, accounts, backups, unread, stack, applied,
             frame_gas, db_faults>>
dbVars == <<proof_supported, fetching, accounts, backups, unread, db_faults>>
runVars == <<stack, applied, frame_gas>>

DbFault == db_faults < MaxDbFaults /\ db_faults' = db_faults + 1

-----------------------------------------------------------------------------
(* The database. *)

\* What eth_getCode says, and the hash of it: an account without code has
\* keccak256("").
CodeOf(a) == IF Account[a] = "contract" THEN a ELSE "empty"
FundsOf(a) == IF Account[a] = "absent" THEN "none" ELSE "own"
InfoOf(a) == [code |-> CodeOf(a), hash |-> CodeOf(a), funds |-> FundsOf(a)]

\* AccountInfo::default()
NoAccount == [code |-> "empty", hash |-> "empty", funds |-> "none"]

\* A node may report the hash of an account that does not exist as zero.
ProofHashes(a) == {CodeOf(a)} \cup (IF Account[a] = "absent" THEN {"zero"} ELSE {})

\* Mutant: the hash is taken as the node says it.
proof_code_hash_said(hash) == hash

proof_code_hash(hash) == IF hash = "zero" THEN "empty" ELSE hash

\* An account by eth_getProof and eth_getCode, whose answer, perhaps an error,
\* counts when there is code: {} is an error.
try_fetch_with_proof(a, hash, code) ==
  {[code |-> c, hash |-> proof_code_hash(hash), funds |-> FundsOf(a)]
   : c \in IF proof_code_hash(hash) # "empty" THEN code ELSE {"empty"}}

\* By three requests, of which the hash is computed.
fetch_account_parallel(a, code) == {[code |-> c, hash |-> c, funds |-> FundsOf(a)] : c \in code}

\* The answers of eth_getCode that are possible with the faults left.
CodeAnswers(a) == {{CodeOf(a)}} \cup (IF db_faults < MaxDbFaults THEN {{}} ELSE {})
CountFault(code) == IF code = {} THEN DbFault ELSE UNCHANGED db_faults

\* fetch_account: by proof while the endpoint has not said that it lacks it.
fetch_account(a, hash, code, lacks) ==
  IF proof_supported /\ ~lacks THEN try_fetch_with_proof(a, hash, code)
  ELSE fetch_account_parallel(a, code)

PrefetchStarts ==
  /\ est.pc = "start"
  /\ fetching' = (IF proof_supported THEN Hints ELSE {})
  /\ est' = [est EXCEPT !.pc = "prefetch"]
  /\ UNCHANGED <<proof_supported, accounts, backups, unread, db_faults, runVars>>

\* One of the spawned tasks is joined.  Only a whole account is inserted.
PrefetchJoin(a) ==
  /\ est.pc = "prefetch" /\ a \in fetching
  /\ \E hash \in ProofHashes(a), code \in CodeAnswers(a) :
       /\ CountFault(code)
       /\ accounts' = [accounts EXCEPT ![a] =
            IF try_fetch_with_proof(a, hash, code) = {} THEN @ ELSE try_fetch_with_proof(a, hash, code)]
  /\ fetching' = fetching \ {a}
  /\ UNCHANGED <<est, proof_supported, backups, unread, runVars>>

\* A failed proof leaves the account to be fetched on demand.
PrefetchFails(a) ==
  /\ est.pc = "prefetch" /\ a \in fetching /\ DbFault
  /\ fetching' = fetching \ {a}
  /\ UNCHANGED <<est, proof_supported, accounts, backups, unread, runVars>>

\* "method not found": the other tasks are aborted.
PrefetchUnsupported(a) ==
  /\ est.pc = "prefetch" /\ a \in fetching /\ DbFault
  /\ proof_supported' = FALSE /\ fetching' = {}
  /\ UNCHANGED <<est, accounts, backups, unread, runVars>>

PrefetchEnds ==
  /\ est.pc = "prefetch" /\ fetching = {}
  /\ est' = [est EXCEPT !.pc = "replay"]
  /\ UNCHANGED <<dbVars, runVars>>

\* A read of an account during execution: the cache, or the endpoint.
ReadAccount(a) ==
  /\ est.pc \in {"replay", "run"} /\ accounts[a] = {}
  /\ \E hash \in ProofHashes(a), lacks \in BOOLEAN :
       /\ accounts' = [accounts EXCEPT ![a] = fetch_account(a, hash, {CodeOf(a)}, lacks)]
       /\ proof_supported' = (proof_supported /\ ~lacks)
  /\ UNCHANGED <<est, fetching, backups, unread, db_faults, runVars>>

\* basic_ref(a).ok().flatten().unwrap_or_default(): the account as the cache or
\* the endpoint has it; an error, of whichever request, is taken for an account
\* with nothing.
BasicOrDefault(a) ==
  IF accounts[a] # {} THEN {[info |-> x, fails |-> FALSE, lacks |-> FALSE] : x \in accounts[a]}
  ELSE UNION {{[info |-> x, fails |-> fails, lacks |-> lacks]
               : x \in IF fails THEN {NoAccount} ELSE fetch_account(a, hash, {CodeOf(a)}, lacks)}
              : hash \in ProofHashes(a), fails \in BOOLEAN, lacks \in BOOLEAN}

ReadCounted(a, read) ==
  /\ IF read.fails THEN DbFault ELSE UNCHANGED db_faults
  /\ unread' = (IF read.fails THEN unread \cup {a} ELSE unread)
  /\ proof_supported' = (proof_supported /\ ~read.lacks)

-----------------------------------------------------------------------------
(* The preceding transactions, each committed whatever came of it. *)

replay_preceding_transactions ==
  /\ est.pc = "replay" /\ est.replayed < Preceding
  /\ est' = [est EXCEPT !.replayed = @ + 1]
  /\ applied' = Append(applied, <<"tx", est.replayed + 1>>)
  /\ UNCHANGED <<dbVars, stack, frame_gas>>

\* A transaction that cannot be built, or an error of the database.
ReplayFails ==
  /\ est.pc = "replay" /\ est.replayed < Preceding
  /\ est' = [est EXCEPT !.pc = "failed"]
  /\ UNCHANGED <<dbVars, runVars>>

ReplayEnds ==
  /\ est.pc = "replay" /\ est.replayed = Preceding
  /\ est' = [est EXCEPT !.pc = "inject"]
  /\ UNCHANGED <<dbVars, runVars>>

-----------------------------------------------------------------------------
(* The estimator takes the place of every target. *)

Targets == {est.tree[i].target : i \in DOMAIN est.tree}

\* Once per contract.
ToInject == {a \in Targets : backups[a] = {}}

\* The code that runs, and the hash that is shown; the original's code, when
\* there is one, where the estimator finds it.
inject_estimator(a) ==
  /\ est.pc = "inject" /\ a \in ToInject
  /\ \E read \in BasicOrDefault(a) :
       LET original == read.info IN
       /\ ReadCounted(a, read)
       /\ backups' = [backups EXCEPT ![a] = {original.code}]
       /\ accounts' = [accounts EXCEPT ![a] =
            {[code |-> "estimator", funds |-> original.funds,
              hash |-> IF original.code = "empty" THEN "estimator" ELSE original.hash]}]
  /\ UNCHANGED <<est, fetching, runVars>>

InjectEnds ==
  /\ est.pc = "inject" /\ ToInject = {}
  /\ est' = [est EXCEPT !.pc = "run"]
  /\ stack' = <<[frame |-> 1, at |-> 1, pieces |-> 0, child |-> 1]>>
  /\ UNCHANGED <<dbVars, applied, frame_gas>>

-----------------------------------------------------------------------------
(* FrameTreeRun::run and piece. *)

effective_tx_gas_limit == IF Osaka THEN Min({BlockGasLimit, TxGasCap}) ELSE BlockGasLimit

Top == stack[Len(stack)]
Below == SubSeq(stack, 1, Len(stack) - 1)
Updates == est.tree[Top.frame].updates

\* Where the piece that begins at `at' ends: the next NESTED op, or the end.
PieceEnd == Min({i \in Top.at..Len(Updates) : Updates[i] = NestedOp} \cup {Len(Updates) + 1})
Piece == SubSeq(Updates, Top.at, PieceEnd - 1)

\* The first piece runs even when it is empty, and carries the frame's value.
RunsPiece == Top.pieces = 0 \/ Piece # <<>>

\* run_estimator raises the caller's balance by the value that the piece is
\* about to take from it, and so puts the caller into the cache.
TopUp ==
  /\ IF RunsPiece /\ Top.pieces = 0 /\ est.tree[Top.frame].value
     THEN \E read \in BasicOrDefault(Caller) :
            /\ ReadCounted(Caller, read)
            /\ accounts' = [accounts EXCEPT ![Caller] = {read.info}]
     ELSE UNCHANGED <<proof_supported, accounts, unread, db_faults>>
  /\ UNCHANGED <<fetching, backups>>

PieceGas == BaseTxCost + Len(Piece)
\* Mutant: every piece pays the base cost of a transaction.
ChargedEachPiece == PieceGas

ChargedGas == IF Top.pieces = 0 THEN PieceGas ELSE PieceGas - BaseTxCost

CommitPiece ==
  /\ applied' = applied \o (IF Top.pieces = 0 THEN <<<<"value", Top.frame>>>> ELSE <<>>)
                        \o [i \in DOMAIN Piece |-> <<"op", Top.frame, Piece[i]>>]
  /\ frame_gas' = [frame_gas EXCEPT ![Top.frame] = @ + ChargedGas]

EstimateEnds(outcome) == est' = [est EXCEPT !.pc = outcome]

\* Up to the next child, which is run at the op that applies it.
RunToChild ==
  LET children == est.tree[Top.frame].children
      later == [Top EXCEPT !.at = PieceEnd + 1, !.child = @ + 1,
                           !.pieces = IF RunsPiece THEN @ + 1 ELSE @]
  IN /\ est.pc = "run" /\ stack # <<>> /\ PieceEnd <= Len(Updates)
     /\ ~RunsPiece \/ PieceGas <= effective_tx_gas_limit
     /\ IF RunsPiece THEN CommitPiece ELSE UNCHANGED <<applied, frame_gas>>
     /\ IF Top.child > Len(children) \/ children[Top.child] <= Top.frame
        THEN EstimateEnds("failed") /\ UNCHANGED stack
        ELSE /\ stack' = Below \o <<later, [frame |-> children[Top.child], at |-> 1,
                                            pieces |-> 0, child |-> 1]>>
             /\ UNCHANGED est
     /\ TopUp

RunToEnd ==
  /\ est.pc = "run" /\ stack # <<>> /\ PieceEnd > Len(Updates)
  /\ ~RunsPiece \/ PieceGas <= effective_tx_gas_limit
  /\ IF RunsPiece THEN CommitPiece ELSE UNCHANGED <<applied, frame_gas>>
  /\ IF Top.child <= Len(est.tree[Top.frame].children) THEN EstimateEnds("failed")
     ELSE IF Below = <<>> THEN EstimateEnds("done") ELSE UNCHANGED est
  /\ stack' = Below
  /\ TopUp

\* A piece that reverts, halts, or meets an error of the database.
PieceFails ==
  /\ est.pc = "run" /\ stack # <<>> /\ RunsPiece
  /\ EstimateEnds("failed")
  /\ TopUp
  /\ UNCHANGED runVars

EstimateInit ==
  /\ est \in [pc: {"start"}, tree: Trees, replayed: {0}]
  /\ proof_supported = TRUE /\ fetching = {}
  /\ accounts = [a \in Address |-> {}] /\ backups = [a \in Address |-> {}]
  /\ unread = {} /\ stack = <<>> /\ applied = <<>>
  /\ frame_gas = [i \in DOMAIN est.tree |-> 0] /\ db_faults = 0

EstimateNext ==
  \/ PrefetchStarts \/ PrefetchEnds \/ replay_preceding_transactions \/ ReplayFails
  \/ ReplayEnds \/ InjectEnds \/ RunToChild \/ RunToEnd \/ PieceFails
  \/ \E a \in Address : \/ PrefetchJoin(a) \/ PrefetchFails(a) \/ PrefetchUnsupported(a)
                        \/ ReadAccount(a) \/ inject_estimator(a)

EstimateSpec == EstimateInit /\ [][EstimateNext]_estVars

-----------------------------------------------------------------------------
(* Properties. *)

\* Whichever requests failed, came late or were refused, an account in the
\* cache is the chain's, by proof or without, with its funds; or it is the
\* estimator, with the original's funds, its code behind it and its hash for
\* whoever checks it, also when several frames share the contract.  The
\* exceptions are a frame's target, and the caller of a piece with a value, that
\* could not be read at all: each is taken for an empty account.
CacheTruthful ==
  /\ unread \subseteq Targets \cup {Caller}
  /\ \A a \in Address \ unread :
       /\ backups[a] = {} => accounts[a] \subseteq {InfoOf(a)}
       /\ backups[a] # {} =>
            /\ backups[a] = {CodeOf(a)}
            /\ accounts[a] = {[code |-> "estimator", funds |-> FundsOf(a),
                               hash |-> IF CodeOf(a) = "empty" THEN "estimator" ELSE CodeOf(a)]}

\* What it rests on: the estimator is put in place only after the replay, and
\* an account that has been replaced stays in the cache, so that no read or
\* late answer of the endpoint takes its place.
EstimateInv ==
  /\ est \in [pc: {"start", "prefetch", "replay", "inject", "run", "done", "failed"},
              tree: Trees, replayed: Nat]
  /\ DOMAIN accounts = Address /\ DOMAIN backups = Address
  /\ est.pc \in {"start", "prefetch", "replay"} => \A a \in Address : backups[a] = {}
  /\ \A a \in Address : backups[a] # {} => accounts[a] # {}
  /\ CacheTruthful

\* The order of a tree's operations by its definition: a frame's own, with the
\* child's in place of the op that applies it.
Order(T) ==
  LET Kth(U, i) == Cardinality({j \in 1..i : U[j] = NestedOp})
      of[i \in DOMAIN T] ==
        LET U == T[i].updates
        IN FlattenSeq(<<<<<<"value", i>>>>>> \o
             [j \in DOMAIN U |-> IF U[j] = NestedOp THEN of[T[i].children[Kth(U, j)]]
                                 ELSE <<<<"op", i, U[j]>>>>])
  IN of[1]

WellFormed(T) ==
  \A i \in DOMAIN T :
    /\ Len(T[i].children) = Cardinality({j \in DOMAIN T[i].updates : T[i].updates[j] = NestedOp})
    /\ \A k \in DOMAIN T[i].children : T[i].children[k] \in (i + 1)..Len(T)

\* A tree that is priced is well formed where it was run; the preceding
\* transactions and its operations were executed once each, in the order of
\* the transaction; and a frame is charged one base cost and its operations,
\* in however many pieces it ran.
TreePriced ==
  est.pc = "done" =>
    /\ applied = [k \in 1..Preceding |-> <<"tx", k>>] \o Order(est.tree)
    /\ WellFormed(est.tree)
    /\ \A i \in DOMAIN est.tree :
         frame_gas[i] = BaseTxCost + Cardinality({j \in DOMAIN est.tree[i].updates :
                                                    est.tree[i].updates[j] # NestedOp})
=============================================================================
