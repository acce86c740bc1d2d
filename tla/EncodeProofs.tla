---------------------------- MODULE EncodeProofs ----------------------------
(***************************************************************************)
(* Proofs about the encoding service (Encode), for any jobs, any number of *)
(* concurrent runs and any capacity of the executor cache.                 *)
(***************************************************************************)
EXTENDS Encode, SequenceTheorems, TLAPS

-----------------------------------------------------------------------------
(* The cache as a sequence. *)

\* Removing a position keeps the other entries, in their order.
LEMMA RemoveAtSeq ==
  ASSUME NEW S, NEW s \in Seq(S), NEW i \in 1..Len(s)
  PROVE  /\ RemoveAt(s, i) \in Seq(S)
         /\ Len(RemoveAt(s, i)) = Len(s) - 1
         /\ \A j \in 1..(Len(s) - 1) : RemoveAt(s, i)[j] = s[IF j < i THEN j ELSE j + 1]
<1> DEFINE a == SubSeq(s, 1, i - 1)
           b == SubSeq(s, i + 1, Len(s))
<1>1. a \in Seq(S) /\ Len(a) = i - 1 /\ \A j \in 1..(i - 1) : a[j] = s[j]
  BY SubSeqProperties
<1>2. b \in Seq(S) /\ Len(b) = Len(s) - i /\ \A j \in 1..(Len(s) - i) : b[j] = s[i + j]
  BY SubSeqProperties
<1>3. RemoveAt(s, i) = a \o b
  BY DEF RemoveAt
<1> HIDE DEF a, b
<1>4. /\ a \o b \in Seq(S) /\ Len(a \o b) = Len(a) + Len(b)
      /\ \A j \in 1..(Len(a) + Len(b)) : (a \o b)[j] = IF j <= Len(a) THEN a[j] ELSE b[j - Len(a)]
  BY <1>1, <1>2, ConcatProperties
<1>5. ASSUME NEW j \in 1..(Len(s) - 1) PROVE (a \o b)[j] = s[IF j < i THEN j ELSE j + 1]
  <2>1. Len(s) \in Nat /\ j \in Nat /\ i \in Nat /\ Len(a) + Len(b) = Len(s) - 1
    BY <1>1, <1>2
  <2>2. CASE j < i
    <3>1. j \in 1..(i - 1) /\ j <= Len(a)
      BY <1>1, <2>1, <2>2
    <3> QED
      BY <1>1, <1>4, <2>1, <2>2, <3>1
  <2>3. CASE j >= i
    <3>1. j - (i - 1) \in 1..(Len(s) - i) /\ ~(j <= Len(a)) /\ i + (j - (i - 1)) = j + 1
      BY <1>1, <2>1, <2>3
    <3>2. (a \o b)[j] = b[j - (i - 1)]
      BY <1>1, <1>4, <2>1, <3>1
    <3>3. b[j - (i - 1)] = s[j + 1]
      BY <1>2, <3>1
    <3> QED
      BY <2>1, <2>3, <3>2, <3>3
  <2> QED
    BY <2>1, <2>2, <2>3
<1> QED
  BY <1>1, <1>2, <1>3, <1>4, <1>5

\* Without a position of a cache with one entry per key there is still one per
\* key, and none for the key removed.
LEMMA RemovedKey ==
  ASSUME NEW s \in Seq(Entry), OnePerKey(s), NEW i \in 1..Len(s)
  PROVE  /\ RemoveAt(s, i) \in Seq(Entry) /\ Len(RemoveAt(s, i)) = Len(s) - 1
         /\ OnePerKey(RemoveAt(s, i))
         /\ \A j \in DOMAIN RemoveAt(s, i) : RemoveAt(s, i)[j].key # s[i].key
<1>1. /\ RemoveAt(s, i) \in Seq(Entry) /\ Len(RemoveAt(s, i)) = Len(s) - 1
      /\ \A j \in 1..(Len(s) - 1) : RemoveAt(s, i)[j] = s[IF j < i THEN j ELSE j + 1]
  BY RemoveAtSeq
<1>2. DOMAIN RemoveAt(s, i) = 1..(Len(s) - 1) /\ DOMAIN s = 1..Len(s) /\ Len(s) \in Nat
  BY <1>1
<1> DEFINE From(j) == IF j < i THEN j ELSE j + 1
<1>3. ASSUME NEW j \in 1..(Len(s) - 1) PROVE From(j) \in 1..Len(s) /\ From(j) # i /\ j \in Nat
  BY <1>2
<1>4. ASSUME NEW j \in 1..(Len(s) - 1), NEW k \in 1..(Len(s) - 1), From(j) = From(k) PROVE j = k
  BY <1>2, <1>4
<1>5. \A j \in 1..(Len(s) - 1) : RemoveAt(s, i)[j] = s[From(j)]
  BY <1>1
<1>6. \A j, k \in 1..Len(s) : s[j].key = s[k].key => j = k
  BY <1>2 DEF OnePerKey
<1> HIDE DEF From
<1>7. OnePerKey(RemoveAt(s, i))
  BY <1>2, <1>3, <1>4, <1>5, <1>6 DEF OnePerKey
<1> QED
  BY <1>1, <1>2, <1>3, <1>5, <1>6, <1>7

\* A new entry in front, cut to the capacity.
LEMMA FrontEntry ==
  ASSUME NEW s \in Seq(Entry), OnePerKey(s), NEW e \in Entry,
         \A j \in DOMAIN s : s[j].key # e.key, NEW n \in Nat \ {0}
  PROVE  LET t == <<e>> \o s
             cut == SubSeq(t, 1, Min({n, Len(t)}))
         IN /\ t \in Seq(Entry) /\ Len(t) = Len(s) + 1 /\ OnePerKey(t)
            /\ cut \in Seq(Entry) /\ Len(cut) <= n /\ OnePerKey(cut)
<1> DEFINE t == <<e>> \o s
           m == Min({n, Len(t)})
           cut == SubSeq(t, 1, m)
<1>0. <<e>> \in Seq(Entry) /\ Len(<<e>>) = 1 /\ <<e>>[1] = e
  OBVIOUS
<1>1. /\ t \in Seq(Entry) /\ Len(t) = Len(s) + 1 /\ DOMAIN t = 1..Len(t) /\ Len(s) \in Nat
      /\ \A j \in 1..Len(t) : t[j] = IF j = 1 THEN e ELSE s[j - 1]
  BY <1>0, ConcatProperties
<1>2. DOMAIN s = 1..Len(s)
  OBVIOUS
<1> HIDE DEF t
<1>3. OnePerKey(t)
  <2> SUFFICES ASSUME NEW i \in 1..Len(t), NEW j \in 1..Len(t), t[i].key = t[j].key
               PROVE  i = j
    BY <1>1 DEF OnePerKey
  <2>1. (i # 1 => i - 1 \in 1..Len(s)) /\ (j # 1 => j - 1 \in 1..Len(s)) /\ i \in Nat /\ j \in Nat
    BY <1>1
  <2>2. t[i] = (IF i = 1 THEN e ELSE s[i - 1]) /\ t[j] = (IF j = 1 THEN e ELSE s[j - 1])
    BY <1>1
  <2>3. CASE i = 1
    BY <1>2, <2>1, <2>2, <2>3
  <2>4. CASE j = 1
    BY <1>2, <2>1, <2>2, <2>4
  <2>5. CASE i # 1 /\ j # 1
    <3>1. i - 1 = j - 1
      BY <1>2, <2>1, <2>2, <2>5 DEF OnePerKey
    <3> QED
      BY <2>1, <3>1
  <2> QED
    BY <2>3, <2>4, <2>5
<1>4. m \in Nat /\ m <= n /\ m <= Len(t)
  <2>1. \E x \in {n, Len(t)} : \A y \in {n, Len(t)} : x <= y
    BY <1>1
  <2> QED
    BY <1>1, <2>1 DEF Min
<1> HIDE DEF m
<1>5. cut \in Seq(Entry) /\ Len(cut) = m /\ DOMAIN cut = 1..m /\ \A j \in 1..m : cut[j] = t[j]
  BY <1>1, <1>4, SubSeqProperties
<1>6. OnePerKey(cut)
  BY <1>1, <1>3, <1>4, <1>5 DEF OnePerKey
<1> QED
  BY <1>1, <1>3, <1>4, <1>5, <1>6 DEF t, m

-----------------------------------------------------------------------------
(* The registry's reads. *)

\* A read that does not fail the run tells the truth: no error of the node's
\* own counts as an answer of the EVM.
LEMMA ReadIsTruth ==
  ASSUME NEW a, NEW e \in Reads(a), static_read(a, e) # {}
  PROVE  static_read(a, e) = {Registry[a]}
<1>1. CASE e = {}
  BY <1>1 DEF static_read
<1>2. ASSUME NEW x \in NodeErrors, e = {x} PROVE FALSE
  <2>1. ~is_evm_failure(x)
    <3>1. x.revm \/ (~x.code /\ ~x.wording)
      <4>1. CASE x = Plainly
        BY <4>1 DEF Plainly
      <4>2. CASE x = [Plainly EXCEPT !.revm = TRUE, !.wording = TRUE]
        BY <4>2 DEF Plainly
      <4>3. CASE x = [Plainly EXCEPT !.throttles = TRUE]
        BY <4>3 DEF Plainly
      <4>4. CASE x = [Plainly EXCEPT !.tracer = TRUE]
        BY <4>4 DEF Plainly
      <4> QED
        BY <4>1, <4>2, <4>3, <4>4 DEF NodeErrors
    <3> QED
      BY <3>1 DEF is_evm_failure
  <2>2. e # {} /\ ~(\A y \in e : is_evm_failure(y))
    BY <1>2, <2>1
  <2> QED
    BY <2>2 DEF static_read
<1>3. ASSUME NEW x \in EvmErrors, e = {x}, Registry[a] = "none" PROVE static_read(a, e) = {"none"}
  <2>1. is_evm_failure(x)
    BY DEF EvmErrors, Plainly, is_evm_failure
  <2>2. e # {} /\ \A y \in e : is_evm_failure(y)
    BY <1>3, <2>1
  <2> QED
    BY <2>2 DEF static_read
<1> QED
  BY <1>1, <1>2, <1>3 DEF Reads

-----------------------------------------------------------------------------
(* A step of a run leaves the others as they are. *)

LEMMA GoesOn ==
  ASSUME EncodeInv, NEW r \in Runner, run[r] # NoRun, NEW pc, Goes(r, pc), UNCHANGED chain_ids,
         pc \in NetSteps \cup ProgramSteps \cup {"trace", "probe"},
         pc \in NetSteps => signs_prestate_net,
         pc \in {"trace", "probe"} => ~(signs_prestate_net /\ run[r].job.net),
         pc = "probe" => run[r].job.api = "tree",
         pc \in ProgramSteps => run[r].pc \in ProgramSteps,
         pc = "build" => chain_ids[run[r].job.url] = {ChainOf[run[r].job.url]},
         pc # "estimate"
  PROVE  DOMAIN run' = Runner /\ \A s \in Runner : RunOK(s)'
<1>1. DOMAIN run = Runner /\ \A s \in Runner : RunOK(s)
  BY DEF EncodeInv
<1>2. RunOK(r)
  BY <1>1
<1>3. run' = [run EXCEPT ![r].pc = pc]
  BY DEF Goes
<1>4. DOMAIN run' = Runner /\ \A s \in Runner \ {r} : run'[s] = run[s]
  BY <1>1, <1>3
<1>5. run'[r] = [run[r] EXCEPT !.pc = pc]
  BY <1>1, <1>3
<1>6. /\ DOMAIN run'[r] = {"pc", "job", "program", "exec"} /\ run'[r].pc = pc
      /\ run'[r].job = run[r].job /\ run'[r].program = run[r].program
  BY <1>2, <1>5 DEF RunOK
<1>7. RunOK(r)'
  BY <1>2, <1>6 DEF RunOK
<1> QED
  BY <1>1, <1>4, <1>7 DEF RunOK

LEMMA EndsRun ==
  ASSUME EncodeInv, NEW r \in Runner, run' = [run EXCEPT ![r] = NoRun], UNCHANGED chain_ids
  PROVE  DOMAIN run' = Runner /\ \A s \in Runner : RunOK(s)'
BY DEF EncodeInv, RunOK

\* A run that has its program goes on to the cache.
LEMMA HoldsProgram ==
  ASSUME EncodeInv, NEW r \in Runner, run[r] # NoRun, UNCHANGED chain_ids,
         Holds(r, {ProgramOf(run[r].job)})
  PROVE  DOMAIN run' = Runner /\ \A s \in Runner : RunOK(s)'
<1>1. DOMAIN run = Runner /\ \A s \in Runner : RunOK(s)
  BY DEF EncodeInv
<1>2. RunOK(r)
  BY <1>1
<1>3. run' = [run EXCEPT ![r].pc = "lookup", ![r].program = {ProgramOf(run[r].job)}]
  BY DEF Holds
<1>4. DOMAIN run' = Runner /\ \A s \in Runner \ {r} : run'[s] = run[s]
  BY <1>1, <1>3
<1>5. run'[r] = [[run[r] EXCEPT !.pc = "lookup"] EXCEPT !.program = {ProgramOf(run[r].job)}]
  BY <1>1, <1>3
<1>6. /\ DOMAIN run'[r] = {"pc", "job", "program", "exec"} /\ run'[r].pc = "lookup"
      /\ run'[r].job = run[r].job /\ run'[r].program = {ProgramOf(run[r].job)}
  BY <1>2, <1>5 DEF RunOK
<1>7. RunOK(r)'
  BY <1>2, <1>6 DEF RunOK, NetSteps, ProgramSteps
<1>8. ASSUME NEW s \in Runner \ {r} PROVE RunOK(s)'
  <2>1. RunOK(s) /\ run'[s] = run[s]
    BY <1>1, <1>4
  <2> QED
    BY <2>1 DEF RunOK
<1> QED
  BY <1>4, <1>7, <1>8

\* A run that has its executor goes on to the estimate.
LEMMA HasExecutor ==
  ASSUME EncodeInv, NEW r \in Runner, run[r] # NoRun, run[r].pc \in ProgramSteps, UNCHANGED chain_ids,
         NEW x, x = ExecutorOf(run[r].job.url, run[r].job.block),
         run' = [run EXCEPT ![r].pc = "estimate", ![r].exec = {x}]
  PROVE  DOMAIN run' = Runner /\ \A s \in Runner : RunOK(s)'
<1>1. DOMAIN run = Runner /\ \A s \in Runner : RunOK(s)
  BY DEF EncodeInv
<1>2. RunOK(r)
  BY <1>1
<1>4. DOMAIN run' = Runner /\ \A s \in Runner \ {r} : run'[s] = run[s]
  BY <1>1
<1>5. run'[r] = [[run[r] EXCEPT !.pc = "estimate"] EXCEPT !.exec = {x}]
  BY <1>1
<1>6. /\ DOMAIN run'[r] = {"pc", "job", "program", "exec"} /\ run'[r].pc = "estimate"
      /\ run'[r].job = run[r].job /\ run'[r].program = run[r].program /\ run'[r].exec = {x}
  <2>1. DOMAIN run[r] = {"pc", "job", "program", "exec"}
    BY <1>2 DEF RunOK
  <2>2. \A f \in {"pc", "job", "program", "exec"} :
          run'[r][f] = IF f = "exec" THEN {x} ELSE IF f = "pc" THEN "estimate" ELSE run[r][f]
    BY <1>5, <2>1
  <2>3. DOMAIN run'[r] = DOMAIN run[r]
    BY <1>5
  <2> QED
    BY <2>1, <2>2, <2>3
<1>7. RunOK(r)'
  BY <1>2, <1>6 DEF RunOK, NetSteps, ProgramSteps
<1>8. ASSUME NEW s \in Runner \ {r} PROVE RunOK(s)'
  <2>1. RunOK(s) /\ run'[s] = run[s]
    BY <1>1, <1>4
  <2> QED
    BY <2>1 DEF RunOK
<1> QED
  BY <1>4, <1>7, <1>8

-----------------------------------------------------------------------------
(* The steps. *)

RunsOK == DOMAIN run = Runner /\ \A r \in Runner : RunOK(r)

\* The steps that change nothing but the run and the pause: fetching the trace
\* by whichever tracers the node has.
LEMMA TraceSteps ==
  ASSUME EncodeInv, NEW r \in Runner,
         \/ CheckPause(r) \/ MuxFrames(r) \/ MuxError(r) \/ MuxMalformed(r)
         \/ PauseUntil(r) \/ PauseClears(r) \/ SeparateTracers(r)
         \/ try_prestate_net(r) \/ FetchTrace(r) \/ nestable_callees(r)
  PROVE  RunsOK' /\ UNCHANGED <<chain_ids, inner, signed>>
<1>1. UNCHANGED <<chain_ids, inner, signed>>
  BY DEF CheckPause, MuxFrames, MuxError, MuxMalformed, PauseUntil, PauseClears, SeparateTracers,
     try_prestate_net, FetchTrace, nestable_callees
<1>2. RunOK(r)
  BY DEF EncodeInv
<1>3. ASSUME NEW pc \in NetSteps \cup {"trace", "probe"}, At(r, pc) PROVE run[r] # NoRun
  BY <1>3 DEF At, NoRun, NetSteps
<1>4. ASSUME NEW p \in NetSteps, At(r, p), NEW q \in NetSteps, Goes(r, q) PROVE RunsOK'
  <2>1. signs_prestate_net
    BY <1>2, <1>3, <1>4 DEF RunOK, At
  <2>2. q \notin ProgramSteps /\ q \notin {"trace", "probe"} /\ q # "build" /\ q # "estimate"
    BY <1>4 DEF NetSteps, ProgramSteps
  <2> QED
    BY <1>1, <1>3, <1>4, <2>1, <2>2, GoesOn DEF RunsOK
<1>5. Errors(r) => RunsOK'
  BY <1>1, EndsRun DEF Errors, RunsOK
<1>6. CASE CheckPause(r)
  BY <1>4, <1>6 DEF CheckPause, NetSteps
<1>7. CASE MuxFrames(r)
  BY <1>4, <1>7 DEF MuxFrames, NetSteps
<1>8. CASE MuxError(r)
  <2>1. At(r, "mux") /\ (Errors(r) \/ Goes(r, "pause") \/ Goes(r, "separate"))
    BY <1>8 DEF MuxError, rejected
  <2> QED
    BY <1>1, <1>4, <1>5, <2>1 DEF NetSteps
<1>9. CASE MuxMalformed(r)
  BY <1>4, <1>9 DEF MuxMalformed, NetSteps
<1>10. CASE PauseUntil(r)
  BY <1>4, <1>10 DEF PauseUntil, NetSteps
<1>11. CASE PauseClears(r)
  BY <1>4, <1>11 DEF PauseClears, NetSteps
<1>12. CASE SeparateTracers(r)
  BY <1>4, <1>5, <1>12 DEF SeparateTracers, NetSteps
<1>13. CASE try_prestate_net(r)
  <2>1. run[r] # NoRun /\ run[r].pc = "classify" /\ signs_prestate_net
    BY <1>2, <1>3, <1>13 DEF try_prestate_net, At, NetSteps, RunOK
  <2>2. CASE run[r].job.net /\ Holds(r, {[form |-> "net", nested |-> {}]})
    BY <1>1, <2>1, <2>2, HoldsProgram DEF ProgramOf, RunsOK
  <2>3. CASE ~run[r].job.net /\ Goes(r, "trace")
    BY <1>1, <2>1, <2>3, GoesOn DEF RunsOK, NetSteps, ProgramSteps
  <2> QED
    BY <1>5, <1>13, <2>2, <2>3 DEF try_prestate_net
<1>14. CASE FetchTrace(r)
  <2>1. run[r] # NoRun /\ run[r].pc = "trace" /\ ~(signs_prestate_net /\ run[r].job.net)
    BY <1>2, <1>3, <1>14 DEF FetchTrace, At, RunOK
  <2>2. CASE run[r].job.api = "tree" /\ Goes(r, "probe")
    BY <1>1, <2>1, <2>2, GoesOn DEF RunsOK, NetSteps, ProgramSteps
  <2>3. CASE run[r].job.api # "tree" /\ Holds(r, {[form |-> struct_log_encoder, nested |-> {}]})
    BY <1>1, <2>1, <2>3, HoldsProgram DEF ProgramOf, RunsOK
  <2> QED
    BY <1>5, <1>14, <2>2, <2>3 DEF FetchTrace
<1>15. CASE nestable_callees(r)
  <2> DEFINE job == run[r].job
             probed == job.callees \cup {Root}
  <2>1. /\ run[r] # NoRun /\ run[r].pc = "probe" /\ ~(signs_prestate_net /\ job.net)
        /\ job.api = "tree"
    BY <1>2, <1>3, <1>15 DEF nestable_callees, At, RunOK
  <2>2. PICK answers \in [probed -> UNION {Reads(a) : a \in probed}] :
          /\ \A a \in probed : answers[a] \in Reads(a)
          /\ IF \E a \in probed : static_read(a, answers[a]) = {} THEN Errors(r)
             ELSE Holds(r, {[form |-> "canonical", nested |-> Nestable(job, answers)]})
    BY <1>15 DEF nestable_callees
  <2>3. CASE \A a \in probed : static_read(a, answers[a]) # {}
    <3>1. \A a \in probed : static_read(a, answers[a]) = {Registry[a]}
      BY <2>2, <2>3, ReadIsTruth
    <3>2. Nestable(job, answers)
            = {a \in job.callees : Registry[a] = Registry[Root] /\ Registry[Root] # "none"}
      BY <3>1 DEF Nestable
    <3>3. Holds(r, {ProgramOf(job)})
      BY <2>1, <2>2, <2>3, <3>2 DEF ProgramOf
    <3> QED
      BY <1>1, <2>1, <3>3, HoldsProgram DEF RunsOK
  <2> QED
    BY <1>1, <1>5, <2>2, <2>3
<1> QED
  BY <1>1, <1>6, <1>7, <1>8, <1>9, <1>10, <1>11, <1>12, <1>13, <1>14, <1>15

\* Every step keeps the invariant.
LEMMA EncodeStep == EncodeInv /\ [EncodeNext]_encodeVars => EncodeInv'
<1> SUFFICES ASSUME EncodeInv, [EncodeNext]_encodeVars PROVE EncodeInv'
  OBVIOUS
<1> USE EncodeAssumption
<1>a. RunsOK' /\ UNCHANGED <<chain_ids, inner, signed>> => EncodeInv'
  BY DEF EncodeInv, RunsOK, OnePerKey
<1>1. CASE MuxTick \/ UNCHANGED encodeVars
  BY <1>1 DEF MuxTick, encodeVars, EncodeInv, RunOK, OnePerKey
<1>2. ASSUME NEW r \in Runner, NEW job \in Jobs, StartRun(r, job) PROVE EncodeInv'
  <2>1. RunsOK'
    BY <1>2 DEF StartRun, EncodeInv, RunOK, RunsOK, NetSteps, ProgramSteps
  <2> QED
    BY <1>2, <1>a, <2>1 DEF StartRun
<1>3. ASSUME NEW r \in Runner,
             \/ CheckPause(r) \/ MuxFrames(r) \/ MuxError(r) \/ MuxMalformed(r)
             \/ PauseUntil(r) \/ PauseClears(r) \/ SeparateTracers(r)
             \/ try_prestate_net(r) \/ FetchTrace(r) \/ nestable_callees(r)
      PROVE  EncodeInv'
  BY <1>3, <1>a, TraceSteps
<1>4. ASSUME NEW r \in Runner, CacheHit(r) PROVE EncodeInv'
  <2>1. PICK i \in Built(run[r].job) :
          /\ inner' = <<inner[i]>> \o RemoveAt(inner, i)
          /\ run' = [run EXCEPT ![r].pc = "estimate", ![r].exec = {inner[i].exec}]
    BY <1>4 DEF CacheHit
  <2>2. run[r] # NoRun /\ run[r].pc \in ProgramSteps /\ UNCHANGED <<chain_ids, signed>>
    BY <1>4 DEF CacheHit, At, NoRun, ProgramSteps
  <2>3. inner \in Seq(Entry) /\ OnePerKey(inner) /\ Len(inner) <= Capacity /\ i \in 1..Len(inner)
    BY <2>1 DEF EncodeInv, Built
  <2>4. inner[i] \in Entry
    BY <2>3, ElementOfSeq
  <2>5. inner[i].exec = ExecutorOf(run[r].job.url, run[r].job.block)
    BY <2>1, <2>4 DEF Entry, Built, KeyOf
  <2>6. RunsOK'
    BY <2>1, <2>2, <2>5, HasExecutor DEF RunsOK
  <2>7. inner' \in Seq(Entry) /\ OnePerKey(inner') /\ Len(inner') <= Capacity
    <3> DEFINE rest == RemoveAt(inner, i)
    <3>1. /\ rest \in Seq(Entry) /\ Len(rest) = Len(inner) - 1 /\ OnePerKey(rest)
          /\ \A j \in DOMAIN rest : rest[j].key # inner[i].key
      BY <2>3, RemovedKey
    <3> HIDE DEF rest
    <3>2. LET t == <<inner[i]>> \o rest
          IN t \in Seq(Entry) /\ Len(t) = Len(rest) + 1 /\ OnePerKey(t)
      BY <2>4, <3>1, FrontEntry
    <3> QED
      BY <2>1, <2>3, <3>1, <3>2 DEF rest
  <2> QED
    BY <2>2, <2>6, <2>7 DEF EncodeInv, RunsOK
<1>5. ASSUME NEW r \in Runner, CacheMiss(r) PROVE EncodeInv'
  <2>1. run[r] # NoRun /\ run[r].pc \in ProgramSteps /\ RunOK(r)
    BY <1>5 DEF CacheMiss, At, NoRun, ProgramSteps, EncodeInv
  <2>2. run[r].job.url \in Url
    BY <2>1 DEF RunOK
  <2>3. RunsOK'
    BY <1>5, <2>1, <2>2, GoesOn DEF CacheMiss, EncodeInv, RunsOK, NetSteps, ProgramSteps
  <2> QED
    BY <1>5, <1>a, <2>3 DEF CacheMiss
<1>6. ASSUME NEW r \in Runner, FetchChainId(r) PROVE EncodeInv'
  <2>1. run[r] # NoRun /\ run[r].pc = "chain" /\ RunOK(r)
    BY <1>6 DEF FetchChainId, At, NoRun, EncodeInv
  <2>2. run[r].job.url \in Url
    BY <2>1 DEF RunOK
  <2>3. CASE Errors(r) /\ UNCHANGED chain_ids
    BY <1>6, <1>a, <2>3, EndsRun DEF FetchChainId, Errors, RunsOK
  <2>4. CASE /\ chain_ids' = [chain_ids EXCEPT ![run[r].job.url] = {ChainOf[run[r].job.url]}]
             /\ Goes(r, "build")
    <3>1. /\ DOMAIN chain_ids' = Url /\ \A u \in Url : chain_ids'[u] \subseteq {ChainOf[u]}
          /\ \A u \in Url : chain_ids[u] = {ChainOf[u]} => chain_ids'[u] = chain_ids[u]
          /\ chain_ids'[run[r].job.url] = {ChainOf[run[r].job.url]}
      BY <2>2, <2>4 DEF EncodeInv
    <3>2. DOMAIN run = Runner /\ \A s \in Runner : RunOK(s)
      BY DEF EncodeInv
    <3>3. DOMAIN run' = Runner /\ \A s \in Runner \ {r} : run'[s] = run[s]
      BY <2>4, <3>2 DEF Goes
    <3>4. run'[r] = [run[r] EXCEPT !.pc = "build"]
      BY <2>4, <3>2 DEF Goes
    <3>5. /\ DOMAIN run'[r] = {"pc", "job", "program", "exec"} /\ run'[r].pc = "build"
          /\ run'[r].job = run[r].job /\ run'[r].program = run[r].program
      BY <2>1, <3>4 DEF RunOK
    <3>6. RunOK(r)'
      BY <2>1, <3>1, <3>5 DEF RunOK, NetSteps, ProgramSteps
    <3>7. \A s \in Runner \ {r} : RunOK(s)'
      BY <3>1, <3>2, <3>3 DEF RunOK
    <3> QED
      BY <1>6, <3>1, <3>3, <3>6, <3>7 DEF FetchChainId, EncodeInv, OnePerKey
  <2> QED
    BY <1>6, <2>3, <2>4 DEF FetchChainId
<1>7. ASSUME NEW r \in Runner, BuildExecutor(r) PROVE EncodeInv'
  <2> DEFINE job == run[r].job
             exec == [url |-> job.url, block |-> job.block, forks |-> chain_ids[job.url]]
             new == [key |-> KeyOf(job), exec |-> exec]
  <2>1. run[r] # NoRun /\ run[r].pc = "build" /\ RunOK(r) /\ UNCHANGED <<chain_ids, signed>>
    BY <1>7 DEF BuildExecutor, At, NoRun, EncodeInv
  <2>2. job.url \in Url /\ job.block \in Nat /\ exec = ExecutorOf(job.url, job.block)
    BY <2>1 DEF RunOK, ExecutorOf
  <2>3. CASE Errors(r) /\ UNCHANGED inner
    BY <1>a, <2>1, <2>3, EndsRun DEF Errors, RunsOK
  <2>4. CASE /\ put(KeyOf(job), exec)
             /\ run' = [run EXCEPT ![r].pc = "estimate", ![r].exec = {exec}]
    <3>1. RunsOK'
      <4> HIDE DEF exec, job
      <4> QED
        BY <2>1, <2>2, <2>4, HasExecutor DEF RunsOK, ProgramSteps, job
    <3>2. new \in Entry /\ new.key = KeyOf(job)
      BY <2>2 DEF Entry, KeyOf
    <3>3. inner \in Seq(Entry) /\ OnePerKey(inner) /\ DOMAIN inner = 1..Len(inner)
      BY DEF EncodeInv
    <3> DEFINE others == Without(KeyOf(job))
               t == <<new>> \o others
    <3>4. others \in Seq(Entry) /\ OnePerKey(others) /\ \A j \in DOMAIN others : others[j].key # new.key
      <4> DEFINE at == {i \in DOMAIN inner : inner[i].key = KeyOf(job)}
      <4>1. CASE at = {}
        BY <3>2, <3>3, <4>1 DEF Without
      <4>2. CASE at # {}
        <5>1. PICK i \in at : others = RemoveAt(inner, i)
          BY <4>2 DEF Without
        <5>2. i \in 1..Len(inner) /\ inner[i].key = new.key
          BY <3>2, <3>3, <5>1
        <5> HIDE DEF others, at, new
        <5>3. /\ RemoveAt(inner, i) \in Seq(Entry) /\ OnePerKey(RemoveAt(inner, i))
              /\ \A j \in DOMAIN RemoveAt(inner, i) : RemoveAt(inner, i)[j].key # inner[i].key
          BY <3>3, <5>2, RemovedKey
        <5> QED
          BY <5>1, <5>2, <5>3
      <4> QED
        BY <4>1, <4>2
    <3>5. inner' = SubSeq(t, 1, Min({Capacity, Len(t)}))
      BY <2>4 DEF put
    <3> HIDE DEF others, new
    <3>6. inner' \in Seq(Entry) /\ OnePerKey(inner') /\ Len(inner') <= Capacity
      BY <3>2, <3>4, <3>5, FrontEntry
    <3> QED
      BY <2>1, <3>1, <3>6 DEF EncodeInv, RunsOK
  <2> QED
    BY <1>7, <2>3, <2>4 DEF BuildExecutor
<1>8. ASSUME NEW r \in Runner, EstimateRun(r) PROVE EncodeInv'
  <2>1. run[r] # NoRun /\ run[r].pc = "estimate" /\ RunOK(r) /\ UNCHANGED <<chain_ids, inner>>
    BY <1>8 DEF EstimateRun, At, NoRun, EncodeInv
  <2>2. RunsOK'
    BY <1>8, <2>1, EndsRun DEF EstimateRun, Errors, RunsOK
  <2>3. signed' \subseteq signed \cup {[job |-> run[r].job, program |-> p] : p \in run[r].program}
    BY <1>8 DEF EstimateRun
  <2>4. run[r].program = {ProgramOf(run[r].job)}
    BY <2>1 DEF RunOK, ProgramSteps
  <2>5. \A x \in signed' : x.program = ProgramOf(x.job)
    BY <2>3, <2>4 DEF EncodeInv
  <2> QED
    BY <2>1, <2>2, <2>5 DEF EncodeInv, RunsOK, OnePerKey
<1> QED
  BY <1>1, <1>2, <1>3, <1>4, <1>5, <1>6, <1>7, <1>8 DEF EncodeNext

LEMMA EncodeStart == EncodeInit => EncodeInv
BY EncodeAssumption DEF EncodeInit, EncodeInv, RunOK, OnePerKey

\* Two operators that both sign for a job sign the same program, whatever their
\* nodes offer, say and refuse, and whatever other runs are on their way.
THEOREM OperatorsSignAlike == EncodeSpec => []OperatorsAgree
<1>1. EncodeInv => OperatorsAgree
  BY DEF EncodeInv, OperatorsAgree
<1> QED
  BY <1>1, EncodeStart, EncodeStep, PTL DEF EncodeSpec

\* A program is priced by the executor of its own endpoint, block and chain,
\* and the cache keeps its bound.
THEOREM ExecutorsFit == EncodeSpec => []ExecutorFits
<1>1. EncodeInv => ExecutorFits
  BY DEF EncodeInv, ExecutorFits, RunOK, At, NoRun, ExecutorOf, OnePerKey
<1> QED
  BY <1>1, EncodeStart, EncodeStep, PTL DEF EncodeSpec
=============================================================================
