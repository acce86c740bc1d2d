--------------------------- MODULE AnalyzerProofs ---------------------------
(***************************************************************************)
(* Proofs about the RPC budget and the transaction analyzer (Analyzer),    *)
(* for any finite number of tasks, any weights, rates and attempts.        *)
(***************************************************************************)
EXTENDS Analyzer, FoldTheorems

-----------------------------------------------------------------------------
(* The budget. *)

\* The sum that the model takes with the community modules' operator.
LEMMA SumIsFold ==
  ASSUME NEW w, NEW S, IsFiniteSet(S), \A x \in S : w[x] = WeightOf(x)
  PROVE  MapThenSumSet(WeightOf, S) = SumOf(w, S)
<1> DEFINE IsSumOf(g) == g = [s \in SUBSET S |->
             IF s = {} THEN 0
             ELSE WeightOf(CHOOSE x \in s : TRUE) + g[s \ {CHOOSE x \in s : TRUE}]]
<1>1. MapThenSumSet(WeightOf, S) = (CHOOSE g : IsSumOf(g))[S]
  BY DEF MapThenSumSet, MapThenFoldSet
<1>2. ASSUME NEW s \in SUBSET S, s # {} PROVE w[Pick(s)] = WeightOf(CHOOSE x \in s : TRUE)
  BY <1>2 DEF Pick
<1>3. PICK g : IsSum(g, w, S)
  BY SumExists
<1>4. \A h : IsSum(h, w, S) <=> IsSumOf(h)
  BY <1>2 DEF IsSum, Pick
<1> HIDE DEF IsSumOf
<1>5. (CHOOSE h : IsSumOf(h)) = (CHOOSE h : IsSum(h, w, S))
  BY <1>4
<1> QED
  BY <1>1, <1>5 DEF SumOf

-----------------------------------------------------------------------------
(* The tasks. *)

LEMMA OwedType ==
  \A t \in RpcTask : Owed(t) \in Nat /\ WeightOf(t) \in Nat /\ Owed(t) >= WeightOf(t) /\ Owed(t) >= 1
<1> SUFFICES ASSUME NEW t \in RpcTask
             PROVE  Owed(t) \in Nat /\ WeightOf(t) \in Nat /\ Owed(t) >= WeightOf(t) /\ Owed(t) >= 1
  OBVIOUS
<1>1. WeightOf(t) \in Nat
  BY AnalyzerAssumption DEF WeightOf
<1>2. \E x \in {WeightOf(t), 1} : \A y \in {WeightOf(t), 1} : x >= y
  BY <1>1
<1> QED
  BY <1>1, <1>2 DEF Owed, Max

\* The lesser of two natural numbers.
LEMMA MinOfTwo ==
  ASSUME NEW a \in Nat, NEW b \in Nat
  PROVE  Min({a, b}) \in {a, b} /\ Min({a, b}) <= a /\ Min({a, b}) <= b
<1>1. \E x \in {a, b} : \A y \in {a, b} : x <= y
  OBVIOUS
<1> QED
  BY <1>1 DEF Min

\* A task's record after a step of that task, field by field.
Moved(t, pc, left, said, outcome) ==
  /\ DOMAIN task' = RpcTask /\ \A s \in RpcTask \ {t} : task'[s] = task[s]
  /\ DOMAIN task'[t] = {"pc", "left", "tries", "said", "outcome"}
  /\ task'[t].pc = pc /\ task'[t].left = left
  /\ task'[t].said = said /\ task'[t].outcome = outcome

LEMMA Moves ==
  ASSUME TasksOK, NEW t \in RpcTask
  PROVE  /\ \A pc : Goto(t, pc) => Moved(t, pc, task[t].left, task[t].said, task[t].outcome)
         /\ \A o : Ends(t, o) => Moved(t, "done", task[t].left, task[t].said, o)
         /\ \A x, pc : Said(t, x, pc) =>
              Moved(t, pc, task[t].left, task[t].said \cup {x}, task[t].outcome)
         /\ \A x, o : SaidLast(t, x, o) => Moved(t, "done", task[t].left, task[t].said \cup {x}, o)
         /\ task' = [task EXCEPT ![t].tries = @ + 1] =>
              Moved(t, task[t].pc, task[t].left, task[t].said, task[t].outcome)
<1>1. DOMAIN task = RpcTask /\ DOMAIN task[t] = {"pc", "left", "tries", "said", "outcome"}
  BY DEF TasksOK, TaskOK
<1>2. ASSUME NEW pc, Goto(t, pc) PROVE Moved(t, pc, task[t].left, task[t].said, task[t].outcome)
  <2>1. task'[t] = [[task[t] EXCEPT !.pc = pc] EXCEPT !.tries = 0]
    BY <1>1, <1>2 DEF Goto
  <2> QED
    BY <1>1, <1>2, <2>1 DEF Goto, Moved
<1>3. ASSUME NEW o, Ends(t, o) PROVE Moved(t, "done", task[t].left, task[t].said, o)
  <2>1. task'[t] = [[task[t] EXCEPT !.pc = "done"] EXCEPT !.outcome = o]
    BY <1>1, <1>3 DEF Ends
  <2> QED
    BY <1>1, <1>3, <2>1 DEF Ends, Moved
<1>4. ASSUME NEW x, NEW pc, Said(t, x, pc)
      PROVE  Moved(t, pc, task[t].left, task[t].said \cup {x}, task[t].outcome)
  <2>1. task'[t] = [[[task[t] EXCEPT !.pc = pc] EXCEPT !.tries = 0]
                    EXCEPT !.said = task[t].said \cup {x}]
    BY <1>1, <1>4 DEF Said
  <2> QED
    BY <1>1, <1>4, <2>1 DEF Said, Moved
<1>5. ASSUME NEW x, NEW o, SaidLast(t, x, o)
      PROVE  Moved(t, "done", task[t].left, task[t].said \cup {x}, o)
  <2>1. task'[t] = [[[task[t] EXCEPT !.pc = "done"] EXCEPT !.said = task[t].said \cup {x}]
                    EXCEPT !.outcome = o]
    BY <1>1, <1>5 DEF SaidLast
  <2> QED
    BY <1>1, <1>5, <2>1 DEF SaidLast, Moved
<1>6. ASSUME task' = [task EXCEPT ![t].tries = @ + 1]
      PROVE  Moved(t, task[t].pc, task[t].left, task[t].said, task[t].outcome)
  <2>1. task'[t] = [task[t] EXCEPT !.tries = task[t].tries + 1]
    BY <1>1, <1>6
  <2> QED
    BY <1>1, <1>6, <2>1 DEF Moved
<1> QED
  BY <1>2, <1>3, <1>4, <1>5, <1>6

\* A step of a task that has paid keeps what the tasks are to keep.
LEMMA StepKeeps ==
  ASSUME TasksOK, OutcomeHonest, NEW t \in RpcTask, task[t].pc # "charge",
         NEW pc \in Working \cup {"permit", "done"}, NEW said, NEW outcome,
         Moved(t, pc, task[t].left, said, outcome),
         pc # "done" => outcome = [kind |-> "none"],
         t \in Analysis => Honest(outcome, said) /\ Presupposed(pc, said)
  PROVE  TasksOK' /\ OutcomeHonest' /\ \A s \in RpcTask : task'[s].left = task[s].left
<1>1. TaskOK(t) /\ \A s \in RpcTask : TaskOK(s)
  BY DEF TasksOK
<1>2. TaskOK(t)'
  BY <1>1 DEF TaskOK, Moved
<1>3. \A s \in RpcTask \ {t} : TaskOK(s)'
  BY <1>1 DEF TaskOK, Moved
<1>4. OutcomeHonest'
  BY DEF OutcomeHonest, Moved, RpcTask
<1> QED
  BY <1>2, <1>3, <1>4 DEF TasksOK, Moved

\* No outcome yet, a failure and a poll's end claim nothing.
LEMMA NothingClaimed ==
  /\ \A said : Honest([kind |-> "none"], said)
  /\ \A e, said : Honest([kind |-> "failed", error |-> e], said)
BY DEF Honest

\* The steps of the tasks that do not draw on the bucket.
LEMMA WorkSteps ==
  ASSUME TasksOK, OutcomeHonest, NEW t \in RpcTask,
         \/ TakeSlot(t) \/ (t \in Poll /\ PollDone(t))
         \/ t \in Analysis /\ (\/ Answered(t) \/ RequestFails(t) \/ AnalyzeTimeout(t)
                               \/ FetchPreceding(t) \/ BuildSketch(t) \/ Measure(t))
  PROVE  /\ TasksOK' /\ OutcomeHonest' /\ UNCHANGED <<tokens, refills>>
         /\ \A s \in RpcTask : task'[s].left = task[s].left
         /\ \A s \in RpcTask \ {t} : task'[s].pc = task[s].pc
         /\ ~TakeSlot(t) => task[t].pc \in Working
<1> USE DEF Working, Requests
<1> DEFINE Goal == TasksOK' /\ OutcomeHonest' /\ \A s \in RpcTask : task'[s].left = task[s].left
           none == [kind |-> "none"]
           pc == task[t].pc
           said == task[t].said
<1>1. UNCHANGED <<tokens, refills>> /\ (~TakeSlot(t) => pc \in Working) /\ pc # "charge" /\ pc # "done"
  BY DEF TakeSlot, PollDone, Answered, RequestFails, AnalyzeTimeout, FetchPreceding, BuildSketch, Measure
<1>2. \E q, left, x, o : Moved(t, q, left, x, o)
  <2>1. \/ \E q : Goto(t, q)
        \/ \E o : Ends(t, o)
        \/ \E x, q : Said(t, x, q)
        \/ \E x, o : SaidLast(t, x, o)
        \/ task' = [task EXCEPT ![t].tries = @ + 1]
    BY DEF TakeSlot, PollDone, Answered, ReceiptAnswer, TraceAnswer, Receipts, RequestFails, RequestError,
       AnalyzerFails, AnalyzeTimeout, FetchPreceding, BuildSketch, Measure, Reports
  <2> QED
    BY <2>1, Moves
<1>3. TaskOK(t) /\ task[t].outcome = none
  BY <1>1 DEF TasksOK, TaskOK
<1>4. ASSUME NEW q \in Working \ {"poll"}, NEW x, Presupposed(q, x), Moved(t, q, task[t].left, x, none)
      PROVE  Goal
  BY <1>1, <1>4, StepKeeps, NothingClaimed
<1>5. ASSUME NEW o, NEW x, Honest(o, x), Moved(t, "done", task[t].left, x, o)
      PROVE  Goal
  <2>1. Presupposed("done", x)
    BY DEF Presupposed
  <2> QED
    BY <1>1, <1>5, <2>1, StepKeeps
<1>6. ASSUME TakeSlot(t) PROVE Goal
  <2> DEFINE q == IF t \in Poll THEN "poll" ELSE "receipt"
  <2>1. q \in Working /\ Presupposed(q, said)
    BY DEF Presupposed
  <2>2. Goto(t, q)
    BY <1>6 DEF TakeSlot
  <2> HIDE DEF q
  <2>3. Moved(t, q, task[t].left, said, none)
    BY <1>3, <2>2, Moves
  <2>4. q # "done"
    BY DEF q
  <2> QED
    BY <1>1, <2>1, <2>3, <2>4, StepKeeps, NothingClaimed
<1>7. ASSUME t \in Poll, PollDone(t) PROVE Goal
  <2> DEFINE o == [kind |-> "polled"]
  <2>1. Ends(t, o) /\ Honest(o, said)
    BY <1>7 DEF PollDone, Honest
  <2> HIDE DEF o
  <2> QED
    BY <1>5, <2>1, Moves
<1>8. ASSUME t \in Analysis, Answered(t) PROVE Goal
  <2>0. Presupposed(pc, said)
    BY <1>3, <1>8 DEF TaskOK
  <2>1. ASSUME pc = "receipt", NEW r \in Receipts, ReceiptAnswer(t, r) PROVE Goal
    <3>1. CASE r = "good"
      <4>1. Said(t, "good", "block") /\ Presupposed("block", said \cup {"good"})
        BY <2>1, <3>1 DEF ReceiptAnswer, Presupposed
      <4>2. Moved(t, "block", task[t].left, said \cup {"good"}, none)
        BY <1>3, <4>1, Moves
      <4> QED
        BY <1>4, <4>1, <4>2
    <3>2. CASE r \in {"absent", "partial"}
      <4>1. PICK e : SaidLast(t, r, FailedWith(e))
        BY <2>1, <3>2 DEF ReceiptAnswer
      <4>2. Honest(FailedWith(e), said \cup {r})
        BY NothingClaimed DEF FailedWith
      <4> QED
        BY <1>5, <4>1, <4>2, Moves
    <3>3. CASE r \in {"reverted", "creation", "cheap"}
      <4>0. \/ r = "reverted" /\ SaidLast(t, r, Skipped("Reverted"))
            \/ r = "creation" /\ SaidLast(t, r, Skipped("ContractCreation"))
            \/ r = "cheap" /\ SaidLast(t, r, Skipped("BelowGasThreshold"))
        BY <2>1, <3>3 DEF ReceiptAnswer
      <4>1. PICK c : SaidLast(t, r, Skipped(c)) /\ Grounds[c] = r
        <5>1. /\ Grounds["Reverted"] = "reverted" /\ Grounds["ContractCreation"] = "creation"
              /\ Grounds["BelowGasThreshold"] = "cheap"
          BY DEF Grounds
        <5> QED
          BY <4>0, <5>1
      <4>2. Honest(Skipped(c), said \cup {r})
        BY <4>1 DEF Honest, Skipped
      <4> QED
        BY <1>5, <4>1, <4>2, Moves
    <3> QED
      BY <2>1, <3>1, <3>2, <3>3 DEF Receipts
  <2>2. ASSUME pc = "block", Said(t, "block", "tx") PROVE Goal
    <3>1. Presupposed("tx", said \cup {"block"})
      BY <2>0, <2>2 DEF Presupposed
    <3>2. Moved(t, "tx", task[t].left, said \cup {"block"}, none)
      BY <1>3, <2>2, Moves
    <3> QED
      BY <1>4, <3>1, <3>2
  <2>3. ASSUME SaidLast(t, "no block", FailedWith("rpc")) PROVE Goal
    <3>1. Honest(FailedWith("rpc"), said \cup {"no block"})
      BY NothingClaimed DEF FailedWith
    <3> QED
      BY <1>5, <2>3, <3>1, Moves
  <2>4. ASSUME pc = "tx", Said(t, "tx", "trace") PROVE Goal
    <3>1. Presupposed("trace", said \cup {"tx"})
      BY <2>0, <2>4 DEF Presupposed
    <3>2. Moved(t, "trace", task[t].left, said \cup {"tx"}, none)
      BY <1>3, <2>4, Moves
    <3> QED
      BY <1>4, <3>1, <3>2
  <2>5. ASSUME pc = "trace", NEW u \in {"no updates", "updates"}, TraceAnswer(t, u) PROVE Goal
    <3>0. {"good", "block"} \subseteq said
      BY <2>0, <2>5 DEF Presupposed
    <3>1. CASE u = "no updates"
      <4>1. SaidLast(t, u, Skipped("NoStateUpdates"))
        BY <2>5, <3>1 DEF TraceAnswer
      <4>2. Honest(Skipped("NoStateUpdates"), said \cup {u})
        BY <3>1 DEF Honest, Skipped, Grounds
      <4> QED
        BY <1>5, <4>1, <4>2, Moves
    <3>2. CASE u = "updates" /\ HeuristicOnly
      <4> DEFINE o == [kind |-> "report", is_heuristic |-> TRUE, failure_reason |-> FALSE]
      <4>1. SaidLast(t, u, o)
        BY <2>5, <3>2 DEF TraceAnswer
      <4>2. Honest(o, said \cup {u})
        BY <3>0, <3>2 DEF Honest
      <4> HIDE DEF o
      <4> QED
        BY <1>5, <4>1, <4>2, Moves
    <3>3. CASE u = "updates" /\ ~HeuristicOnly
      <4>1. Said(t, u, "preceding") /\ Presupposed("preceding", said \cup {u})
        BY <2>5, <3>0, <3>3 DEF TraceAnswer, Presupposed
      <4>2. Moved(t, "preceding", task[t].left, said \cup {u}, none)
        BY <1>3, <4>1, Moves
      <4> QED
        BY <1>4, <4>1, <4>2
    <3> QED
      BY <2>5, <3>1, <3>2, <3>3
  <2> HIDE DEF Goal
  <2> QED
    BY <1>8, <2>1, <2>2, <2>3, <2>4, <2>5 DEF Answered
<1>9. ASSUME NEW e, AnalyzerFails(t, e) PROVE Goal
  <2> DEFINE o == [kind |-> "failed", error |-> e]
  <2>1. Ends(t, o) /\ Honest(o, said)
    BY <1>9, NothingClaimed DEF AnalyzerFails
  <2> HIDE DEF o
  <2> QED
    BY <1>5, <2>1, Moves
<1>10. ASSUME t \in Analysis, RequestFails(t) PROVE Goal
  <2>1. (\E e : AnalyzerFails(t, e)) \/ task' = [task EXCEPT ![t].tries = @ + 1]
    BY <1>10 DEF RequestFails, RequestError
  <2>2. ASSUME task' = [task EXCEPT ![t].tries = @ + 1] PROVE Goal
    <3>1. Moved(t, pc, task[t].left, said, none)
      BY <1>3, <2>2, Moves
    <3>2. Presupposed(pc, said) /\ pc \in Working \ {"poll"}
      BY <1>3, <1>10 DEF TaskOK, RequestFails
    <3> QED
      BY <1>4, <3>1, <3>2
  <2> HIDE DEF Goal
  <2> QED
    BY <1>9, <2>1, <2>2
<1>11. ASSUME t \in Analysis, FetchPreceding(t) PROVE Goal
  <2>1. PICK found \in {"preceding", "no preceding"} : Said(t, found, "build")
    BY <1>11 DEF FetchPreceding
  <2>2. Presupposed("build", said \cup {found})
    BY <1>3, <1>11 DEF FetchPreceding, TaskOK, Presupposed
  <2>3. Moved(t, "build", task[t].left, said \cup {found}, none)
    BY <1>3, <2>1, Moves
  <2> QED
    BY <1>4, <2>2, <2>3
<1>12. ASSUME t \in Analysis, BuildSketch(t), Goto(t, "measure") PROVE Goal
  <2>1. Presupposed("measure", said)
    BY <1>3, <1>12 DEF BuildSketch, TaskOK, Presupposed
  <2>2. Moved(t, "measure", task[t].left, said, none)
    BY <1>3, <1>12, Moves
  <2> QED
    BY <1>4, <2>1, <2>2
<1>13. ASSUME t \in Analysis, Measure(t) PROVE Goal
  <2>1. /\ {"good", "block", "updates"} \subseteq said
        /\ said \cap {"preceding", "no preceding"} # {}
    BY <1>3, <1>13 DEF Measure, TaskOK, Presupposed
  <2>2. ASSUME NEW b \in BOOLEAN, Reports(t, b, b) PROVE Goal
    <3> DEFINE o == [kind |-> "report", is_heuristic |-> b, failure_reason |-> b]
    <3>1. Ends(t, o)
      BY <2>2 DEF Reports
    <3>2. Honest(o, said)
      BY <2>1 DEF Honest
    <3> HIDE DEF o
    <3> QED
      BY <1>5, <3>1, <3>2, Moves
  <2> HIDE DEF Goal
  <2> QED
    BY <1>13, <2>2 DEF Measure
<1>14. Goal
  <2> HIDE DEF Goal
  <2> QED
    BY <1>6, <1>7, <1>8, <1>9, <1>10, <1>11, <1>12, <1>13 DEF AnalyzeTimeout, BuildSketch
<1>15. \A s \in RpcTask \ {t} : task'[s].pc = task[s].pc
  BY <1>2 DEF Moved
<1> QED
  BY <1>1, <1>14, <1>15

-----------------------------------------------------------------------------
(* The budget. *)

\* What the tasks have paid.
Paid == [t \in RpcTask |-> Owed(t) - task[t].left]

\* What was paid and what is left came from the burst and the refills, and
\* the slots bound what runs.
BudgetInv ==
  /\ tokens \in Nat /\ refills \in Nat
  /\ SumOf(Paid, RpcTask) + tokens <= BucketBurst + RefillRate * refills
  /\ Cardinality(Running) <= MaxConcurrency

AnalyzerInv == TasksOK /\ OutcomeHonest /\ BudgetInv

LEMMA PaidType ==
  ASSUME TasksOK
  PROVE  Paid \in [RpcTask -> Nat]
<1> SUFFICES ASSUME NEW t \in RpcTask PROVE Owed(t) - task[t].left \in Nat
  BY DEF Paid
<1>1. task[t].left \in 0..Owed(t)
  BY DEF TasksOK, TaskOK
<1> QED
  BY <1>1, OwedType

\* The set of running tasks is finite, and shrinks with its members.
LEMMA RunningBound ==
  ASSUME Cardinality(Running) <= MaxConcurrency, Running' \subseteq Running
  PROVE  Cardinality(Running') <= MaxConcurrency
<1>1. IsFiniteSet(Running)
  BY AnalyzerAssumption, FS_Subset DEF Running
<1>2. Cardinality(Running) \in Nat /\ Cardinality(Running') \in Nat
      /\ Cardinality(Running') <= Cardinality(Running)
  BY <1>1, FS_Subset, FS_CardinalityType
<1> QED
  BY <1>2, AnalyzerAssumption

LEMMA AnalyzerStarts ==
  AnalyzerInit => AnalyzerInv
<1> SUFFICES ASSUME AnalyzerInit PROVE AnalyzerInv
  OBVIOUS
<1> DEFINE none == [kind |-> "none"]
<1>0. task = [t \in RpcTask |-> [pc |-> "charge", left |-> Owed(t), tries |-> 0,
                                 said |-> {}, outcome |-> none]]
  BY DEF AnalyzerInit
<1> HIDE DEF none
<1>1. ASSUME NEW t \in RpcTask
      PROVE  /\ DOMAIN task[t] = {"pc", "left", "tries", "said", "outcome"}
             /\ task[t].pc = "charge" /\ task[t].left = Owed(t)
             /\ task[t].said = {} /\ task[t].outcome = none
  BY <1>0
<1>2. TasksOK
  <2>1. ASSUME NEW t \in RpcTask PROVE TaskOK(t)
    <3>1. Owed(t) \in 0..Owed(t)
      BY OwedType
    <3>2. Presupposed("charge", {})
      BY DEF Presupposed
    <3> QED
      BY <1>1, <3>1, <3>2 DEF TaskOK, none
  <2> QED
    BY <1>0, <2>1 DEF TasksOK
<1>3. OutcomeHonest
  BY <1>1, NothingClaimed DEF OutcomeHonest, RpcTask, none
<1>4. SumOf(Paid, RpcTask) = 0
  <2> DEFINE C == {T \in SUBSET RpcTask : SumOf(Paid, T) # 0}
  <2>1. \A t \in RpcTask : Paid[t] = 0
    BY <1>1, OwedType DEF Paid
  <2>2. SumOf(Paid, RpcTask) <= 0
    <3>1. ASSUME C # {} PROVE FALSE
      <4>0. C \subseteq SUBSET RpcTask /\ IsFiniteSet(RpcTask)
        BY AnalyzerAssumption
      <4>1. PICK T \in C : \A U \in C : U \subseteq T => U = T
        <5> HIDE DEF C
        <5> QED
          BY <3>1, <4>0, LeastSubset
      <4>2. T # {} /\ IsFiniteSet(T)
        BY <4>0, FS_EmptySet, FS_Subset, SumPicked
      <4>3. Pick(T) \in T
        BY <4>2 DEF Pick
      <4>4. SumOf(Paid, T \ {Pick(T)}) = 0
        BY <4>1, <4>3
      <4>5. SumOf(Paid, T) = Paid[Pick(T)] + SumOf(Paid, T \ {Pick(T)})
        BY <4>2, SumPicked
      <4> QED
        BY <2>1, <4>1, <4>3, <4>4, <4>5
    <3> QED
      BY <3>1
  <2> QED
    BY <2>2, <1>2, PaidType, SumType, AnalyzerAssumption
<1>5. Running = {}
  BY <1>1 DEF Running, Working, Requests
<1>6. BudgetInv
  BY <1>4, <1>5, FS_EmptySet, AnalyzerAssumption DEF BudgetInv, AnalyzerInit
<1> QED
  BY <1>2, <1>3, <1>6 DEF AnalyzerInv

\* A refill gives the bucket no more than its rate.
LEMMA RefillKeeps ==
  ASSUME AnalyzerInv, Refill
  PROVE  AnalyzerInv'
<1> USE DEF AnalyzerInv, Refill
<1>1. TasksOK' /\ OutcomeHonest' /\ Running' = Running /\ Paid' = Paid
  BY DEF TasksOK, TaskOK, OutcomeHonest, Running, Paid
<1>2. tokens \in Nat /\ refills \in Nat /\ RefillRate \in Nat /\ BucketBurst \in Nat
      /\ SumOf(Paid, RpcTask) \in Nat
  BY AnalyzerAssumption, PaidType, SumType DEF BudgetInv
<1>3. tokens' \in Nat /\ tokens' <= tokens + RefillRate
  BY <1>2, MinOfTwo
<1>4. RefillRate * (refills + 1) = RefillRate * refills + RefillRate /\ RefillRate * refills \in Nat
  BY <1>2
<1>5. SumOf(Paid, RpcTask) + tokens <= BucketBurst + RefillRate * refills
  BY DEF BudgetInv
<1>6. SumOf(Paid, RpcTask) + tokens' <= BucketBurst + RefillRate * refills'
  BY <1>2, <1>3, <1>4, <1>5
<1>7. SumOf(Paid, RpcTask)' = SumOf(Paid, RpcTask)
  BY <1>1
<1> QED
  BY <1>1, <1>2, <1>3, <1>6, <1>7 DEF BudgetInv

\* A chunk leaves the bucket for what its task has paid; the task leaves the
\* bucket with its last.
LEMMA ChargeKeeps ==
  ASSUME AnalyzerInv, NEW t \in RpcTask, Charge(t)
  PROVE  AnalyzerInv'
<1> DEFINE chunk == Min({task[t].left, BucketBurst})
           pc == IF task[t].left = chunk THEN "permit" ELSE "charge"
<1>1. /\ TasksOK /\ OutcomeHonest /\ BudgetInv /\ TaskOK(t)
      /\ DOMAIN task = RpcTask /\ DOMAIN task[t] = {"pc", "left", "tries", "said", "outcome"}
  BY DEF AnalyzerInv, TasksOK, TaskOK
<1>2. /\ task[t].pc = "charge" /\ tokens >= chunk /\ tokens' = tokens - chunk /\ refills' = refills
      /\ task' = [task EXCEPT ![t].left = @ - chunk, ![t].pc = pc]
  BY DEF Charge
<1>3. chunk \in Nat /\ chunk <= task[t].left /\ task[t].left \in 0..Owed(t) /\ Owed(t) \in Nat
  BY <1>1, MinOfTwo, OwedType, AnalyzerAssumption DEF TaskOK
<1> HIDE DEF chunk, pc
<1>4. Moved(t, pc, task[t].left - chunk, task[t].said, task[t].outcome)
  <2>1. task'[t] = [[task[t] EXCEPT !.left = task[t].left - chunk] EXCEPT !.pc = pc]
    BY <1>1, <1>2
  <2> QED
    BY <1>1, <1>2, <2>1 DEF Moved
<1>5. pc \in {"permit", "charge"} /\ (pc # "charge" => task[t].left - chunk = 0)
  BY <1>3 DEF pc
<1>6. TaskOK(t)'
  <2>1. task[t].outcome = [kind |-> "none"]
    BY <1>1, <1>2 DEF TaskOK
  <2>2. task[t].left - chunk \in 0..Owed(t)
    BY <1>3
  <2>3. Presupposed(pc, task[t].said)
    BY <1>5 DEF Presupposed
  <2> QED
    BY <1>4, <1>5, <2>1, <2>2, <2>3 DEF TaskOK, Moved
<1>7. \A s \in RpcTask \ {t} : TaskOK(s)'
  BY <1>1, <1>4 DEF TasksOK, TaskOK, Moved
<1>8. TasksOK' /\ OutcomeHonest'
  BY <1>1, <1>4, <1>6, <1>7 DEF TasksOK, OutcomeHonest, Moved, RpcTask
<1>9. Running' \subseteq Running
  BY <1>4, <1>5 DEF Running, Moved, Working, Requests
<1>10. SumOf(Paid, RpcTask)' = SumOf(Paid, RpcTask) + chunk
  <2>1. Paid \in [RpcTask -> Nat] /\ Paid' \in [RpcTask -> Nat]
    <3>1. ASSUME NEW s \in RpcTask PROVE Owed(s) - task'[s].left \in Nat
      <4>1. task'[s].left \in 0..Owed(s)
        BY <1>8 DEF TasksOK, TaskOK
      <4> QED
        BY <4>1, OwedType
    <3>2. Paid' = [s \in RpcTask |-> Owed(s) - task'[s].left]
      BY DEF Paid
    <3> QED
      BY <1>1, <3>1, <3>2, PaidType
  <2>2. \A s \in RpcTask \ {t} : Paid'[s] = Paid[s]
    BY <1>4 DEF Paid, Moved, Owed, WeightOf
  <2>3. Paid'[t] = Paid[t] + chunk
    BY <1>3, <1>4 DEF Paid, Moved, Owed, WeightOf
  <2>4. SumOf(Paid', RpcTask) = SumOf(Paid, RpcTask) - Paid[t] + Paid'[t]
    BY <2>1, <2>2, SumExcept, AnalyzerAssumption
  <2>5. SumOf(Paid, RpcTask) \in Nat /\ Paid[t] \in Nat
    BY <2>1, SumType, AnalyzerAssumption
  <2>6. SumOf(Paid, RpcTask)' = SumOf(Paid', RpcTask)
    BY DEF SumOf, IsSum, Pick, RpcTask
  <2> QED
    BY <1>3, <2>3, <2>4, <2>5, <2>6
<1>11. BudgetInv'
  <2>1. SumOf(Paid, RpcTask) \in Nat /\ RefillRate * refills \in Nat /\ BucketBurst \in Nat
    BY <1>1, PaidType, SumType, AnalyzerAssumption DEF BudgetInv
  <2>2. SumOf(Paid, RpcTask)' + tokens' = SumOf(Paid, RpcTask) + tokens /\ tokens' \in Nat
    BY <1>1, <1>2, <1>3, <1>10, <2>1 DEF BudgetInv
  <2>3. Cardinality(Running') <= MaxConcurrency
    BY <1>1, <1>9, RunningBound DEF BudgetInv
  <2> QED
    BY <1>1, <1>2, <2>1, <2>2, <2>3 DEF BudgetInv
<1> QED
  BY <1>8, <1>11 DEF AnalyzerInv

\* The other steps leave the bucket alone; only TakeSlot adds to what runs.
LEMMA WorkKeeps ==
  ASSUME AnalyzerInv, NEW t \in RpcTask,
         \/ TakeSlot(t) \/ (t \in Poll /\ PollDone(t))
         \/ t \in Analysis /\ (\/ Answered(t) \/ RequestFails(t) \/ AnalyzeTimeout(t)
                               \/ FetchPreceding(t) \/ BuildSketch(t) \/ Measure(t))
  PROVE  AnalyzerInv'
<1>0. TasksOK /\ OutcomeHonest /\ BudgetInv
  BY DEF AnalyzerInv
<1>1. /\ TasksOK' /\ OutcomeHonest' /\ UNCHANGED <<tokens, refills>>
      /\ \A s \in RpcTask : task'[s].left = task[s].left
      /\ \A s \in RpcTask \ {t} : task'[s].pc = task[s].pc
      /\ ~TakeSlot(t) => task[t].pc \in Working
  BY <1>0, WorkSteps
<1>2. Paid' = Paid
  BY <1>1 DEF Paid
<1>3. SumOf(Paid, RpcTask)' = SumOf(Paid, RpcTask)
  BY <1>2
<1>4. Cardinality(Running') <= MaxConcurrency
  <2>1. CASE TakeSlot(t)
    <3>1. IsFiniteSet(Running) /\ Cardinality(Running) \in Nat
      BY AnalyzerAssumption, FS_Subset, FS_CardinalityType DEF Running
    <3>2. Cardinality(Running) < MaxConcurrency
      BY <2>1 DEF TakeSlot
    <3>3. Running' \subseteq Running \cup {t}
      BY <1>1 DEF Running
    <3>4. IsFiniteSet(Running \cup {t}) /\ Cardinality(Running \cup {t}) <= Cardinality(Running) + 1
      <4>1. /\ IsFiniteSet(Running \cup {t})
            /\ Cardinality(Running \cup {t}) = IF t \in Running THEN Cardinality(Running) ELSE Cardinality(Running) + 1
        BY <3>1, FS_AddElement, Zenon
      <4> QED
        BY <3>1, <4>1
    <3>5. /\ Cardinality(Running') <= Cardinality(Running \cup {t})
          /\ Cardinality(Running') \in Nat /\ Cardinality(Running \cup {t}) \in Nat
      BY <3>3, <3>4, FS_Subset, FS_CardinalityType
    <3> QED
      BY <3>1, <3>2, <3>4, <3>5, AnalyzerAssumption
  <2>2. CASE ~TakeSlot(t)
    <3>1. Running' \subseteq Running
      BY <1>1, <2>2 DEF Running
    <3> QED
      BY <1>0, <3>1, RunningBound DEF BudgetInv
  <2> QED
    BY <2>1, <2>2
<1> QED
  BY <1>0, <1>1, <1>3, <1>4 DEF AnalyzerInv, BudgetInv

THEOREM AnalyzerInvariant ==
  AnalyzerSpec => []AnalyzerInv
<1>1. ASSUME AnalyzerInv, [AnalyzerNext]_rpcVars PROVE AnalyzerInv'
  <2>1. CASE UNCHANGED rpcVars
    <3>1. TasksOK' /\ OutcomeHonest' /\ Running' = Running /\ Paid' = Paid
      BY <1>1, <2>1 DEF AnalyzerInv, rpcVars, TasksOK, TaskOK, OutcomeHonest, Running, Paid
    <3>2. SumOf(Paid, RpcTask)' = SumOf(Paid, RpcTask)
      BY <3>1
    <3> QED
      BY <1>1, <2>1, <3>1, <3>2 DEF AnalyzerInv, BudgetInv, rpcVars
  <2>2. CASE AnalyzerNext
    <3>1. CASE Refill
      BY <1>1, <3>1, RefillKeeps
    <3>2. ASSUME NEW t \in RpcTask, Charge(t) PROVE AnalyzerInv'
      BY <1>1, <3>2, ChargeKeeps
    <3>3. ASSUME NEW t \in RpcTask, TakeSlot(t) PROVE AnalyzerInv'
      BY <1>1, <3>3, WorkKeeps
    <3>4. ASSUME NEW t \in Poll, PollDone(t) PROVE AnalyzerInv'
      <4>1. t \in RpcTask
        BY DEF RpcTask
      <4> QED
        BY <1>1, <3>4, <4>1, WorkKeeps
    <3>5. ASSUME NEW t \in Analysis,
                 \/ Answered(t) \/ RequestFails(t) \/ AnalyzeTimeout(t)
                 \/ FetchPreceding(t) \/ BuildSketch(t) \/ Measure(t)
          PROVE  AnalyzerInv'
      <4>1. t \in RpcTask
        BY DEF RpcTask
      <4> QED
        BY <1>1, <3>5, <4>1, WorkKeeps
    <3> QED
      BY <2>2, <3>1, <3>2, <3>3, <3>4, <3>5 DEF AnalyzerNext
  <2> QED
    BY <1>1, <2>1, <2>2
<1> QED
  BY <1>1, AnalyzerStarts, PTL DEF AnalyzerSpec

\* analyze_tx skips a transaction for good only for what the node said of it,
\* never for a request that failed or timed out, and a report rests on a
\* receipt, a block and a trace with updates.
THEOREM OutcomesHonest ==
  AnalyzerSpec => []OutcomeHonest
<1>1. AnalyzerInv => OutcomeHonest
  BY DEF AnalyzerInv
<1> QED
  BY <1>1, AnalyzerInvariant, PTL

\* RateLimiter::acquire: for any weights, also above the burst, what has been
\* begun never outweighs the burst and the refills so far, and no more run at
\* once than the semaphore admits.
THEOREM QuotaIsKept ==
  AnalyzerSpec => []QuotaKept
<1>1. ASSUME AnalyzerInv PROVE QuotaKept
  <2> DEFINE w == [t \in RpcTask |-> WeightOf(t)]
  <2>0. TasksOK /\ BudgetInv /\ IsFiniteSet(RpcTask)
    BY <1>1, AnalyzerAssumption DEF AnalyzerInv
  <2>1. w \in [RpcTask -> Nat] /\ Paid \in [RpcTask -> Nat] /\ Begun \in SUBSET RpcTask
    BY <2>0, OwedType, PaidType DEF Begun
  <2>2. IsFiniteSet(Begun) /\ \A t \in Begun : w[t] = WeightOf(t)
    BY <2>0, <2>1, FS_Subset
  <2>3. \A t \in Begun : w[t] <= Paid[t]
    <3> SUFFICES ASSUME NEW t \in Begun PROVE w[t] <= Paid[t]
      OBVIOUS
    <3>1. t \in RpcTask /\ task[t].pc # "charge"
      BY DEF Begun, Working, Requests
    <3>2. task[t].left = 0
      BY <2>0, <3>1 DEF TasksOK, TaskOK
    <3> QED
      BY <3>1, <3>2, OwedType DEF Paid
  <2> HIDE DEF w
  <2>4. MapThenSumSet(WeightOf, Begun) = SumOf(w, Begun)
    BY <2>2, SumIsFold
  <2>5. SumOf(w, Begun) <= SumOf(Paid, Begun) /\ SumOf(Paid, Begun) <= SumOf(Paid, RpcTask)
    BY <2>0, <2>1, <2>3, SumMonotone, SumSubset
  <2>6. SumOf(w, Begun) \in Nat /\ SumOf(Paid, Begun) \in Nat /\ SumOf(Paid, RpcTask) \in Nat
    BY <2>0, <2>1, SumType
  <2>7. RefillRate * refills \in Nat /\ BucketBurst \in Nat
    BY <2>0, AnalyzerAssumption DEF BudgetInv
  <2> QED
    BY <2>0, <2>4, <2>5, <2>6, <2>7 DEF QuotaKept, BudgetInv
<1> QED
  BY <1>1, AnalyzerInvariant, PTL
=============================================================================
