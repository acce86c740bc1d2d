---------------------------- MODULE IngestProofs ----------------------------
(***************************************************************************)
(* Proofs about Ingest, for every number of workers, every chain, every    *)
(* configuration and any number of faults.  IInv is inductive; the theorems *)
(* read their properties off it.                                           *)
(***************************************************************************)
EXTENDS Ingest, SequenceTheorems, FiniteSetTheorems, TLAPS

\* An interval above 0 and below a head is a set of blocks.
LEMMA IntervalInBlocks ==
  ASSUME NEW lo \in Nat, lo >= 1, NEW h \in Nat, h <= MaxHead, NEW k \in Nat
  PROVE  lo .. ((h - k) - 1) \subseteq Blocks
BY BoundsAssumption DEF Blocks

\* The initial state satisfies the inductive invariant.
LEMMA InitIInv == Init => IInv
<1> SUFFICES ASSUME Init PROVE IInv
  OBVIOUS
<1> USE DEF Init
<1>1. TypeOK
  <2>1. queue \in Seq(Job) /\ dead \in Seq(Job)
    BY EmptySeq
  <2>2. next_block \in 1 .. (MaxHead + 1) /\ idx \in 1 .. (MaxTxs + 1) /\ clock \in 1 .. MaxClock
    BY BoundsAssumption
  <2>3. chainHead \in 0 .. MaxHead /\ head \in 0 .. MaxHead /\ faults \in 0 .. MaxFaults
    BY BoundsAssumption
  <2>4. skipped_blocks \in Nat /\ expired_jobs \in Nat
    OBVIOUS
  <2> QED
    BY <2>1, <2>2, <2>3, <2>4, Zenon DEF TypeOK
<1>2. JobsGenuine /\ WorkersHoldJobs
  BY DEF JobsGenuine, WorkersHoldJobs
<1>3. CursorOnChain /\ FanProgress /\ CursorCoverage
  BY DEF CursorOnChain, FanProgress, CursorCoverage
<1>4. QueueBudget
  <2>1. Busy = {}
    BY DEF Busy
  <2>2. Cardinality(Busy) = 0
    BY <2>1, FS_EmptySet
  <2>3. Cardinality(Workers) \in Nat
    BY WorkersAssumption, FS_CardinalityType
  <2> QED
    BY <2>2, <2>3, BoundsAssumption, ConfigAssumption DEF QueueBudget, Remaining
<1> QED
  BY <1>1, <1>2, <1>3, <1>4 DEF IInv

\* The job enqueue_block builds is a job, and stands for a call.
LEMMA NewJobType ==
  ASSUME TypeOK, CursorOnChain, htPc = "fan",
         idx <= Len(Block[next_block]), Block[next_block][idx] # NoTo
  PROVE  /\ NewJob \in Job
         /\ next_block \in Blocks
         /\ idx \in Calls(next_block)
         /\ TxOf(NewJob) \in Tx
         /\ idx + 1 \in 1 .. (MaxTxs + 1)
<1>1. next_block \in Blocks
  BY BoundsAssumption DEF TypeOK, CursorOnChain, Blocks
<1>2. Block[next_block] \in Seq(Address \cup {NoTo}) /\ Len(Block[next_block]) <= MaxTxs
  BY <1>1, BlockAssumption
<1>3. DOMAIN Block[next_block] = 1 .. Len(Block[next_block]) /\ Len(Block[next_block]) \in Nat
  BY <1>2, LenProperties
<1>4. idx \in 1 .. Len(Block[next_block]) /\ idx \in 1 .. MaxTxs
  BY <1>2, <1>3, BoundsAssumption DEF TypeOK
<1>5. NewJob \in Job
  BY <1>1, <1>4 DEF NewJob, Job, TypeOK
<1> QED
  BY <1>1, <1>3, <1>4, <1>5, BoundsAssumption DEF Calls, NewJob, TxOf, Tx

\* A requeued job is a job for the same call with the same age.
LEMMA NextAttemptType ==
  ASSUME NEW j \in Job
  PROVE  /\ next_attempt(j) \in Job
         /\ next_attempt(j).tx_index = j.tx_index
         /\ next_attempt(j).block_number = j.block_number
         /\ next_attempt(j).enqueued_at = j.enqueued_at
BY DEF next_attempt, Job

\* What a job in a worker's hands names.
LEMMA HeldJob ==
  ASSUME IInv, NEW w \in Workers, wPc[w] # "idle"
  PROVE  job[w] \in Job /\ TxOf(job[w]) \in Tx /\ To(w) \in Address /\ Genuine(job[w])
<1>1. job[w] # NoJob /\ job[w] \in Job
  BY DEF IInv, WorkersHoldJobs, TypeOK
<1>2. Genuine(job[w])
  BY <1>1 DEF IInv, JobsGenuine
<1>3. job[w].block_number \in Blocks /\ job[w].tx_index \in 1 .. MaxTxs
  BY <1>1 DEF Job
<1>4. Block[job[w].block_number] \in Seq(Address \cup {NoTo})
  BY <1>3, BlockAssumption
<1>5. To(w) \in Address
  BY <1>2, <1>4, LenProperties DEF Genuine, Calls, To
<1> QED
  BY <1>1, <1>2, <1>3, <1>5 DEF Tx, TxOf

\* Every step keeps the type invariant.
LEMMA TypeStep == IInv /\ [Next]_vars => TypeOK'
<1> SUFFICES ASSUME IInv, [Next]_vars PROVE TypeOK'
  OBVIOUS
<1> USE BoundsAssumption, ConfigAssumption
<1> USE DEF IInv, TypeOK, htVars, redisVars, workerVars, dbVars, ghostVars, envVars
<1>1. CASE AdvanceChain
  BY <1>1 DEF AdvanceChain
<1>2. CASE Tick
  BY <1>2 DEF Tick
<1>3. CASE ExpireLastHead
  BY <1>3 DEF ExpireLastHead
<1>4. CASE HtStart
  BY <1>4 DEF HtStart, SeenHeads, Blocks
<1>5. CASE HtCrash
  BY <1>5 DEF HtCrash, Fault
<1>6. CASE HtPoll
  <2>1. head' \in 0 .. MaxHead /\ faults' \in 0 .. MaxFaults
    BY <1>6 DEF HtPoll, Fault, SeenHeads
  <2>2. last_head' \in (0 .. MaxHead) \cup {NoHead}
    BY <1>6 DEF HtPoll, SeenHeads
  <2>3. publishFailed' \in BOOLEAN
    BY <1>6, Zenon DEF HtPoll
  <2> QED
    BY <1>6, <2>1, <2>2, <2>3 DEF HtPoll
<1>7. CASE HtWait
  BY <1>7 DEF HtWait
<1>8. CASE HtSkipAhead
  <2>1. next_block' \in 1 .. (MaxHead + 1) /\ next_block' <= head
    BY <1>8 DEF HtSkipAhead, TooFarBehind
  <2>2. next_block .. ((head - MaxBlocksBehind) - 1) \subseteq Blocks
    <3>1. next_block \in Nat /\ next_block >= 1 /\ head \in Nat /\ head <= MaxHead
      OBVIOUS
    <3> QED
      BY <3>1, IntervalInBlocks
  <2>3. skipped' \subseteq Blocks /\ uncounted' \subseteq Blocks
    BY <1>8, <2>2, Zenon DEF HtSkipAhead
  <2>4. skipped_blocks' \in Nat /\ faults' \in 0 .. MaxFaults
    BY <1>8 DEF HtSkipAhead, TooFarBehind, Fault
  <2> QED
    BY <1>8, <2>1, <2>3, <2>4 DEF HtSkipAhead
<1>9. CASE HtProceed
  BY <1>9 DEF HtProceed
<1>10. CASE HtFetch
  BY <1>10 DEF HtFetch
<1>11. CASE HtFetchFails
  BY <1>11 DEF HtFetchFails, Fault
<1>12. CASE HtSkipCreate
  <2>1. next_block \in Blocks
    <3>1. htPc = "fan"
      BY <1>12 DEF HtSkipCreate
    <3> QED
      BY <3>1 DEF CursorOnChain, Blocks
  <2>2. Len(Block[next_block]) <= MaxTxs /\ Len(Block[next_block]) \in Nat
    BY <2>1, BlockAssumption, LenProperties
  <2> QED
    BY <1>12, <2>2 DEF HtSkipCreate
<1>13. CASE HtEnqueue
  <2>1. NewJob \in Job /\ TxOf(NewJob) \in Tx /\ idx + 1 \in 1 .. (MaxTxs + 1)
    BY <1>13, NewJobType DEF HtEnqueue
  <2>2. queue' \in Seq(Job)
    BY <1>13, <2>1, AppendProperties DEF HtEnqueue
  <2>3. pushed' \subseteq Tx \X (1 .. MaxClock)
    BY <1>13, <2>1 DEF HtEnqueue
  <2> QED
    BY <1>13, <2>1, <2>2, <2>3 DEF HtEnqueue
<1>14. CASE HtEnqueueFails
  <2>1. NewJob \in Job /\ TxOf(NewJob) \in Tx
    BY <1>14, NewJobType DEF HtEnqueueFails
  <2>2. queue' \in Seq(Job)
    <3>1. Append(queue, NewJob) \in Seq(Job)
      BY <2>1, AppendProperties
    <3> QED
      BY <1>14, <3>1 DEF HtEnqueueFails
  <2>3. pushed' \subseteq Tx \X (1 .. MaxClock)
    BY <1>14, <2>1 DEF HtEnqueueFails
  <2> QED
    BY <1>14, <2>2, <2>3 DEF HtEnqueueFails, Fault
<1>15. CASE HtBlockDone
  BY <1>15 DEF HtBlockDone, CursorOnChain
<1>16. ASSUME NEW w \in Workers, WkClaim(w) PROVE TypeOK'
  <2>1. Head(queue) \in Job /\ Tail(queue) \in Seq(Job)
    BY <1>16, HeadTailProperties DEF WkClaim
  <2> QED
    BY <1>16, <2>1 DEF WkClaim
<1>17. ASSUME NEW w \in Workers, WkExpire(w) PROVE TypeOK'
  BY <1>17, HeldJob DEF WkExpire, Finish, Fault, Fates
<1>18. ASSUME NEW w \in Workers, WkAcquire(w) \/ WkReport(w) PROVE TypeOK'
  BY <1>18 DEF WkAcquire, WkReport
<1>19. ASSUME NEW w \in Workers, WkSkip(w) PROVE TypeOK'
  BY <1>19, HeldJob DEF WkSkip, Finish, Fates
<1>20. ASSUME NEW w \in Workers, WkRequeue(w) PROVE TypeOK'
  <2>1. next_attempt(job[w]) \in Job
    BY <1>20, HeldJob, NextAttemptType DEF WkRequeue
  <2>2. queue' \in Seq(Job)
    BY <1>20, <2>1, AppendProperties DEF WkRequeue
  <2> QED
    BY <1>20, <2>2 DEF WkRequeue
<1>21. ASSUME NEW w \in Workers, WkDeadLetter(w) PROVE TypeOK'
  <2>1. job[w] \in Job /\ TxOf(job[w]) \in Tx
    BY <1>21, HeldJob DEF WkDeadLetter
  <2>2. dead' \in Seq(Job)
    BY <1>21, <2>1, AppendProperties DEF WkDeadLetter
  <2> QED
    BY <1>21, <2>1, <2>2 DEF WkDeadLetter, Finish, Fates
<1>22. ASSUME NEW w \in Workers, WkInsert(w) PROVE TypeOK'
  BY <1>22, HeldJob DEF WkInsert
<1>23. ASSUME NEW w \in Workers, WkUpsertProject(w) PROVE TypeOK'
  BY <1>23, HeldJob DEF WkUpsertProject
<1>24. ASSUME NEW w \in Workers, WkUpsertAddress(w) PROVE TypeOK'
  BY <1>24, HeldJob DEF WkUpsertAddress, Finish, Fates
<1>25. ASSUME NEW w \in Workers, WkAbandon(w) PROVE TypeOK'
  <2>1. TxOf(job[w]) \in Tx
    BY <1>25, HeldJob DEF WkAbandon, WorkersHoldJobs
  <2>2. Abandoned(w) \in Fates
    BY DEF Abandoned, Fates
  <2> QED
    BY <1>25, <2>1, <2>2 DEF WkAbandon, Finish, Fault
<1>26. ASSUME NEW w \in Workers, WkClaimLost(w) PROVE TypeOK'
  <2>1. Head(queue) \in Job /\ Tail(queue) \in Seq(Job)
    BY <1>26, HeadTailProperties DEF WkClaimLost
  <2>2. TxOf(Head(queue)) \in Tx
    BY <2>1 DEF TxOf, Tx, Job
  <2>3. fate' \subseteq Tx \X Fates
    BY <1>26, <2>2 DEF WkClaimLost, Fates
  <2> QED
    BY <1>26, <2>1, <2>3 DEF WkClaimLost, Fault
<1>27. CASE UNCHANGED vars
  BY <1>27 DEF vars
<1> QED
  BY <1>1, <1>2, <1>3, <1>4, <1>5, <1>6, <1>7, <1>8, <1>9, <1>10, <1>11, <1>12, <1>13,
     <1>14, <1>15, <1>16, <1>17, <1>18, <1>19, <1>20, <1>21, <1>22, <1>23, <1>24, <1>25,
     <1>26, <1>27
     DEF Next, Environment, Faulty, HeadTracker, Worker

\* Genuine with the set of pushes as an argument.
Backed(j, ps) ==
  /\ j.tx_index \in Calls(j.block_number)
  /\ <<TxOf(j), j.enqueued_at>> \in ps

\* A pushed job joins a queue of genuine ones.
LEMMA AppendBacked ==
  ASSUME NEW q \in Seq(Job), NEW j \in Job, NEW ps, NEW qs, ps \subseteq qs,
         \A i \in 1 .. Len(q) : Backed(q[i], ps), Backed(j, qs)
  PROVE  \A i \in 1 .. Len(Append(q, j)) : Backed(Append(q, j)[i], qs)
<1>1. Len(Append(q, j)) = Len(q) + 1 /\ Len(q) \in Nat
  BY AppendProperties, LenProperties
<1>2. ASSUME NEW i \in 1 .. Len(q) PROVE Backed(Append(q, j)[i], qs)
  <2>1. Append(q, j)[i] = q[i]
    BY AppendProperties
  <2> QED
    BY <2>1 DEF Backed
<1>3. Append(q, j)[Len(q) + 1] = j
  BY AppendProperties
<1> QED
  BY <1>1, <1>2, <1>3

\* Taking the head of the queue leaves genuine jobs and hands out one.
LEMMA TailBacked ==
  ASSUME NEW q \in Seq(Job), q # <<>>, NEW ps, \A i \in 1 .. Len(q) : Backed(q[i], ps)
  PROVE  /\ Backed(Head(q), ps)
         /\ \A i \in 1 .. Len(Tail(q)) : Backed(Tail(q)[i], ps)
<1>1. Len(q) \in Nat /\ Len(q) # 0 /\ Head(q) = q[1]
  BY LenProperties, EmptySeq
<1>2. ASSUME NEW i \in 1 .. Len(Tail(q)) PROVE Backed(Tail(q)[i], ps)
  <2>1. Len(Tail(q)) = Len(q) - 1 /\ Tail(q)[i] = q[i + 1]
    BY HeadTailProperties
  <2>2. i + 1 \in 1 .. Len(q)
    BY <1>1, <2>1
  <2> QED
    BY <2>1, <2>2
<1> QED
  BY <1>1, <1>2

\* Every step keeps the jobs genuine and the workers' hands consistent.
LEMMA JobsStep == IInv /\ [Next]_vars => JobsGenuine' /\ WorkersHoldJobs'
<1> SUFFICES ASSUME IInv, [Next]_vars PROVE JobsGenuine' /\ WorkersHoldJobs'
  OBVIOUS
<1> USE DEF IInv, TypeOK, htVars, redisVars, workerVars, dbVars, ghostVars, envVars
<1> DEFINE Quiet == UNCHANGED <<queue, wPc, job, pushed>>
<1>0. \A i \in 1 .. Len(queue) : Backed(queue[i], pushed)
  BY DEF JobsGenuine, Genuine, Backed
<1>1. CASE Quiet
  BY <1>1 DEF JobsGenuine, WorkersHoldJobs, Genuine, Backed
<1>2. CASE HtEnqueue \/ HtEnqueueFails
  <2>1. CASE UNCHANGED <<queue, pushed>>
    BY <1>1, <1>2, <2>1 DEF HtEnqueue, HtEnqueueFails
  <2>2. CASE queue' = Append(queue, NewJob) /\ pushed' = pushed \cup {<<TxOf(NewJob), clock>>}
    <3>1. NewJob \in Job /\ idx \in Calls(next_block)
      BY <1>2, NewJobType DEF HtEnqueue, HtEnqueueFails
    <3>2. NewJob.tx_index = idx /\ NewJob.block_number = next_block /\ NewJob.enqueued_at = clock
      BY DEF NewJob
    <3>3. <<TxOf(NewJob), clock>> \in pushed'
      BY <2>2
    <3> HIDE DEF NewJob
    <3>4. Backed(NewJob, pushed')
      BY <3>1, <3>2, <3>3 DEF Backed
    <3>5. \A i \in 1 .. Len(queue') : Backed(queue'[i], pushed')
      <4>1. queue \in Seq(Job)
        OBVIOUS
      <4> HIDE DEF IInv, TypeOK
      <4> QED
        BY <2>2, <3>1, <3>4, <4>1, <1>0, AppendBacked
    <3> QED
      BY <1>2, <2>2, <3>5 DEF JobsGenuine, WorkersHoldJobs, Genuine, Backed, HtEnqueue, HtEnqueueFails
  <2> QED
    BY <1>2, <2>1, <2>2 DEF HtEnqueue, HtEnqueueFails
<1>3. ASSUME NEW w \in Workers, WkClaim(w) PROVE JobsGenuine' /\ WorkersHoldJobs'
  <2>1. Head(queue) \in Job /\ Head(queue) # NoJob
    BY <1>3, HeadTailProperties, NoJobAssumption DEF WkClaim
  <2>2. Backed(Head(queue), pushed) /\ \A i \in 1 .. Len(queue') : Backed(queue'[i], pushed)
    BY <1>0, <1>3, TailBacked DEF WkClaim
  <2> QED
    BY <1>3, <2>1, <2>2 DEF WkClaim, JobsGenuine, WorkersHoldJobs, Genuine, Backed
<1>4. ASSUME NEW w \in Workers, WkRequeue(w) PROVE JobsGenuine' /\ WorkersHoldJobs'
  <2>1. job[w] \in Job /\ Genuine(job[w])
    BY <1>4, HeldJob DEF WkRequeue
  <2>2. next_attempt(job[w]) \in Job /\ Backed(next_attempt(job[w]), pushed)
    BY <2>1, NextAttemptType DEF Genuine, Backed, TxOf
  <2>3. \A i \in 1 .. Len(queue') : Backed(queue'[i], pushed)
    BY <1>0, <1>4, <2>2, AppendBacked DEF WkRequeue
  <2> QED
    BY <1>4, <2>3 DEF WkRequeue, JobsGenuine, WorkersHoldJobs, Genuine, Backed
<1>5. ASSUME NEW w \in Workers, NEW f, Finish(w, f), UNCHANGED <<queue, pushed>>
      PROVE  JobsGenuine' /\ WorkersHoldJobs'
  BY <1>5 DEF Finish, JobsGenuine, WorkersHoldJobs, Genuine, Backed
<1>6. ASSUME NEW w \in Workers, wPc[w] # "idle", NEW p, p # "idle",
             wPc' = [wPc EXCEPT ![w] = p], UNCHANGED <<queue, pushed, job>>
      PROVE  JobsGenuine' /\ WorkersHoldJobs'
  BY <1>6 DEF JobsGenuine, WorkersHoldJobs, Genuine, Backed
<1>7. ASSUME NEW w \in Workers, WkClaimLost(w) PROVE JobsGenuine' /\ WorkersHoldJobs'
  <2>1. \A i \in 1 .. Len(queue') : Backed(queue'[i], pushed)
    BY <1>0, <1>7, TailBacked DEF WkClaimLost
  <2> QED
    BY <1>7, <2>1 DEF WkClaimLost, JobsGenuine, WorkersHoldJobs, Genuine, Backed
<1>8. CASE Environment \/ HtCrash \/ HtFetchFails \/ (HeadTracker /\ ~HtEnqueue) \/ UNCHANGED vars
  <2>1. Quiet
    BY <1>8 DEF vars, Environment, AdvanceChain, Tick, ExpireLastHead, HtCrash, HtFetchFails,
      HeadTracker, HtStart, HtPoll, HtWait, HtSkipAhead, HtProceed, HtFetch, HtSkipCreate,
      HtBlockDone
  <2> QED
    BY <1>1, <2>1
<1>9. ASSUME NEW w \in Workers,
             WkExpire(w) \/ WkSkip(w) \/ WkDeadLetter(w) \/ WkUpsertAddress(w) \/ WkAbandon(w)
      PROVE  JobsGenuine' /\ WorkersHoldJobs'
  BY <1>5, <1>9 DEF WkExpire, WkSkip, WkDeadLetter, WkUpsertAddress, WkAbandon
<1>10. ASSUME NEW w \in Workers,
              WkAcquire(w) \/ WkReport(w) \/ WkInsert(w) \/ WkUpsertProject(w)
       PROVE  JobsGenuine' /\ WorkersHoldJobs'
  BY <1>6, <1>10 DEF WkAcquire, WkReport, WkInsert, WkUpsertProject
<1> QED
  BY <1>2, <1>3, <1>4, <1>7, <1>8, <1>9, <1>10
     DEF Next, Faulty, HeadTracker, Worker

\* Every step keeps the cursor on the chain and every block below it covered.
LEMMA CursorStep ==
  IInv /\ [Next]_vars => CursorOnChain' /\ FanProgress' /\ CursorCoverage'
<1> SUFFICES ASSUME IInv, [Next]_vars
             PROVE  CursorOnChain' /\ FanProgress' /\ CursorCoverage'
  OBVIOUS
<1> USE BoundsAssumption, ConfigAssumption
<1> USE DEF IInv, TypeOK, htVars, redisVars, workerVars, dbVars, ghostVars, envVars
<1> DEFINE Kept == UNCHANGED <<next_block, idx, pushed, skipped, missed>>
<1>1. ASSUME Kept, UNCHANGED <<htPc, head>>
      PROVE  CursorOnChain' /\ FanProgress' /\ CursorCoverage'
  BY <1>1 DEF CursorOnChain, FanProgress, CursorCoverage, Pushed
<1>2. ASSUME Kept, htPc' \notin {"fetch", "fan"}
      PROVE  CursorOnChain' /\ FanProgress' /\ CursorCoverage'
  BY <1>2 DEF CursorOnChain, FanProgress, CursorCoverage
<1>3. CASE HtStart
  <2>1. CursorOnChain' /\ FanProgress'
    BY <1>3 DEF HtStart, CursorOnChain, FanProgress
  <2>2. PICK h \in SeenHeads : next_block' = h + 1 /\ missed' = missed \cup (next_block .. h)
    BY <1>3 DEF HtStart
  <2>3. h \in Nat
    BY <2>2 DEF SeenHeads
  <2>4. ASSUME NEW b \in 1 .. (next_block' - 1)
        PROVE  \/ b \in skipped' \cup missed'
               \/ \A i \in Calls(b) : \E t \in 1 .. MaxClock : <<<<b, i>>, t>> \in pushed'
    <3>1. b \in 1 .. (next_block - 1) \/ b \in next_block .. h
      BY <2>2, <2>3
    <3>2. skipped' = skipped /\ pushed' = pushed
      BY <1>3 DEF HtStart
    <3> QED
      BY <2>2, <3>1, <3>2 DEF CursorCoverage
  <2> QED
    BY <2>1, <2>4 DEF CursorCoverage
<1>4. CASE HtSkipAhead
  <2>1. next_block' = head - MaxBlocksBehind /\ skipped' = skipped \cup (next_block .. (next_block' - 1))
    BY <1>4 DEF HtSkipAhead
  <2>2. CursorOnChain' /\ FanProgress'
    BY <1>4, <2>1 DEF HtSkipAhead, CursorOnChain, FanProgress
  <2>3. ASSUME NEW b \in 1 .. (next_block' - 1)
        PROVE  \/ b \in skipped' \cup missed'
               \/ \A i \in Calls(b) : \E t \in 1 .. MaxClock : <<<<b, i>>, t>> \in pushed'
    <3>1. b \in 1 .. (next_block - 1) \/ b \in next_block .. (next_block' - 1)
      BY <2>1
    <3>2. missed' = missed /\ pushed' = pushed
      BY <1>4 DEF HtSkipAhead
    <3> QED
      BY <2>1, <3>1, <3>2 DEF CursorCoverage
  <2> QED
    BY <2>2, <2>3 DEF CursorCoverage
<1>5. CASE HtProceed
  BY <1>5 DEF HtProceed, CursorOnChain, FanProgress, CursorCoverage
<1>6. CASE HtFetch
  <2>1. next_block \in Blocks
    BY <1>6 DEF HtFetch, CursorOnChain, Blocks
  <2>2. Len(Block[next_block]) \in Nat
    BY <2>1, BlockAssumption, LenProperties
  <2>3. \A i \in Calls(next_block) : ~(i < 1)
    BY <2>1, BlockAssumption, LenProperties DEF Calls
  <2>4. CursorOnChain'
    BY <1>6, <2>2 DEF HtFetch, CursorOnChain
  <2>5. FanProgress'
    BY <1>6, <2>3 DEF HtFetch, FanProgress
  <2>6. CursorCoverage'
    BY <1>6 DEF HtFetch, CursorCoverage
  <2> QED
    BY <2>4, <2>5, <2>6
<1>7. CASE HtSkipCreate
  <2>1. next_block \in Blocks
    BY <1>7 DEF HtSkipCreate, CursorOnChain, Blocks
  <2>2. Len(Block[next_block]) \in Nat
    BY <2>1, BlockAssumption, LenProperties
  <2>3. \A i \in Calls(next_block) : i \in Nat /\ i # idx
    BY <1>7, <2>1, BlockAssumption, LenProperties DEF Calls, HtSkipCreate
  <2>4. /\ UNCHANGED <<htPc, head, next_block, skipped, missed, pushed>>
        /\ idx' = idx + 1 /\ htPc = "fan" /\ idx <= Len(Block[next_block])
    BY <1>7 DEF HtSkipCreate
  <2>5. CursorOnChain'
    BY <2>2, <2>4 DEF CursorOnChain
  <2>6. FanProgress'
    <3>1. ASSUME NEW i \in Calls(next_block), i < idx + 1
          PROVE  Pushed(next_block, i)
      BY <2>3, <2>4, <3>1 DEF FanProgress
    <3> QED
      BY <2>4, <3>1 DEF FanProgress, Pushed
  <2>7. CursorCoverage'
    BY <2>4 DEF CursorCoverage
  <2> QED
    BY <2>5, <2>6, <2>7
<1>8. CASE HtEnqueue
  <2>1. next_block \in Blocks
    BY <1>8, NewJobType DEF HtEnqueue
  <2>2. Len(Block[next_block]) \in Nat /\ \A i \in Calls(next_block) : i \in Nat
    BY <2>1, BlockAssumption, LenProperties DEF Calls
  <2>3. <<<<next_block, idx>>, clock>> \in pushed'
    BY <1>8 DEF HtEnqueue, NewJob, TxOf
  <2>4. pushed \subseteq pushed'
    BY <1>8 DEF HtEnqueue
  <2>5. CursorOnChain'
    BY <1>8, <2>2 DEF HtEnqueue, CursorOnChain
  <2>6. FanProgress'
    <3>1. ASSUME NEW i \in Calls(next_block), i < idx + 1
          PROVE  \E t \in 1 .. MaxClock : <<<<next_block, i>>, t>> \in pushed'
      <4>1. CASE i = idx
        BY <2>3, <4>1
      <4>2. CASE i < idx
        BY <1>8, <2>4, <4>2 DEF FanProgress, Pushed, HtEnqueue
      <4> QED
        BY <2>2, <3>1, <4>1, <4>2
    <3> QED
      BY <1>8, <3>1 DEF FanProgress, Pushed, HtEnqueue
  <2>7. CursorCoverage'
    BY <1>8, <2>4 DEF CursorCoverage, HtEnqueue
  <2> QED
    BY <2>5, <2>6, <2>7
<1>9. CASE HtEnqueueFails
  <2>1. pushed \subseteq pushed'
    BY <1>9 DEF HtEnqueueFails
  <2> QED
    BY <1>9, <2>1 DEF HtEnqueueFails, CursorOnChain, FanProgress, CursorCoverage
<1>10. CASE HtBlockDone
  <2>1. next_block \in Blocks
    BY <1>10 DEF HtBlockDone, CursorOnChain, Blocks
  <2>2. Len(Block[next_block]) \in Nat /\ Calls(next_block) \subseteq 1 .. Len(Block[next_block])
    BY <2>1, BlockAssumption, LenProperties DEF Calls
  <2>3. \A i \in Calls(next_block) : \E t \in 1 .. MaxClock : <<<<next_block, i>>, t>> \in pushed
    <3>1. htPc = "fan" /\ idx > Len(Block[next_block])
      BY <1>10 DEF HtBlockDone
    <3>2. \A i \in Calls(next_block) : i < idx
      BY <2>2, <3>1
    <3>3. \A i \in Calls(next_block) : Pushed(next_block, i)
      BY <3>1, <3>2 DEF FanProgress
    <3> QED
      BY <3>3 DEF Pushed
  <2>4. \A b \in 1 .. (next_block' - 1) : b \in 1 .. (next_block - 1) \/ b = next_block
    BY <1>10 DEF HtBlockDone
  <2>5. CursorOnChain' /\ FanProgress'
    BY <1>10 DEF HtBlockDone, CursorOnChain, FanProgress
  <2>6. UNCHANGED <<skipped, missed, pushed>>
    BY <1>10 DEF HtBlockDone
  <2>7. ASSUME NEW b \in 1 .. (next_block' - 1)
        PROVE  \/ b \in skipped' \cup missed'
               \/ \A i \in Calls(b) : \E t \in 1 .. MaxClock : <<<<b, i>>, t>> \in pushed'
    <3>1. CASE b \in 1 .. (next_block - 1)
      BY <2>6, <3>1 DEF CursorCoverage
    <3>2. CASE b = next_block
      BY <2>3, <2>6, <3>2
    <3> QED
      BY <2>4, <3>1, <3>2
  <2>8. CursorCoverage'
    BY <2>7 DEF CursorCoverage
  <2> QED
    BY <2>5, <2>8
<1>11. CASE HtCrash \/ HtFetchFails \/ HtPoll \/ HtWait
  BY <1>2, <1>11 DEF HtCrash, HtFetchFails, HtPoll, HtWait
<1>12. CASE Environment \/ UNCHANGED vars
  BY <1>1, <1>12 DEF vars, Environment, AdvanceChain, Tick, ExpireLastHead
<1>13. ASSUME NEW w \in Workers, Worker(w) \/ WkAbandon(w) \/ WkClaimLost(w)
       PROVE  CursorOnChain' /\ FanProgress' /\ CursorCoverage'
  BY <1>1, <1>13 DEF Worker, WkClaim, WkExpire, WkAcquire, WkReport, WkSkip, WkRequeue,
     WkDeadLetter, WkInsert, WkUpsertProject, WkUpsertAddress, WkAbandon, WkClaimLost
<1> QED
  BY <1>3, <1>4, <1>5, <1>6, <1>7, <1>8, <1>9, <1>10, <1>11, <1>12, <1>13
     DEF Next, Faulty, HeadTracker

\* The set of busy workers when worker w's hands change.
LEMMA BusyChange ==
  ASSUME TypeOK, NEW w \in Workers, NEW j, job' = [job EXCEPT ![w] = j]
  PROVE  /\ Cardinality(Busy) \in Nat /\ Cardinality(Busy) <= Cardinality(Workers)
         /\ job[w] = NoJob /\ j # NoJob => Cardinality(Busy') = Cardinality(Busy) + 1
         /\ job[w] # NoJob /\ j = NoJob => Cardinality(Busy') = Cardinality(Busy) - 1
<1>1. IsFiniteSet(Busy) /\ Cardinality(Busy) <= Cardinality(Workers)
  BY WorkersAssumption, FS_Subset DEF Busy
<1>2. Cardinality(Busy) \in Nat
  BY <1>1, FS_CardinalityType
<1>3. ASSUME job[w] = NoJob, j # NoJob PROVE Cardinality(Busy') = Cardinality(Busy) + 1
  <2>1. Busy' = Busy \cup {w} /\ w \notin Busy
    BY <1>3 DEF Busy, TypeOK
  <2> QED
    BY <1>1, <2>1, FS_AddElement
<1>4. ASSUME job[w] # NoJob, j = NoJob PROVE Cardinality(Busy') = Cardinality(Busy) - 1
  <2>1. Busy' = Busy \ {w} /\ w \in Busy
    BY <1>4 DEF Busy, TypeOK
  <2> QED
    BY <1>1, <2>1, FS_RemoveElement
<1> QED
  BY <1>1, <1>2, <1>3, <1>4

\* Every step keeps the shared budget of queue, workers and fan-out.
LEMMA BudgetStep == IInv /\ [Next]_vars => QueueBudget'
<1> SUFFICES ASSUME IInv, [Next]_vars PROVE QueueBudget'
  OBVIOUS
<1> USE BoundsAssumption, ConfigAssumption
<1> USE DEF IInv, TypeOK, htVars, redisVars, workerVars, dbVars, ghostVars, envVars
<1> DEFINE W == Cardinality(Workers)
           B == Cardinality(Busy)
<1>1. W \in Nat /\ B \in Nat /\ B <= W /\ Len(queue) \in Nat
  BY WorkersAssumption, FS_Subset, FS_CardinalityType, LenProperties DEF Busy
<1>2. htPc \in {"fetch", "fan"} =>
        /\ next_block \in Blocks
        /\ Len(Block[next_block]) \in Nat /\ Len(Block[next_block]) <= MaxTxs
  BY BlockAssumption, LenProperties DEF CursorOnChain, Blocks
<1>3. Remaining \in Nat
  BY <1>2 DEF Remaining, CursorOnChain
<1>4. Len(queue) + B <= MaxQueueDepth + MaxTxs + W
  BY <1>1, <1>3 DEF QueueBudget
<1>5. ASSUME UNCHANGED <<queue, job, htPc, next_block, idx>> PROVE QueueBudget'
  BY <1>5 DEF QueueBudget, Remaining, Busy
<1>6. ASSUME UNCHANGED <<queue, job>>, htPc' \in {"poll", "depth", "down"} PROVE QueueBudget'
  <2>1. Remaining' = 0 /\ Busy' = Busy
    BY <1>6 DEF Remaining, Busy
  <2> QED
    BY <1>1, <1>4, <1>6, <2>1 DEF QueueBudget
<1>7. CASE HtSkipAhead \/ HtProceed
  <2>1. Len(queue) <= MaxQueueDepth /\ UNCHANGED <<queue, job>> /\ htPc' \in {"poll", "fetch"}
    BY <1>1, <1>7 DEF HtSkipAhead, HtProceed, Saturated
  <2>2. Remaining' \in Nat /\ Remaining' <= MaxTxs /\ Busy' = Busy
    BY <2>1 DEF Remaining, Busy
  <2> QED
    BY <1>1, <2>1, <2>2 DEF QueueBudget
<1>8. CASE HtFetch
  <2>1. Remaining = MaxTxs /\ Remaining' = (Len(Block[next_block]) + 1) - 1 /\ Busy' = Busy
    BY <1>8 DEF HtFetch, Remaining, Busy
  <2>2. queue' = queue
    BY <1>8 DEF HtFetch
  <2> QED
    BY <1>1, <1>2, <1>8, <2>1, <2>2 DEF QueueBudget, HtFetch
<1>9. CASE HtSkipCreate
  <2>1. Remaining' = Remaining - 1 /\ queue' = queue /\ Busy' = Busy
    BY <1>2, <1>9 DEF HtSkipCreate, Remaining, Busy
  <2> QED
    BY <1>1, <1>3, <2>1 DEF QueueBudget
<1>10. CASE HtEnqueue
  <2>1. Remaining' = Remaining - 1 /\ Busy' = Busy
    BY <1>2, <1>10 DEF HtEnqueue, Remaining, Busy
  <2>2. Len(queue') = Len(queue) + 1
    BY <1>10, NewJobType, AppendProperties DEF HtEnqueue
  <2> QED
    BY <1>1, <1>3, <2>1, <2>2 DEF QueueBudget
<1>11. CASE HtEnqueueFails
  <2>1. Remaining >= 1 /\ Remaining' = 0 /\ Busy' = Busy
    <3>1. htPc = "fan" /\ idx <= Len(Block[next_block]) /\ htPc' = "poll" /\ job' = job
      BY <1>11 DEF HtEnqueueFails
    <3>2. Remaining = (Len(Block[next_block]) + 1) - idx /\ Remaining' = 0
      BY <3>1 DEF Remaining
    <3> QED
      BY <1>2, <3>1, <3>2 DEF Busy
  <2>2. Len(queue') = Len(queue) \/ Len(queue') = Len(queue) + 1
    <3>1. Len(Append(queue, NewJob)) = Len(queue) + 1
      BY <1>11, NewJobType, AppendProperties DEF HtEnqueueFails
    <3> QED
      BY <1>11, <3>1 DEF HtEnqueueFails
  <2> QED
    BY <1>1, <1>3, <2>1, <2>2 DEF QueueBudget
<1>12. CASE HtStart \/ HtCrash \/ HtPoll \/ HtWait \/ HtFetchFails \/ HtBlockDone
  BY <1>6, <1>12 DEF HtStart, HtCrash, HtPoll, HtWait, HtFetchFails, HtBlockDone
<1>13. CASE Environment \/ UNCHANGED vars
  BY <1>5, <1>13 DEF vars, Environment, AdvanceChain, Tick, ExpireLastHead
<1>14. ASSUME NEW w \in Workers, WkClaim(w) PROVE QueueBudget'
  <2>1. Head(queue) \in Job /\ Head(queue) # NoJob /\ Len(queue') = Len(queue) - 1
    BY <1>14, HeadTailProperties, NoJobAssumption DEF WkClaim
  <2>2. job[w] = NoJob /\ job' = [job EXCEPT ![w] = Head(queue)]
    BY <1>14 DEF WkClaim, WorkersHoldJobs
  <2>3. Cardinality(Busy') = B + 1
    BY <2>1, <2>2, BusyChange
  <2>4. Remaining' = Remaining
    BY <1>14 DEF WkClaim, Remaining
  <2> QED
    BY <1>1, <1>3, <2>1, <2>3, <2>4 DEF QueueBudget
<1>15. ASSUME NEW w \in Workers, WkClaimLost(w) PROVE QueueBudget'
  <2>1. Len(queue') = Len(queue) - 1
    BY <1>15, HeadTailProperties DEF WkClaimLost
  <2>2. Busy' = Busy /\ Remaining' = Remaining
    BY <1>15 DEF WkClaimLost, Remaining, Busy
  <2> QED
    BY <1>1, <1>3, <2>1, <2>2 DEF QueueBudget
<1>16. ASSUME NEW w \in Workers, WkRequeue(w) PROVE QueueBudget'
  <2>1. job[w] # NoJob /\ job[w] \in Job
    BY <1>16 DEF WkRequeue, WorkersHoldJobs
  <2>2. Len(queue') = Len(queue) + 1
    BY <1>16, <2>1, NextAttemptType, AppendProperties DEF WkRequeue
  <2>3. job' = [job EXCEPT ![w] = NoJob]
    BY <1>16 DEF WkRequeue
  <2>4. Cardinality(Busy') = B - 1
    BY <2>1, <2>3, BusyChange
  <2>5. Remaining' = Remaining
    BY <1>16 DEF WkRequeue, Remaining
  <2> QED
    BY <1>1, <1>3, <2>2, <2>4, <2>5 DEF QueueBudget
<1>17. ASSUME NEW w \in Workers,
              WkExpire(w) \/ WkSkip(w) \/ WkDeadLetter(w) \/ WkUpsertAddress(w) \/ WkAbandon(w)
       PROVE  QueueBudget'
  <2>1. job[w] # NoJob /\ job' = [job EXCEPT ![w] = NoJob] /\ queue' = queue
    BY <1>17 DEF WkExpire, WkSkip, WkDeadLetter, WkUpsertAddress, WkAbandon, Finish,
       WorkersHoldJobs
  <2>2. Cardinality(Busy') = B - 1
    BY <2>1, BusyChange
  <2>3. Remaining' = Remaining
    BY <1>17 DEF WkExpire, WkSkip, WkDeadLetter, WkUpsertAddress, WkAbandon, Remaining
  <2> QED
    BY <1>1, <1>3, <2>1, <2>2, <2>3 DEF QueueBudget
<1>18. ASSUME NEW w \in Workers,
              WkAcquire(w) \/ WkReport(w) \/ WkInsert(w) \/ WkUpsertProject(w)
       PROVE  QueueBudget'
  BY <1>5, <1>18 DEF WkAcquire, WkReport, WkInsert, WkUpsertProject
<1> QED
  BY <1>7, <1>8, <1>9, <1>10, <1>11, <1>12, <1>13, <1>14, <1>15, <1>16, <1>17, <1>18
     DEF Next, Faulty, HeadTracker, Worker

\* IInv is an invariant of the pipeline.
LEMMA Inductive == Spec => []IInv
<1>1. Init => IInv
  BY InitIInv
<1>2. IInv /\ [Next]_vars => IInv'
  BY TypeStep, JobsStep, CursorStep, BudgetStep DEF IInv
<1> QED
  BY <1>1, <1>2, PTL DEF Spec

\* Type correctness: in particular every project and mapping row a worker writes
\* is for the `to` of a call, because only calls are ever enqueued.
THEOREM TypeCorrect == Spec => []TypeOK
<1>1. IInv => TypeOK
  BY DEF IInv
<1> QED
  BY <1>1, Inductive, PTL

\* head_tracker::run never leaves a block behind unnoticed, whatever fails.
THEOREM CursorCovers == Spec => []CursorCoverage
<1>1. IInv => CursorCoverage
  BY DEF IInv
<1> QED
  BY <1>1, Inductive, PTL

\* A job's TTL always runs from a fan-out: AnalyzeTxJob::next_attempt keeps it.
THEOREM AgeKept == Spec => []AgeFromFanOut
<1>1. IInv => AgeFromFanOut
  BY LenProperties DEF IInv, TypeOK, AgeFromFanOut, JobsGenuine, Genuine
<1> QED
  BY <1>1, Inductive, PTL

\* MAX_QUEUE_DEPTH bounds the pending list up to one block and one job per worker.
THEOREM QueueBounded == Spec => []QueueBound
<1>1. IInv => QueueBound
  <2> SUFFICES ASSUME IInv PROVE QueueBound
    OBVIOUS
  <2> USE BoundsAssumption, ConfigAssumption DEF IInv, TypeOK
  <2>1. Cardinality(Workers) \in Nat /\ Cardinality(Busy) \in Nat /\ Len(queue) \in Nat
    BY WorkersAssumption, FS_Subset, FS_CardinalityType, LenProperties DEF Busy
  <2>2. htPc = "fan" => Len(Block[next_block]) \in Nat
    BY BlockAssumption, LenProperties DEF CursorOnChain, Blocks
  <2>3. Remaining \in Nat
    BY <2>2 DEF Remaining, CursorOnChain
  <2> QED
    BY <2>1, <2>3 DEF QueueBudget, QueueBound
<1> QED
  BY <1>1, Inductive, PTL

-----------------------------------------------------------------------------
(* The pipeline implements the job ledger. *)

\* One copy of t, if j is one.
One(j, t) == IF TxOf(j) = t THEN 1 ELSE 0

\* The positions of t's copies in a queue, and the workers that hold one, are
\* finitely many.
LEMMA CopiesType ==
  ASSUME NEW q \in Seq(Job), NEW held, NEW t
  PROVE  /\ IsFiniteSet({i \in DOMAIN q : TxOf(q[i]) = t}) /\ QueueCopies(q, t) \in Nat
         /\ IsFiniteSet({w \in Workers : held[w] # NoJob /\ TxOf(held[w]) = t})
         /\ HeldCopies(held, t) \in Nat
<1>1. IsFiniteSet(DOMAIN q)
  BY LenProperties, FS_Interval
<1>2. IsFiniteSet({i \in DOMAIN q : TxOf(q[i]) = t})
  BY <1>1, FS_Subset
<1>3. IsFiniteSet({w \in Workers : held[w] # NoJob /\ TxOf(held[w]) = t})
  BY WorkersAssumption, FS_Subset
<1> QED
  BY <1>2, <1>3, FS_CardinalityType DEF QueueCopies, HeldCopies

\* RPUSH adds one copy.
LEMMA AppendCopies ==
  ASSUME NEW q \in Seq(Job), NEW j \in Job, NEW t
  PROVE  QueueCopies(Append(q, j), t) = QueueCopies(q, t) + One(j, t)
<1> DEFINE S == {i \in DOMAIN q : TxOf(q[i]) = t}
           T == {i \in DOMAIN Append(q, j) : TxOf(Append(q, j)[i]) = t}
           n == Len(q) + 1
<1>1. Len(q) \in Nat /\ DOMAIN q = 1 .. Len(q) /\ DOMAIN Append(q, j) = 1 .. n
  BY LenProperties, AppendProperties
<1>2. Append(q, j)[n] = j /\ \A i \in 1 .. Len(q) : Append(q, j)[i] = q[i]
  BY AppendProperties
<1>3. n \notin S /\ IsFiniteSet(S) /\ Cardinality(S) \in Nat
  <2>1. n \notin S
    BY <1>1
  <2>2. IsFiniteSet(S) /\ QueueCopies(q, t) \in Nat
    BY CopiesType
  <2> QED
    BY <2>1, <2>2 DEF QueueCopies
<1>4. T = IF TxOf(j) = t THEN S \cup {n} ELSE S
  BY <1>1, <1>2
<1> HIDE DEF S, T, n
<1>5. Cardinality(S \cup {n}) = Cardinality(S) + 1
  BY <1>3, FS_AddElement
<1>6. Cardinality(T) = Cardinality(S) + One(j, t)
  BY <1>3, <1>4, <1>5 DEF One
<1> QED
  BY <1>6 DEF QueueCopies, S, T

\* BLPOP takes one copy.
LEMMA TailCopies ==
  ASSUME NEW q \in Seq(Job), q # <<>>, NEW t
  PROVE  QueueCopies(q, t) = QueueCopies(Tail(q), t) + One(Head(q), t)
<1> DEFINE S == {i \in DOMAIN Tail(q) : TxOf(Tail(q)[i]) = t}
           U == {i \in DOMAIN q : TxOf(q[i]) = t} \ {1}
           T == {i \in DOMAIN q : TxOf(q[i]) = t}
           f == [i \in S |-> i + 1]
<1>1. /\ Tail(q) \in Seq(Job) /\ Len(Tail(q)) = Len(q) - 1 /\ Len(q) \in Nat /\ Len(q) # 0
      /\ DOMAIN q = 1 .. Len(q) /\ DOMAIN Tail(q) = 1 .. (Len(q) - 1) /\ Head(q) = q[1]
      /\ \A i \in 1 .. Len(Tail(q)) : Tail(q)[i] = q[i + 1]
  BY LenProperties, EmptySeq, HeadTailProperties
<1>2. f \in Bijection(S, U)
  <2>1. f \in [S -> U]
    BY <1>1
  <2>2. \A a, b \in S : f[a] = f[b] => a = b
    BY <1>1
  <2>3. ASSUME NEW u \in U PROVE \E a \in S : f[a] = u
    <3>1. u - 1 \in S
      BY <1>1
    <3>2. f[u - 1] = u
      BY <1>1, <3>1
    <3> QED
      BY <3>1, <3>2
  <2> QED
    BY <2>1, <2>2, <2>3 DEF Bijection, Injection, Surjection, IsInjective
<1>3. IsFiniteSet(S) /\ IsFiniteSet(T) /\ Cardinality(S) \in Nat
  BY <1>1, CopiesType DEF QueueCopies
<1>4. 1 \in T <=> TxOf(Head(q)) = t
  BY <1>1
<1>5. U = T \ {1}
  OBVIOUS
<1> HIDE DEF S, T, U, f
<1>6. Cardinality(U) = Cardinality(S)
  BY <1>2, <1>3, FS_Bijection DEF ExistsBijection
<1>7. Cardinality(T \ {1}) = IF 1 \in T THEN Cardinality(T) - 1 ELSE Cardinality(T)
  BY <1>3, FS_RemoveElement
<1>8. Cardinality(T) \in Nat
  BY <1>3, FS_CardinalityType
<1>9. Cardinality(T) = Cardinality(S) + One(Head(q), t)
  BY <1>3, <1>4, <1>5, <1>6, <1>7, <1>8 DEF One
<1> QED
  BY <1>9 DEF QueueCopies, S, T

\* A worker's hands hold one copy, or none.
LEMMA HeldChange ==
  ASSUME NEW held \in [Workers -> Job \cup {NoJob}], NEW w \in Workers, held[w] = NoJob,
         NEW j \in Job, NEW t
  PROVE  HeldCopies([held EXCEPT ![w] = j], t) = HeldCopies(held, t) + One(j, t)
<1> DEFINE S == {v \in Workers : held[v] # NoJob /\ TxOf(held[v]) = t}
           more == [held EXCEPT ![w] = j]
           T == {v \in Workers : more[v] # NoJob /\ TxOf(more[v]) = t}
<1>1. w \notin S /\ IsFiniteSet(S) /\ Cardinality(S) \in Nat
  BY EmptySeq, CopiesType DEF HeldCopies
<1>2. T = IF TxOf(j) = t THEN S \cup {w} ELSE S
  BY NoJobAssumption
<1> HIDE DEF S, T
<1>3. Cardinality(S \cup {w}) = Cardinality(S) + 1
  BY <1>1, FS_AddElement
<1>4. Cardinality(T) = Cardinality(S) + One(j, t)
  BY <1>1, <1>2, <1>3 DEF One
<1> QED
  BY <1>4 DEF HeldCopies, S, T

LEMMA HeldDrop ==
  ASSUME NEW held \in [Workers -> Job \cup {NoJob}], NEW w \in Workers, held[w] \in Job, NEW t
  PROVE  HeldCopies(held, t) = HeldCopies([held EXCEPT ![w] = NoJob], t) + One(held[w], t)
<1> DEFINE less == [held EXCEPT ![w] = NoJob]
<1>1. less \in [Workers -> Job \cup {NoJob}] /\ less[w] = NoJob
  OBVIOUS
<1>2. [less EXCEPT ![w] = held[w]] = held
  OBVIOUS
<1> HIDE DEF less
<1>3. HeldCopies([less EXCEPT ![w] = held[w]], t) = HeldCopies(less, t) + One(held[w], t)
  BY <1>1, HeldChange
<1> QED
  BY <1>2, <1>3 DEF less

\* Every step keeps the rows of the workers that are past their insert.
LEMMA RowsStep == IInv /\ RowsWritten /\ [Next]_vars => RowsWritten'
<1> SUFFICES ASSUME IInv, RowsWritten, [Next]_vars PROVE RowsWritten'
  OBVIOUS
<1> USE DEF IInv, TypeOK, RowsWritten, htVars, redisVars, workerVars, dbVars, ghostVars, envVars
<1>1. CASE UNCHANGED <<wPc, job, analysis>>
  BY <1>1
<1>2. CASE Environment \/ HtCrash \/ HtFetchFails \/ HtEnqueueFails \/ HeadTracker \/ UNCHANGED vars
  <2>1. UNCHANGED <<wPc, job, analysis>>
    BY <1>2 DEF vars, Environment, AdvanceChain, Tick, ExpireLastHead, HtCrash, HtFetchFails,
      HtEnqueueFails, HeadTracker, HtStart, HtPoll, HtWait, HtSkipAhead, HtProceed, HtFetch,
      HtSkipCreate, HtEnqueue, HtBlockDone
  <2> QED
    BY <1>1, <2>1
<1>3. ASSUME NEW w \in Workers, NEW f, Finish(w, f), UNCHANGED analysis PROVE RowsWritten'
  BY <1>3 DEF Finish
<1>4. ASSUME NEW w \in Workers,
             WkExpire(w) \/ WkSkip(w) \/ WkDeadLetter(w) \/ WkUpsertAddress(w) \/ WkAbandon(w)
      PROVE  RowsWritten'
  BY <1>3, <1>4 DEF WkExpire, WkSkip, WkDeadLetter, WkUpsertAddress, WkAbandon
<1>5. ASSUME NEW w \in Workers, WkClaim(w) \/ WkRequeue(w) PROVE RowsWritten'
  BY <1>5 DEF WkClaim, WkRequeue
<1>6. ASSUME NEW w \in Workers, WkAcquire(w) \/ WkReport(w) \/ WkInsert(w) \/ WkUpsertProject(w)
      PROVE  RowsWritten'
  BY <1>6 DEF WkAcquire, WkReport, WkInsert, WkUpsertProject
<1>7. ASSUME NEW w \in Workers, WkClaimLost(w) PROVE RowsWritten'
  BY <1>1, <1>7 DEF WkClaimLost
<1> QED
  BY <1>2, <1>4, <1>5, <1>6, <1>7 DEF Next, Faulty, Worker

\* A count of one is changed by one.
LEMMA CountUp ==
  ASSUME NEW S, NEW f, NEW g, f \in [S -> Nat], g \in [S -> Nat], NEW x \in S,
         \A t \in S : g[t] = f[t] + (IF x = t THEN 1 ELSE 0)
  PROVE  g = [f EXCEPT ![x] = @ + 1]
OBVIOUS

LEMMA CountDown ==
  ASSUME NEW S, NEW f, NEW g, f \in [S -> Nat], g \in [S -> Nat], NEW x \in S,
         \A t \in S : f[t] = g[t] + (IF x = t THEN 1 ELSE 0)
  PROVE  g = [f EXCEPT ![x] = @ - 1] /\ f[x] > 0
OBVIOUS

\* Every step of the pipeline is a step of the ledger, or changes nothing there.
LEMMA LedgerStep ==
  IInv /\ RowsWritten /\ [Next]_vars => [JobLedger!Next]_(JobLedger!vars)
<1> SUFFICES ASSUME IInv, RowsWritten, [Next]_vars PROVE [JobLedger!Next]_(JobLedger!vars)
  OBVIOUS
<1> DEFINE F == [t \in Tx |-> Copies(t)]
<1> USE DEF htVars, redisVars, workerVars, dbVars, ghostVars, envVars
<1>0. queue \in Seq(Job) /\ job \in [Workers -> Job \cup {NoJob}] /\ \A t \in Tx : Copies(t) \in Nat
  <2>1. queue \in Seq(Job) /\ job \in [Workers -> Job \cup {NoJob}]
    BY DEF IInv, TypeOK
  <2>2. ASSUME NEW t \in Tx PROVE Copies(t) \in Nat
    <3>1. QueueCopies(queue, t) \in Nat /\ HeldCopies(job, t) \in Nat
      BY <2>1, CopiesType
    <3> QED
      BY <3>1 DEF Copies
  <2> QED
    BY <2>1, <2>2
<1>1. ASSUME \A t \in Tx : Copies(t)' = Copies(t), UNCHANGED <<analysis, fate>>
      PROVE  UNCHANGED JobLedger!vars
  BY <1>1 DEF JobLedger!vars
<1>2. ASSUME UNCHANGED <<queue, job, analysis, fate>> PROVE UNCHANGED JobLedger!vars
  BY <1>1, <1>2 DEF Copies
<1>3. ASSUME NEW j \in Job, TxOf(j) \in Tx, queue' = Append(queue, j), UNCHANGED <<job, analysis, fate>>
      PROVE  JobLedger!Next
  <2>1. \A t \in Tx : Copies(t)' = Copies(t) + One(j, t)
    <3> SUFFICES ASSUME NEW t \in Tx PROVE Copies(t)' = Copies(t) + One(j, t)
      OBVIOUS
    <3>1. QueueCopies(queue', t) = QueueCopies(queue, t) + One(j, t)
      BY <1>0, <1>3, AppendCopies
    <3>2. QueueCopies(queue, t) \in Nat /\ HeldCopies(job, t) \in Nat /\ job' = job
      BY <1>0, <1>3, CopiesType
    <3> QED
      BY <3>1, <3>2 DEF Copies, One
  <2>2. F' = [F EXCEPT ![TxOf(j)] = @ + 1]
    <3>1. F \in [Tx -> Nat] /\ F' \in [Tx -> Nat]
      BY <1>0, <2>1 DEF One
    <3>2. \A t \in Tx : F'[t] = F[t] + (IF TxOf(j) = t THEN 1 ELSE 0)
      BY <2>1 DEF One
    <3> HIDE DEF F
    <3> QED
      BY <1>3, <3>1, <3>2, CountUp
  <2>3. JobLedger!Offer(TxOf(j))
    BY <1>3, <2>2 DEF JobLedger!Offer
  <2> QED
    BY <1>3, <2>3 DEF JobLedger!Next
<1>4. ASSUME NEW j, TxOf(j) \in Tx, NEW f \in Fates, f = "stored" => TxOf(j) \in analysis,
             \A t \in Tx : Copies(t) = Copies(t)' + One(j, t) /\ Copies(t)' \in Nat,
             fate' = fate \cup {<<TxOf(j), f>>}, UNCHANGED analysis
      PROVE  JobLedger!Next
  <2>1. F' = [F EXCEPT ![TxOf(j)] = @ - 1] /\ F[TxOf(j)] > 0
    <3>1. F \in [Tx -> Nat] /\ F' \in [Tx -> Nat]
      BY <1>0, <1>4
    <3>2. \A t \in Tx : F[t] = F'[t] + (IF TxOf(j) = t THEN 1 ELSE 0)
      BY <1>4 DEF One
    <3> HIDE DEF F
    <3> QED
      BY <1>4, <3>1, <3>2, CountDown
  <2>2. JobLedger!Settle(TxOf(j), f)
    BY <1>4, <2>1 DEF JobLedger!Settle
  <2> QED
    BY <1>4, <2>2 DEF JobLedger!Next
<1>5. CASE \/ Environment \/ HtCrash \/ HtFetchFails \/ (HeadTracker /\ ~HtEnqueue)
           \/ UNCHANGED vars
           \/ \E w \in Workers : WkAcquire(w) \/ WkReport(w) \/ WkUpsertProject(w)
  <2>1. UNCHANGED <<queue, job, analysis, fate>>
    BY <1>5 DEF vars, Environment, AdvanceChain, Tick, ExpireLastHead, HtCrash, HtFetchFails,
      HeadTracker, HtStart, HtPoll, HtWait, HtSkipAhead, HtProceed, HtFetch, HtSkipCreate,
      HtBlockDone, WkAcquire, WkReport, WkUpsertProject
  <2> QED
    BY <1>2, <2>1
<1>6. CASE HtEnqueue \/ HtEnqueueFails
  <2>1. NewJob \in Job /\ TxOf(NewJob) \in Tx
    BY <1>6, NewJobType DEF IInv, HtEnqueue, HtEnqueueFails
  <2>2. UNCHANGED <<job, analysis, fate>> /\ (queue' = queue \/ queue' = Append(queue, NewJob))
    BY <1>6 DEF HtEnqueue, HtEnqueueFails
  <2> QED
    BY <1>2, <1>3, <2>1, <2>2
<1>7. ASSUME NEW w \in Workers, WkClaim(w) PROVE UNCHANGED JobLedger!vars
  <2>1. /\ queue # <<>> /\ queue' = Tail(queue) /\ job' = [job EXCEPT ![w] = Head(queue)]
        /\ job[w] = NoJob /\ UNCHANGED <<analysis, fate>>
    BY <1>7 DEF WkClaim, IInv, WorkersHoldJobs
  <2>2. Head(queue) \in Job /\ Tail(queue) \in Seq(Job)
    BY <1>0, <2>1, HeadTailProperties
  <2>3. ASSUME NEW t \in Tx PROVE Copies(t)' = Copies(t)
    <3>1. QueueCopies(queue, t) = QueueCopies(queue', t) + One(Head(queue), t)
      BY <1>0, <2>1, TailCopies
    <3>2. HeldCopies(job', t) = HeldCopies(job, t) + One(Head(queue), t)
      BY <1>0, <2>1, <2>2, HeldChange
    <3>3. QueueCopies(queue', t) \in Nat /\ HeldCopies(job, t) \in Nat
      BY <1>0, <2>1, <2>2, CopiesType
    <3> QED
      BY <3>1, <3>2, <3>3 DEF Copies, One
  <2> QED
    BY <1>1, <2>1, <2>3
<1>8. ASSUME NEW w \in Workers, WkRequeue(w) PROVE UNCHANGED JobLedger!vars
  <2> DEFINE j == next_attempt(job[w])
  <2>1. job[w] \in Job
    BY <1>8, HeldJob DEF WkRequeue
  <2>2. j \in Job /\ TxOf(j) = TxOf(job[w])
    BY <2>1, NextAttemptType DEF TxOf
  <2>3. queue' = Append(queue, j) /\ job' = [job EXCEPT ![w] = NoJob] /\ UNCHANGED <<analysis, fate>>
    BY <1>8 DEF WkRequeue
  <2> HIDE DEF j
  <2>4. ASSUME NEW t \in Tx PROVE Copies(t)' = Copies(t)
    <3>1. QueueCopies(queue', t) = QueueCopies(queue, t) + One(j, t)
      BY <1>0, <2>2, <2>3, AppendCopies
    <3>2. HeldCopies(job, t) = HeldCopies(job', t) + One(job[w], t)
      BY <1>0, <2>1, <2>3, HeldDrop
    <3>3. QueueCopies(queue, t) \in Nat /\ HeldCopies(job', t) \in Nat /\ One(j, t) = One(job[w], t)
      BY <1>0, <2>2, CopiesType DEF One
    <3> QED
      BY <3>1, <3>2, <3>3 DEF Copies, One
  <2> QED
    BY <1>1, <2>3, <2>4
<1>9. ASSUME NEW w \in Workers, wPc[w] # "idle", NEW f \in Fates, Finish(w, f),
             f = "stored" => TxOf(job[w]) \in analysis, UNCHANGED <<queue, analysis>>
      PROVE  JobLedger!Next
  <2>1. job[w] \in Job /\ TxOf(job[w]) \in Tx
    BY <1>9, HeldJob
  <2>2. job' = [job EXCEPT ![w] = NoJob] /\ fate' = fate \cup {<<TxOf(job[w]), f>>}
    BY <1>9 DEF Finish
  <2>3. ASSUME NEW t \in Tx
        PROVE  Copies(t) = Copies(t)' + One(job[w], t) /\ Copies(t)' \in Nat
    <3>1. HeldCopies(job, t) = HeldCopies(job', t) + One(job[w], t)
      BY <1>0, <2>1, <2>2, HeldDrop
    <3>2. QueueCopies(queue, t) \in Nat /\ HeldCopies(job', t) \in Nat /\ queue' = queue
      BY <1>0, <1>9, CopiesType
    <3> QED
      BY <3>1, <3>2 DEF Copies, One
  <2> QED
    BY <1>4, <1>9, <2>1, <2>2, <2>3
<1>10. ASSUME NEW w \in Workers, WkExpire(w) \/ WkSkip(w) \/ WkDeadLetter(w) PROVE JobLedger!Next
  <2>1. /\ wPc[w] # "idle" /\ UNCHANGED <<queue, analysis>>
        /\ Finish(w, "expired") \/ Finish(w, "skipped") \/ Finish(w, "dead")
    BY <1>10 DEF WkExpire, WkSkip, WkDeadLetter
  <2>2. {"expired", "skipped", "dead"} \subseteq Fates \ {"stored"}
    BY DEF Fates
  <2> QED
    BY <1>9, <2>1, <2>2
<1>11. ASSUME NEW w \in Workers, WkUpsertAddress(w) PROVE JobLedger!Next
  <2>1. wPc[w] = "map" /\ Finish(w, "stored") /\ UNCHANGED <<queue, analysis>>
    BY <1>11 DEF WkUpsertAddress
  <2>2. TxOf(job[w]) \in analysis /\ "stored" \in Fates
    BY <2>1 DEF RowsWritten, Fates
  <2> QED
    BY <1>9, <2>1, <2>2
<1>12. ASSUME NEW w \in Workers, WkAbandon(w) PROVE JobLedger!Next
  <2>1. wPc[w] # "idle" /\ Finish(w, Abandoned(w)) /\ UNCHANGED <<queue, analysis>>
    BY <1>12 DEF WkAbandon, IInv, WorkersHoldJobs
  <2>2. Abandoned(w) \in Fates /\ (Abandoned(w) = "stored" => TxOf(job[w]) \in analysis)
    BY DEF Abandoned, RowsWritten, Fates
  <2> QED
    BY <1>9, <2>1, <2>2
<1>13. ASSUME NEW w \in Workers, WkClaimLost(w) PROVE JobLedger!Next
  <2> DEFINE j == Head(queue)
  <2>1. /\ queue # <<>> /\ queue' = Tail(queue) /\ fate' = fate \cup {<<TxOf(j), "lost">>}
        /\ UNCHANGED <<job, analysis>>
    BY <1>13 DEF WkClaimLost
  <2>2. j \in Job /\ Tail(queue) \in Seq(Job) /\ TxOf(j) \in Tx
    <3>1. j \in Job /\ Tail(queue) \in Seq(Job)
      BY <1>0, <2>1, HeadTailProperties
    <3> HIDE DEF j
    <3>2. TxOf(j) \in Tx
      BY <3>1 DEF Job, TxOf, Tx
    <3> QED
      BY <3>1, <3>2
  <2> HIDE DEF j
  <2>3. ASSUME NEW t \in Tx PROVE Copies(t) = Copies(t)' + One(j, t) /\ Copies(t)' \in Nat
    <3>1. QueueCopies(queue, t) = QueueCopies(queue', t) + One(j, t)
      BY <1>0, <2>1, TailCopies DEF j
    <3>2. QueueCopies(queue', t) \in Nat /\ HeldCopies(job, t) \in Nat /\ job' = job
      BY <1>0, <2>1, <2>2, CopiesType
    <3> QED
      BY <3>1, <3>2 DEF Copies, One
  <2>4. "lost" \in Fates /\ "lost" # "stored"
    BY DEF Fates
  <2> QED
    BY <1>4, <2>1, <2>2, <2>3, <2>4
<1>14. ASSUME NEW w \in Workers, WkInsert(w) PROVE JobLedger!Next
  <2> DEFINE x == TxOf(job[w])
  <2>1. /\ wPc[w] = "insert" /\ analysis' = analysis \cup {x} /\ UNCHANGED <<queue, job, fate>>
    BY <1>14 DEF WkInsert
  <2>2. job[w] \in Job /\ x \in Tx
    BY <2>1, HeldJob
  <2>3. F' = F
    BY <2>1 DEF Copies
  <2>4. Copies(x) > 0
    <3>1. HeldCopies(job, x) = HeldCopies([job EXCEPT ![w] = NoJob], x) + One(job[w], x)
      BY <1>0, <2>2, HeldDrop
    <3>2. /\ QueueCopies(queue, x) \in Nat /\ HeldCopies([job EXCEPT ![w] = NoJob], x) \in Nat
          /\ One(job[w], x) = 1
      BY <1>0, CopiesType DEF One
    <3> QED
      BY <3>1, <3>2 DEF Copies
  <2> HIDE DEF x
  <2>5. JobLedger!Persist(x)
    BY <2>1, <2>2, <2>3, <2>4 DEF JobLedger!Persist
  <2> QED
    BY <2>2, <2>5 DEF JobLedger!Next
<1> QED
  BY <1>5, <1>6, <1>7, <1>8, <1>10, <1>11, <1>12, <1>13, <1>14
     DEF Next, Faulty, HeadTracker, Worker

LEMMA LedgerStarts == Init => JobLedger!Init /\ RowsWritten
<1> SUFFICES ASSUME Init PROVE JobLedger!Init /\ RowsWritten
  OBVIOUS
<1>1. ASSUME NEW t \in Tx PROVE Copies(t) = 0
  <2>1. /\ {i \in DOMAIN queue : TxOf(queue[i]) = t} = {}
        /\ {w \in Workers : job[w] # NoJob /\ TxOf(job[w]) = t} = {}
    BY DEF Init
  <2> QED
    BY <2>1, FS_EmptySet DEF Copies, QueueCopies, HeldCopies
<1> QED
  BY <1>1 DEF Init, JobLedger!Init, RowsWritten

\* The pipeline implements the job ledger: queue::push, pop and requeue, and
\* worker::handle with whatever fails, neither create nor destroy a copy of a
\* job, and a copy that leaves does so with one recorded fate, "stored" only
\* with its row.
THEOREM LedgerImplemented == Spec => JobsConserved
<1>1. Init => JobLedger!Init /\ RowsWritten
  BY LedgerStarts
<1>2. IInv /\ RowsWritten /\ [Next]_vars => RowsWritten'
  BY RowsStep
<1>3. IInv /\ RowsWritten /\ [Next]_vars => [JobLedger!Next]_(JobLedger!vars)
  BY LedgerStep
<1> QED
  BY <1>1, <1>2, <1>3, Inductive, PTL DEF Spec, JobsConserved, JobLedger!Spec

-----------------------------------------------------------------------------
(* What holds of nodes that do not lag. *)

\* What is below a cursor stays so when it moves on, and so does what it passes.
LEMMA BelowCursor ==
  ASSUME NEW lo \in Nat, NEW hi \in Nat, lo >= 1, lo <= hi
  PROVE  1 .. (lo - 1) \subseteq 1 .. (hi - 1) /\ lo .. (hi - 1) \subseteq 1 .. (hi - 1)
         /\ (1 .. (lo - 1)) \cap (lo .. (hi - 1)) = {}
OBVIOUS

\* The count of an interval, and of a set it is added to.
LEMMA SkippedCount ==
  ASSUME NEW lo \in Nat, NEW hi \in Nat, lo >= 1, lo <= hi, NEW S, S \subseteq 1 .. (lo - 1)
  PROVE  Cardinality(S \cup (lo .. (hi - 1))) = Cardinality(S) + (hi - lo)
<1> DEFINE gap == lo .. (hi - 1)
<1>1. IsFiniteSet(gap) /\ Cardinality(gap) = hi - lo
  <2>1. /\ IsFiniteSet(lo .. (hi - 1))
        /\ Cardinality(lo .. (hi - 1)) = IF lo > hi - 1 THEN 0 ELSE (hi - 1) - lo + 1
    BY FS_Interval
  <2> QED
    BY <2>1
<1>2. IsFiniteSet(S) /\ Cardinality(S) \in Nat
  <2>1. IsFiniteSet(1 .. (lo - 1))
    BY FS_Interval
  <2> QED
    BY <2>1, FS_Subset, FS_CardinalityType
<1>3. S \cap gap = {}
  OBVIOUS
<1> HIDE DEF gap
<1>4. Cardinality(S \cup gap) = Cardinality(S) + Cardinality(gap) - Cardinality(S \cap gap)
  BY <1>1, <1>2, FS_Union
<1>5. Cardinality(S \cap gap) = 0
  BY <1>3, FS_EmptySet
<1> QED
  BY <1>1, <1>2, <1>4, <1>5 DEF gap

\* Every step keeps the skipped blocks below the cursor and counted.
LEMMA SkipsStep ==
  ASSUME RpcLag = 0
  PROVE  IInv /\ SkipsBelowCursor /\ [Next]_vars => SkipsBelowCursor'
<1> SUFFICES ASSUME IInv, SkipsBelowCursor, [Next]_vars PROVE SkipsBelowCursor'
  OBVIOUS
<1> USE BoundsAssumption, ConfigAssumption
<1> USE DEF SkipsBelowCursor, htVars, redisVars, workerVars, dbVars, ghostVars, envVars
<1>0. /\ chainHead \in Nat /\ head \in Nat /\ next_block \in Nat /\ next_block >= 1 /\ skipped_blocks \in Nat
      /\ SeenHeads = {chainHead}
  BY DEF IInv, TypeOK, SeenHeads
<1> DEFINE Same == UNCHANGED <<skipped, uncounted, skipped_blocks>>
<1>1. ASSUME Same, head' <= chainHead', next_block' <= chainHead' + 1, next_block' >= next_block,
             next_block' \in Nat
      PROVE  SkipsBelowCursor'
  <2>1. 1 .. (next_block - 1) \subseteq 1 .. (next_block' - 1)
    <3> HIDE DEF SkipsBelowCursor
    <3> QED
      BY <1>0, <1>1, BelowCursor
  <2> QED
    BY <1>1, <2>1 DEF SkipsCounted
<1>2. CASE HtSkipAhead
  <2> DEFINE new_start == head - MaxBlocksBehind
             gap == next_block .. (new_start - 1)
  <2>1. /\ new_start \in Nat /\ next_block < new_start /\ new_start <= chainHead
        /\ next_block' = new_start /\ UNCHANGED <<head, chainHead>> /\ skipped' = skipped \cup gap
        /\ \/ skipped_blocks' = skipped_blocks + (new_start - next_block) /\ uncounted' = uncounted
           \/ uncounted' = uncounted \cup gap /\ skipped_blocks' = skipped_blocks
    BY <1>0, <1>2 DEF HtSkipAhead, TooFarBehind
  <2>2. /\ uncounted \subseteq skipped /\ skipped \subseteq 1 .. (next_block - 1) /\ SkipsCounted
        /\ head <= chainHead
    OBVIOUS
  <2> HIDE DEF new_start
  <2> HIDE DEF SkipsBelowCursor
  <2>0. /\ 1 .. (next_block - 1) \subseteq 1 .. (new_start - 1) /\ gap \subseteq 1 .. (new_start - 1)
        /\ (1 .. (next_block - 1)) \cap gap = {}
    BY <1>0, <2>1, BelowCursor
  <2> HIDE DEF gap
  <2>3. skipped' \subseteq 1 .. (next_block' - 1) /\ uncounted' \subseteq skipped'
    BY <2>0, <2>1, <2>2
  <2>4. ASSUME uncounted' = uncounted \cup gap, skipped_blocks' = skipped_blocks PROVE SkipsCounted'
    <3>1. skipped' \ uncounted' = skipped \ uncounted
      BY <2>0, <2>1, <2>2, <2>4
    <3> QED
      BY <2>2, <2>4, <3>1 DEF SkipsCounted
  <2>5. ASSUME skipped_blocks' = skipped_blocks + (new_start - next_block), uncounted' = uncounted
        PROVE  SkipsCounted'
    <3>1. skipped' \ uncounted' = (skipped \ uncounted) \cup gap
      BY <2>0, <2>1, <2>2, <2>5
    <3>2. Cardinality((skipped \ uncounted) \cup gap) = Cardinality(skipped \ uncounted) + (new_start - next_block)
      <4>1. skipped \ uncounted \subseteq 1 .. (next_block - 1) /\ next_block <= new_start
        BY <1>0, <2>1, <2>2
      <4> QED
        BY <1>0, <2>1, <4>1, SkippedCount DEF gap
    <3> QED
      BY <2>2, <2>5, <3>1, <3>2 DEF SkipsCounted
  <2>6. head' <= chainHead' /\ next_block' <= chainHead' + 1
    BY <1>0, <2>1, <2>2
  <2>7. SkipsCounted'
    BY <2>1, <2>4, <2>5
  <2> QED
    BY <2>3, <2>6, <2>7 DEF SkipsBelowCursor
<1>3. CASE HtStart
  <2>1. Same /\ head' = head /\ chainHead' = chainHead /\ next_block' = chainHead + 1
    BY <1>0, <1>3 DEF HtStart
  <2> QED
    BY <1>0, <1>1, <2>1
<1>4. CASE HtPoll
  <2>1. Same /\ head' = chainHead /\ UNCHANGED <<chainHead, next_block>>
    BY <1>0, <1>4 DEF HtPoll
  <2> QED
    BY <1>0, <1>1, <2>1
<1>5. CASE HtBlockDone
  <2>1. Same /\ UNCHANGED <<chainHead, head>> /\ next_block' = next_block + 1 /\ next_block <= head
    BY <1>0, <1>5 DEF HtBlockDone, IInv, CursorOnChain
  <2> QED
    BY <1>0, <1>1, <2>1
<1>6. CASE \/ Environment \/ Faulty \/ UNCHANGED vars \/ (\E w \in Workers : Worker(w))
           \/ HtWait \/ HtProceed \/ HtFetch \/ HtSkipCreate \/ HtEnqueue
  <2>1. Same /\ UNCHANGED <<head, next_block>> /\ (chainHead' = chainHead \/ chainHead' = chainHead + 1)
    BY <1>6 DEF vars, Environment, AdvanceChain, Tick, ExpireLastHead, Faulty, HtCrash, HtFetchFails,
      HtEnqueueFails, WkAbandon, WkClaimLost, HtWait, HtProceed, HtFetch, HtSkipCreate, HtEnqueue,
      Worker, WkClaim, WkExpire, WkAcquire, WkReport, WkSkip, WkRequeue, WkDeadLetter, WkInsert,
      WkUpsertProject, WkUpsertAddress
  <2> QED
    BY <1>0, <1>1, <2>1
<1> QED
  BY <1>2, <1>3, <1>4, <1>5, <1>6 DEF Next, HeadTracker

\* Every step keeps what was pushed or stored below the head.
LEMMA HeadStep ==
  ASSUME RpcLag = 0
  PROVE  IInv /\ SkipsBelowCursor /\ HeadAbovePushes /\ [Next]_vars => HeadAbovePushes'
<1> SUFFICES ASSUME IInv, SkipsBelowCursor, HeadAbovePushes, [Next]_vars PROVE HeadAbovePushes'
  OBVIOUS
<1> USE BoundsAssumption
<1> USE DEF htVars, redisVars, workerVars, dbVars, ghostVars, envVars
<1>0. /\ chainHead \in Nat /\ head \in Nat /\ head <= chainHead /\ next_block \in Nat
      /\ SeenHeads = {chainHead} /\ pushed \subseteq Tx \X (1 .. MaxClock) /\ analysis \subseteq Tx
      /\ \A t \in Tx : t[1] \in Nat
  <2>1. /\ chainHead \in Nat /\ head \in Nat /\ next_block \in Nat
        /\ pushed \subseteq Tx \X (1 .. MaxClock) /\ analysis \subseteq Tx
    BY DEF IInv, TypeOK
  <2>2. head <= chainHead
    BY DEF SkipsBelowCursor
  <2>3. SeenHeads = {chainHead}
    BY <2>1 DEF SeenHeads
  <2>4. \A t \in Tx : t[1] \in Nat
    BY DEF Tx, Blocks
  <2> QED
    BY <2>1, <2>2, <2>3, <2>4
<1>1. ASSUME UNCHANGED <<head, pushed, analysis, publishFailed>>, last_head' \in {last_head, NoHead}
      PROVE  HeadAbovePushes'
  BY <1>1 DEF HeadAbovePushes
<1>2. CASE HtPoll
  <2>1. /\ head' = chainHead /\ UNCHANGED <<pushed, analysis>>
        /\ (last_head' = head' /\ publishFailed' = FALSE) \/ publishFailed' = TRUE
    BY <1>0, <1>2 DEF HtPoll
  <2>2. \A c \in pushed : c[1][1] <= chainHead
    BY <1>0 DEF HeadAbovePushes
  <2>3. \A t \in analysis : t[1] <= chainHead
    BY <1>0 DEF HeadAbovePushes
  <2> QED
    BY <2>1, <2>2, <2>3 DEF HeadAbovePushes
<1>3. CASE HtEnqueue \/ HtEnqueueFails
  <2>1. /\ UNCHANGED <<head, analysis, publishFailed, last_head>> /\ htPc = "fan"
        /\ pushed' \in {pushed, pushed \cup {<<TxOf(NewJob), clock>>}}
    BY <1>3 DEF HtEnqueue, HtEnqueueFails
  <2>2. next_block <= head /\ TxOf(NewJob)[1] = next_block
    BY <2>1 DEF IInv, CursorOnChain, TxOf, NewJob
  <2> QED
    BY <2>1, <2>2 DEF HeadAbovePushes
<1>4. ASSUME NEW w \in Workers, WkInsert(w) PROVE HeadAbovePushes'
  <2>1. analysis' = analysis \cup {TxOf(job[w])} /\ UNCHANGED <<head, pushed, publishFailed, last_head>>
    BY <1>4 DEF WkInsert
  <2>2. <<TxOf(job[w]), job[w].enqueued_at>> \in pushed
    BY <1>4, HeldJob DEF WkInsert, Genuine
  <2>3. TxOf(job[w])[1] <= head
    BY <2>2 DEF HeadAbovePushes
  <2> QED
    BY <2>1, <2>3 DEF HeadAbovePushes
<1>5. CASE \/ Environment \/ HtCrash \/ HtFetchFails \/ UNCHANGED vars
           \/ HtStart \/ HtWait \/ HtSkipAhead \/ HtProceed \/ HtFetch \/ HtSkipCreate \/ HtBlockDone
  <2>1. UNCHANGED <<head, pushed, analysis, publishFailed>> /\ last_head' \in {last_head, NoHead}
    BY <1>5 DEF vars, Environment, AdvanceChain, Tick, ExpireLastHead, HtCrash, HtFetchFails,
      HtStart, HtWait, HtSkipAhead, HtProceed, HtFetch, HtSkipCreate, HtBlockDone
  <2> QED
    BY <1>1, <2>1
<1>6. ASSUME NEW w \in Workers, \/ (Worker(w) /\ ~WkInsert(w)) \/ WkAbandon(w) \/ WkClaimLost(w)
      PROVE  HeadAbovePushes'
  <2>1. UNCHANGED <<head, pushed, analysis, publishFailed, last_head>>
    BY <1>6 DEF Worker, WkClaim, WkExpire, WkAcquire, WkReport, WkSkip, WkRequeue, WkDeadLetter,
      WkUpsertProject, WkUpsertAddress, WkAbandon, WkClaimLost
  <2> QED
    BY <1>1, <2>1
<1> QED
  BY <1>2, <1>3, <1>4, <1>5, <1>6 DEF Next, Faulty, HeadTracker

LEMMA NoLagStarts == Init => SkipsBelowCursor /\ HeadAbovePushes
<1> SUFFICES ASSUME Init PROVE SkipsBelowCursor /\ HeadAbovePushes
  OBVIOUS
<1>1. skipped \ uncounted = {} /\ 1 .. (next_block - 1) = {}
  BY DEF Init
<1> QED
  BY <1>1, FS_EmptySet DEF Init, SkipsBelowCursor, SkipsCounted, HeadAbovePushes

LEMMA NoLag ==
  ASSUME RpcLag = 0
  PROVE  Spec => [](SkipsBelowCursor /\ HeadAbovePushes)
<1>1. IInv /\ SkipsBelowCursor /\ [Next]_vars => SkipsBelowCursor'
  BY SkipsStep
<1>2. IInv /\ SkipsBelowCursor /\ HeadAbovePushes /\ [Next]_vars => HeadAbovePushes'
  BY HeadStep
<1> QED
  BY <1>1, <1>2, NoLagStarts, Inductive, PTL DEF Spec

\* indexer:state:skipped_blocks is the number of blocks skipped, less those
\* whose INCR failed, whenever the nodes do not lag: no block is skipped twice,
\* whatever fails and however often the head-tracker restarts.
THEOREM SkipsAreCounted ==
  ASSUME RpcLag = 0
  PROVE  Spec => []SkipsCounted
<1>1. SkipsBelowCursor => SkipsCounted
  BY DEF SkipsBelowCursor
<1> QED
  BY <1>1, NoLag, PTL

\* The lag shown on /admin is never negative while the published head is up to
\* date, whenever the nodes do not lag.
THEOREM BlocksBehindIsNatural ==
  ASSUME RpcLag = 0
  PROVE  Spec => []BlocksBehindNonNegative
<1>1. HeadAbovePushes => BlocksBehindNonNegative
  BY DEF HeadAbovePushes, BlocksBehindNonNegative
<1> QED
  BY <1>1, NoLag, PTL
=============================================================================
