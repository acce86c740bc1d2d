---------------------------- MODULE WalkerProofs ----------------------------
(***************************************************************************)
(* That the journals of split_frame_tree's open frames are the native image *)
(* of the storage at every log, for every trace of every length and depth.  *)
(*                                                                         *)
(* The argument has two halves.  TraceInv says how a log follows another:   *)
(* which frames are open at it and what the storage is.  WalkInv says that  *)
(* the walk's frames mirror the frames open at the log it has last looked   *)
(* at: same contexts, and for every n the journals of the first n frames    *)
(* make up the storage that the frame above them was opened on.  That is    *)
(* what a revert goes back to, so dropping the top journal is right; and a  *)
(* frame that commits hands its journal down, which keeps the image.        *)
(*                                                                         *)
(* That the walk bails on no trace but one with a failed create needs more: *)
(* that every candidate scan_candidates keeps opens a frame (ScanOK, shown  *)
(* along the fold over the logs), that the op a nested frame stands for is  *)
(* the last one of its caller (OpsOK), and so that each of the other ways   *)
(* to fail is closed (NestedInv).                                           *)
(*                                                                         *)
(* Last, with no contract nestable: that the settlement of the canonical    *)
(* program repeats the trace.  HistoryInv adds to the trace its events and  *)
(* what a static frame may not change.  CanonInv gives each emitting frame  *)
(* the world its updates lead to so far, and says where that world and the  *)
(* frame's views differ from the traced one.  SettleInv follows the cursor  *)
(* along the worlds that the finished program passes through.               *)
(***************************************************************************)
EXTENDS Walker, FoldTheorems, SequenceTheorems

-----------------------------------------------------------------------------
(* Traces. *)

Ctx == Contract \cup {NoAddress}
Storage == [Contract -> [Slot -> Nat]]
World == [st: Storage, ev: Seq(Ctx \X Nat)]
OpenedFrame == [ctx: Ctx, static: BOOLEAN, saved: World]
Ops == {"SSTORE", "LOG", "TSTORE", "STOP", "REVERT", "CALL", "STATICCALL", "DELEGATECALL", "CREATE"}
Log == [depth: Nat, op: Ops, to: Ctx, slot: Nat, value: Nat, error: BOOLEAN,
        top: {0, 1}, world: World, stack: Seq(OpenedFrame)]

EvmTypeOK ==
  /\ world \in World /\ stack \in Seq(OpenedFrame) /\ flag \in {0, 1}
  /\ trace \in Seq(Log) /\ halted \in BOOLEAN

Calls == {"CALL", "STATICCALL", "DELEGATECALL", "CREATE"}

\* The context of the frame that log opens.
OpenedCtx(log) == IF log.op = "DELEGATECALL" THEN Last(log.stack).ctx ELSE log.to

\* Initcode runs in no deployed contract.
Addressed(log) == log.op = "CREATE" /\ ~log.error => log.to = NoAddress

\* The storage a log leaves behind, unless its frame fails with it.
After(log) ==
  IF log.op = "SSTORE" /\ ~log.error /\ Last(log.stack).ctx # NoAddress
  THEN [log.world.st EXCEPT ![Last(log.stack).ctx][log.slot] = log.value]
  ELSE log.world.st

\* What can be next: the same frames, a frame more, or a frame less.
Stays(log, frames, st) == frames = log.stack /\ st = After(log)
Opened(log, frames, st) ==
  /\ log.op \in Calls /\ ~log.error /\ st = log.world.st
  /\ Len(frames) = Len(log.stack) + 1
  /\ \A k \in 1 .. Len(log.stack) : frames[k] = log.stack[k]
  /\ frames[Len(frames)].ctx = OpenedCtx(log) /\ frames[Len(frames)].saved.st = log.world.st
Closed(log, frames, st, top) ==
  /\ Len(log.stack) = Len(frames) + 1
  /\ \A k \in 1 .. Len(frames) : frames[k] = log.stack[k]
  /\ log.op \notin Calls \cup {"SSTORE"} \/ log.error
  /\ IF top = 0 THEN st = Last(log.stack).saved.st ELSE st = log.world.st

Follows(log, frames, st, top) ==
  \/ Stays(log, frames, st)
  \/ Opened(log, frames, st)
  \/ Closed(log, frames, st, top)

FirstFrame(frames) == Len(frames) = 1 /\ frames[1].ctx = Root

\* Every log follows the one before it, and what the execution is about to log
\* follows the last one.
TraceInv ==
  /\ EvmTypeOK
  /\ Len(stack) >= 1
  /\ \A i \in DOMAIN trace :
       trace[i].depth = Len(trace[i].stack) /\ Len(trace[i].stack) >= 1 /\ Addressed(trace[i])
  /\ trace # <<>> => FirstFrame(trace[1].stack) /\ trace[1].world.st = Genesis.st
  /\ trace = <<>> => FirstFrame(stack) /\ world.st = Genesis.st
  /\ \A i \in 1 .. (Len(trace) - 1) :
       Follows(trace[i], trace[i + 1].stack, trace[i + 1].world.st, trace[i + 1].top)
  /\ trace # <<>> /\ ~halted => Follows(trace[Len(trace)], stack, world.st, flag)

-----------------------------------------------------------------------------
(* The walk. *)

IsList(s) == Len(s) \in Nat /\ s = [k \in 1 .. Len(s) |-> s[k]]

FrameFields == {"depth", "ctx", "program", "view", "emits", "nested", "start", "journal",
                "out", "call_gas", "create_gas", "first_program"}
FrameOK(f) == DOMAIN f = FrameFields /\ DOMAIN f.journal = Contract

\* The journals of the first n frames, merged bottom-up over zeroes, have v in
\* slot s of contract c.
Shows(frames, n, c, s, v) ==
  \/ \E k \in 1 .. n :
       /\ s \in DOMAIN frames[k].journal[c] /\ v = frames[k].journal[c][s]
       /\ \A m \in (k + 1) .. n : s \notin DOMAIN frames[m].journal[c]
  \/ v = 0 /\ \A k \in 1 .. n : s \notin DOMAIN frames[k].journal[c]

\* The walk's frames are the open ones; the image below each of them is the
\* storage it was opened on, and the whole image is st.
Mirrors(frames, opened, st) ==
  /\ IsList(frames) /\ Len(frames) = Len(opened) /\ Len(frames) >= 1
  /\ \A k \in 1 .. Len(frames) :
       FrameOK(frames[k]) /\ frames[k].depth = k /\ frames[k].ctx = opened[k].ctx
  /\ \A n \in 1 .. (Len(frames) - 1), c \in Contract, s \in Slot :
       Shows(frames, n, c, s, opened[n + 1].saved.st[c][s])
  /\ \A c \in Contract, s \in Slot : Shows(frames, Len(frames), c, s, st[c][s])

\* A frame is pending exactly after a call that was made.
Awaited(p, log) == p.depth = log.depth /\ p.ctx = OpenedCtx(log)
PendingOK(pending, log) ==
  /\ pending = {} <=> (log.op \notin Calls \/ log.error)
  /\ \A p \in pending : pending = {p} /\ Awaited(p, log)

WalkInv ==
  /\ DOMAIN w = {"frames", "programs", "pending"} /\ pos \in Nat \ {0}
  /\ phase # "trace" => halted
  /\ phase = "trace" => pos = 1
  /\ pos = 1 => w.frames = WalkStart.frames /\ w.pending = {}
  /\ phase = "walk" => pos <= Len(trace) + 1
  /\ phase = "walk" /\ pos > 1 =>
       /\ Mirrors(w.frames, trace[pos - 1].stack, After(trace[pos - 1]))
       /\ PendingOK(w.pending, trace[pos - 1])

-----------------------------------------------------------------------------
(* Sequences whose elements are of no particular set. *)

LEMMA ListSeq ==
  ASSUME NEW s, IsList(s)
  PROVE  /\ s \in Seq({s[k] : k \in 1 .. Len(s)})
         /\ DOMAIN s = 1 .. Len(s) /\ Len(s) \in Nat
<1> DEFINE S == {s[k] : k \in 1 .. Len(s)}
           n == Len(s)
<1>1. n \in Nat /\ s = [k \in 1 .. n |-> s[k]]
  BY DEF IsList
<1>2. [k \in 1 .. n |-> s[k]] \in [1 .. n -> S]
  OBVIOUS
<1>3. s \in [1 .. n -> S] /\ DOMAIN s = 1 .. n
  <2> HIDE DEF n, S
  <2> QED
    BY <1>1, <1>2, Zenon
<1>4. s \in Seq(S)
  <2> HIDE DEF n, S
  <2> QED
    BY <1>1, <1>3, SeqDef
<1> QED
  BY <1>1, <1>3, <1>4

LEMMA SeqList ==
  ASSUME NEW S, NEW s \in Seq(S)
  PROVE  IsList(s)
BY LenProperties DEF IsList

\* A function on 1..n is a list of length n.
LEMMA FunctionList ==
  ASSUME NEW n \in Nat, NEW s, s = [k \in 1 .. n |-> s[k]]
  PROVE  IsList(s) /\ Len(s) = n
<1> DEFINE S == {s[k] : k \in 1 .. n}
<1>1. s \in [1 .. n -> S]
  <2>1. [k \in 1 .. n |-> s[k]] \in [1 .. n -> S]
    OBVIOUS
  <2> HIDE DEF S
  <2> QED
    BY <2>1, Zenon
<1>2. s \in Seq(S)
  <2> HIDE DEF S
  <2> QED
    BY <1>1, SeqDef
<1>3. DOMAIN s = 1 .. n /\ DOMAIN s = 1 .. Len(s) /\ Len(s) \in Nat
  <2> HIDE DEF S
  <2> QED
    BY <1>1, <1>2, LenProperties
<1>4. Len(s) = n
  BY <1>2, <1>3
<1> QED
  BY <1>2, <1>4, SeqList

LEMMA ListAppend ==
  ASSUME NEW s, IsList(s), NEW e
  PROVE  /\ IsList(Append(s, e)) /\ Len(Append(s, e)) = Len(s) + 1
         /\ \A k \in 1 .. Len(s) : Append(s, e)[k] = s[k]
         /\ Append(s, e)[Len(s) + 1] = e
<1> DEFINE S == {s[k] : k \in 1 .. Len(s)} \cup {e}
<1>1. s \in Seq(S) /\ e \in S
  <2>1. s \in Seq({s[k] : k \in 1 .. Len(s)})
    BY ListSeq
  <2>2. {s[k] : k \in 1 .. Len(s)} \subseteq S
    OBVIOUS
  <2> QED
    BY <2>1, <2>2, SeqMonotonic
<1> HIDE DEF S
<1>2. /\ Append(s, e) \in Seq(S) /\ Len(Append(s, e)) = Len(s) + 1
      /\ \A k \in 1 .. Len(s) : Append(s, e)[k] = s[k]
      /\ Append(s, e)[Len(s) + 1] = e
  BY <1>1, AppendProperties
<1> QED
  BY <1>2, SeqList

LEMMA ListFront ==
  ASSUME NEW s, IsList(s), Len(s) >= 1
  PROVE  /\ IsList(Front(s)) /\ Len(Front(s)) = Len(s) - 1
         /\ \A k \in 1 .. (Len(s) - 1) : Front(s)[k] = s[k]
<1> DEFINE S == {s[k] : k \in 1 .. Len(s)}
<1>1. s \in Seq(S) /\ Len(s) \in Nat
  BY ListSeq
<1> HIDE DEF S
<1>2. /\ Front(s) \in Seq(S) /\ Len(Front(s)) = Len(s) - 1
      /\ \A k \in 1 .. (Len(s) - 1) : Front(s)[k] = s[k]
  <2> DEFINE n == Len(s) - 1
  <2>1. 1 \in Int /\ n \in Nat /\ n \in Int /\ \A i \in 1 .. n : s[i] \in S
    BY <1>1, ElementOfSeq
  <2>2. n = Len(s) - 1
    OBVIOUS
  <2> HIDE DEF n
  <2>3. /\ SubSeq(s, 1, n) \in Seq(S)
        /\ Len(SubSeq(s, 1, n)) = IF 1 <= n THEN n - 1 + 1 ELSE 0
        /\ \A i \in 1 .. n - 1 + 1 : SubSeq(s, 1, n)[i] = s[1 + i - 1]
    BY <2>1, SubSeqProperties
  <2>4. Len(SubSeq(s, 1, n)) = n /\ \A i \in 1 .. n : SubSeq(s, 1, n)[i] = s[i]
    BY <2>1, <2>3
  <2> QED
    BY <2>2, <2>3, <2>4 DEF Front
<1> QED
  BY <1>2, SeqList

LEMMA Below ==
  ASSUME NEW n \in Nat, NEW i \in 1 .. n, i # n
  PROVE  i \in 1 .. (n - 1) /\ i + 1 \in 1 .. n
OBVIOUS

-----------------------------------------------------------------------------
(* How a log follows another. *)

\* The log is of the execution's present frame, world and flag.
Present(log) ==
  /\ log \in Log /\ log.depth = Len(stack) /\ log.stack = stack /\ log.world = world /\ log.top = flag
  /\ Addressed(log)

LEMMA PresentType ==
  ASSUME EvmTypeOK
  PROVE  Len(stack) \in Nat /\ world \in World /\ stack \in Seq(OpenedFrame) /\ flag \in {0, 1}
BY LenProperties DEF EvmTypeOK

\* A step that records a log after which the next state may follow.
LEMMA Records ==
  ASSUME TraceInv, ~halted, NEW log, Present(log), trace' = Append(trace, log),
         world' \in World, stack' \in Seq(OpenedFrame), flag' \in {0, 1}, halted' \in BOOLEAN,
         Len(stack') >= 1, halted' \/ Follows(log, stack', world'.st, flag')
  PROVE  TraceInv'
<1> DEFINE n == Len(trace)
<1> HIDE DEF Log, World, OpenedFrame
<1>0. /\ log \in Log /\ log.depth = Len(stack) /\ log.stack = stack /\ log.world = world
      /\ log.top = flag /\ Addressed(log)
  BY DEF Present
<1>1. trace \in Seq(Log) /\ n \in Nat /\ DOMAIN trace = 1 .. n
  BY LenProperties DEF TraceInv, EvmTypeOK
<1>2. /\ trace' \in Seq(Log) /\ Len(trace') = n + 1 /\ trace' # <<>>
      /\ trace'[n + 1] = log /\ \A i \in 1 .. n : trace'[i] = trace[i]
  BY <1>0, <1>1, AppendProperties
<1>3. DOMAIN trace' = 1 .. (n + 1)
  BY <1>2, LenProperties
<1>4. EvmTypeOK'
  BY <1>2 DEF EvmTypeOK
<1>5. \A i \in DOMAIN trace' :
        trace'[i].depth = Len(trace'[i].stack) /\ Len(trace'[i].stack) >= 1 /\ Addressed(trace'[i])
  BY <1>0, <1>1, <1>2, <1>3 DEF TraceInv
<1>6. FirstFrame(trace'[1].stack) /\ trace'[1].world.st = Genesis.st
  <2>1. CASE trace = <<>>
    <3>1. n = 0
      BY <2>1
    <3> QED
      BY <1>0, <1>2, <2>1, <3>1 DEF TraceInv
  <2>2. CASE trace # <<>>
    <3>1. 1 \in 1 .. n
      BY <1>1, <2>2, EmptySeq
    <3> QED
      BY <1>2, <2>2, <3>1 DEF TraceInv
  <2> QED
    BY <2>1, <2>2
<1>7. ASSUME NEW i \in 1 .. n
      PROVE  Follows(trace'[i], trace'[i + 1].stack, trace'[i + 1].world.st, trace'[i + 1].top)
  <2>1. CASE i = n
    <3>1. trace # <<>> /\ n >= 1
      BY <1>1, <1>7
    <3>2. Follows(trace[n], stack, world.st, flag)
      BY <3>1 DEF TraceInv
    <3> QED
      BY <1>0, <1>2, <2>1, <3>1, <3>2
  <2>2. CASE i # n
    <3>1. i \in 1 .. (n - 1) /\ i + 1 \in 1 .. n
      <4> HIDE DEF n
      <4> QED
        BY <1>1, <1>7, <2>2
    <3> QED
      BY <1>2, <3>1 DEF TraceInv
  <2> QED
    BY <2>1, <2>2
<1>8. ~halted' => Follows(trace'[Len(trace')], stack', world'.st, flag')
  BY <1>2
<1>9. \A i \in 1 .. (Len(trace') - 1) :
        Follows(trace'[i], trace'[i + 1].stack, trace'[i + 1].world.st, trace'[i + 1].top)
  BY <1>1, <1>2, <1>7
<1> QED
  BY <1>2, <1>4, <1>5, <1>6, <1>8, <1>9 DEF TraceInv

LEMMA TopFrame ==
  ASSUME TraceInv
  PROVE  /\ Len(stack) \in Nat /\ Top = Last(stack) /\ Top \in OpenedFrame
         /\ Top.ctx \in Ctx /\ Top.static \in BOOLEAN /\ Top.saved \in World
<1>1. stack \in Seq(OpenedFrame) /\ Len(stack) >= 1 /\ Len(stack) \in Nat
  BY LenProperties DEF TraceInv, EvmTypeOK
<1>2. Top \in OpenedFrame
  <2> HIDE DEF OpenedFrame
  <2> QED
    BY <1>1, ElementOfSeq DEF Top
<1> QED
  BY <1>1, <1>2 DEF Top, Last, OpenedFrame

\* SSTORE, of an ordinary slot or of the counter.
LEMMA WriteStep ==
  ASSUME TraceInv, ~halted, NEW s \in Slot, NEW v \in Nat, Write(s, v)
  PROVE  TraceInv'
<1> DEFINE log == Entry("SSTORE", NoAddress, s, v, FALSE)
<1>0. EvmTypeOK
  BY DEF TraceInv
<1>1. Present(log) /\ log.op = "SSTORE" /\ log.slot = s /\ log.value = v /\ ~log.error
  <2>1. NoAddress \in Ctx /\ s \in Nat /\ "SSTORE" \in Ops
    BY EvmAssumption DEF Ctx, Ops
  <2> HIDE DEF World, OpenedFrame, Ctx, Ops
  <2> QED
    BY <1>0, <2>1, PresentType DEF Entry, Log, Present, Addressed
<1>2. trace' = Append(trace, log) /\ stack' = stack /\ flag' = 0 /\ halted' = halted
  BY DEF Write, Record
<1> HIDE DEF log
<1>3. world' \in World /\ world'.st = After(log)
  <2>1. CASE Top.ctx = NoAddress
    BY <1>0, <1>1, <2>1, TopFrame DEF Write, After, EvmTypeOK, World, Present
  <2>2. CASE Top.ctx # NoAddress
    <3>1. Top.ctx \in Contract
      BY <2>2, TopFrame DEF Ctx
    <3>2. world \in World /\ world' = [world EXCEPT !.st[Top.ctx][s] = v]
      BY <1>0, <2>2 DEF Write, EvmTypeOK
    <3>3. world' \in World /\ world'.st = [world.st EXCEPT ![Top.ctx][s] = v]
      BY <3>1, <3>2 DEF World, Storage
    <3> QED
      BY <1>1, <2>2, <3>3, TopFrame DEF After, Present
  <2> QED
    BY <2>1, <2>2
<1>4. Follows(log, stack', world'.st, flag')
  BY <1>1, <1>2, <1>3 DEF Follows, Stays, Present
<1> QED
  BY <1>0, <1>1, <1>2, <1>3, <1>4, Records DEF TraceInv, EvmTypeOK

\* A log, of an instruction that neither writes nor fails, after which the same
\* frames are open over the same storage.
LEMMA QuietStep ==
  ASSUME TraceInv, ~halted, NEW log, Present(log), trace' = Append(trace, log),
         log.op # "SSTORE", world' \in World, world'.st = world.st, stack' = stack,
         flag' \in {0, 1}, halted' \in BOOLEAN
  PROVE  TraceInv'
<1>1. Follows(log, stack', world'.st, flag')
  BY DEF Follows, Stays, After, Present
<1> QED
  BY <1>1, Records DEF TraceInv, EvmTypeOK

LEMMA OpenStep ==
  ASSUME TraceInv, NEW op \in Calls, NEW to \in Ctx, NEW ctx \in Ctx, NEW static \in BOOLEAN,
         op = "DELEGATECALL" => ctx = Top.ctx, op # "DELEGATECALL" => ctx = to,
         op = "CREATE" => to = NoAddress,
         Open(op, to, ctx, static)
  PROVE  TraceInv'
<1> DEFINE log == Entry(op, to, 0, 0, FALSE)
           e == [ctx |-> ctx, static |-> static, saved |-> world]
<1>0. EvmTypeOK
  BY DEF TraceInv
<1>1. Present(log) /\ log.op = op /\ log.to = to /\ ~log.error
  <2>1. op \in Ops /\ 0 \in Nat
    BY DEF Calls, Ops
  <2> HIDE DEF World, OpenedFrame, Ctx, Ops
  <2> QED
    BY <1>0, <2>1, PresentType DEF Entry, Log, Present, Addressed
<1>2. /\ trace' = Append(trace, log) /\ stack' = Append(stack, e) /\ flag' = 0 /\ halted' = halted
      /\ world' = world /\ ~halted
  BY DEF Open, Record, Executes
<1>3. e \in OpenedFrame /\ e.ctx = ctx /\ e.saved = world /\ stack \in Seq(OpenedFrame)
  BY <1>0 DEF OpenedFrame, EvmTypeOK
<1> HIDE DEF log, e
<1>4. /\ stack' \in Seq(OpenedFrame) /\ Len(stack') = Len(stack) + 1 /\ stack'[Len(stack) + 1] = e
      /\ \A k \in 1 .. Len(stack) : stack'[k] = stack[k]
  <2> HIDE DEF OpenedFrame
  <2> QED
    BY <1>2, <1>3, AppendProperties
<1>5. OpenedCtx(log) = ctx
  BY <1>1, TopFrame DEF OpenedCtx, Present
<1>6. Follows(log, stack', world'.st, flag')
  BY <1>1, <1>2, <1>3, <1>4, <1>5 DEF Follows, Opened, Present
<1>7. Len(stack') >= 1
  BY <1>4, TopFrame
<1> QED
  BY <1>0, <1>1, <1>2, <1>4, <1>6, <1>7, Records DEF TraceInv, EvmTypeOK

LEMMA CloseStep ==
  ASSUME TraceInv, ~halted, Len(stack) > 1, NEW log, Present(log),
         log.op \notin Calls \cup {"SSTORE"} \/ log.error,
         NEW v \in World, NEW f \in {0, 1}, f = 0 => v = Top.saved, f = 1 => v = world,
         Close(log, v, f)
  PROVE  TraceInv'
<1>1. trace' = Append(trace, log) /\ world' = v /\ stack' = Front(stack) /\ flag' = f /\ halted' = halted
  BY DEF Close, Record, Front
<1>2. stack \in Seq(OpenedFrame)
  BY DEF TraceInv, EvmTypeOK
<1>3. /\ stack' \in Seq(OpenedFrame) /\ Len(stack') = Len(stack) - 1
      /\ \A k \in 1 .. (Len(stack) - 1) : stack'[k] = stack[k]
  <2> HIDE DEF OpenedFrame
  <2>1. IsList(stack)
    BY <1>2, SeqList
  <2>2. Front(stack) \in Seq(OpenedFrame)
    BY <1>2, LenProperties DEF Front
  <2> QED
    BY <1>1, <2>1, <2>2, ListFront
<1>4. Len(stack) = Len(stack') + 1 /\ Len(stack') >= 1
  BY <1>3, TopFrame
<1>5. Closed(log, stack', world'.st, flag')
  BY <1>1, <1>3, <1>4, TopFrame DEF Closed, Present
<1> QED
  BY <1>1, <1>3, <1>4, <1>5, Records DEF TraceInv, EvmTypeOK, Follows

\* Every instruction keeps the trace well formed.
LEMMA ExecuteStep ==
  ASSUME TraceInv, Execute
  PROVE  TraceInv'
<1>0. /\ EvmTypeOK /\ world \in World /\ flag \in {0, 1} /\ Len(trace) \in Nat /\ Len(stack) \in Nat
      /\ NoAddress \in Ctx /\ Root \in Ctx /\ Contract \subseteq Ctx
  BY EvmAssumption, LenProperties, PresentType DEF TraceInv, EvmTypeOK, Ctx
<1>1. CASE Sstore
  BY <1>1, WriteStep, EvmAssumption DEF Sstore, Executes
<1>2. CASE Increment
  <2>1. Ctr \in Slot /\ ~halted
    BY <1>2, EvmAssumption DEF Increment, Executes
  <2>2. CASE Top.ctx = NoAddress
    BY <1>2, <2>1, <2>2, WriteStep DEF Increment
  <2>3. CASE Top.ctx # NoAddress
    <3>1. Top.ctx \in Contract
      BY <2>3, TopFrame DEF Ctx
    <3>2. world.st[Top.ctx][Ctr] + 1 \in Nat
      BY <1>0, <2>1, <3>1 DEF World, Storage
    <3> QED
      BY <1>2, <2>1, <2>3, <3>2, WriteStep DEF Increment
  <2> QED
    BY <2>2, <2>3
<1>3. CASE Emit \/ Tstore \/ Finish
  <2>1. PICK op \in {"LOG", "TSTORE", "STOP"} :
          trace' = Append(trace, Entry(op, NoAddress, 0, 0, FALSE))
    BY <1>3 DEF Emit, Tstore, Finish, Record
  <2> DEFINE log == Entry(op, NoAddress, 0, 0, FALSE)
  <2>2. op \in Ops /\ 0 \in Nat
    BY DEF Ops
  <2>3. Present(log) /\ log.op = op
    <3> HIDE DEF World, OpenedFrame, Ctx, Ops
    <3> QED
      BY <1>0, <2>2, PresentType DEF Entry, Log, Present, Addressed
  <2>a. halted \in BOOLEAN
    BY <1>0 DEF EvmTypeOK
  <2>4. /\ stack' = stack /\ flag' \in {0, 1} /\ (halted' = halted \/ halted' = TRUE) /\ ~halted
        /\ world' = world \/ world' = [world EXCEPT !.ev = Append(@, <<Top.ctx, Len(trace) + 1>>)]
    BY <1>0, <1>3 DEF Emit, Tstore, Finish, Executes
  <2>5. world' \in World /\ world'.st = world.st
    <3> DEFINE E == Ctx \X Nat
    <3>1. world.ev \in Seq(E) /\ <<Top.ctx, Len(trace) + 1>> \in E
      BY <1>0, TopFrame DEF World
    <3> HIDE DEF E
    <3>2. Append(world.ev, <<Top.ctx, Len(trace) + 1>>) \in Seq(E)
      BY <3>1, AppendProperties
    <3> HIDE DEF Ctx, Storage
    <3> QED
      BY <1>0, <2>4, <3>2 DEF World, E
  <2>6. halted' \in BOOLEAN
    BY <2>a, <2>4
  <2> HIDE DEF log
  <2> QED
    BY <2>1, <2>3, <2>4, <2>5, <2>6, QuietStep DEF log
<1>4. CASE OpenFrame
  <2>1. ASSUME NEW c \in Contract, Open("CALL", c, c, Top.static) PROVE TraceInv'
    BY <1>0, <2>1, OpenStep, TopFrame DEF Calls
  <2>2. ASSUME NEW c \in Contract, Open("STATICCALL", c, c, TRUE) PROVE TraceInv'
    BY <1>0, <2>2, OpenStep DEF Calls
  <2>3. ASSUME Open("DELEGATECALL", NoAddress, Top.ctx, Top.static) PROVE TraceInv'
    BY <1>0, <2>3, OpenStep, TopFrame DEF Calls
  <2>4. ASSUME Open("CREATE", NoAddress, NoAddress, FALSE) PROVE TraceInv'
    BY <1>0, <2>4, OpenStep DEF Calls
  <2> QED
    BY <1>4, <2>1, <2>2, <2>3, <2>4 DEF OpenFrame
<1>5. CASE Inline
  <2>1. PICK op \in Calls, to \in Ctx :
          /\ trace' = Append(trace, Entry(op, to, 0, 0, FALSE))
          /\ op = "CREATE" => to = NoAddress
    BY <1>0, <1>5 DEF Inline, Calls, Record
  <2> DEFINE log == Entry(op, to, 0, 0, FALSE)
  <2>2. op \in Ops /\ 0 \in Nat /\ op # "SSTORE"
    BY DEF Ops, Calls
  <2>3. Present(log) /\ log.op = op
    <3> HIDE DEF World, OpenedFrame, Ctx, Ops
    <3> QED
      BY <1>0, <2>1, <2>2, PresentType DEF Entry, Log, Present, Addressed
  <2>4. stack' = stack /\ flag' \in {0, 1} /\ halted' = halted /\ ~halted /\ world' = world
    BY <1>5 DEF Inline, Executes
  <2>5. halted' \in BOOLEAN
    BY <1>0, <2>4 DEF EvmTypeOK
  <2> HIDE DEF log
  <2> QED
    BY <1>0, <2>1, <2>2, <2>3, <2>4, <2>5, QuietStep DEF log
<1>6. CASE Revert \/ Return
  <2>1. ~halted /\ Len(stack) > 1
    BY <1>6 DEF Revert, Return, Executes
  <2>2. PICK op \in {"REVERT", "STOP"} :
          Close(Entry(op, NoAddress, 0, 0, FALSE), IF op = "STOP" THEN world ELSE Top.saved,
                IF op = "STOP" THEN 1 ELSE 0)
    BY <1>6 DEF Revert, Return
  <2> DEFINE log == Entry(op, NoAddress, 0, 0, FALSE)
             v == IF op = "STOP" THEN world ELSE Top.saved
             f == IF op = "STOP" THEN 1 ELSE 0
  <2>3. op \in Ops /\ 0 \in Nat /\ op \notin Calls \cup {"SSTORE"}
    BY DEF Ops, Calls
  <2>4. Present(log) /\ log.op = op
    <3> HIDE DEF World, OpenedFrame, Ctx, Ops
    <3> QED
      BY <1>0, <2>3, PresentType DEF Entry, Log, Present, Addressed
  <2>5. v \in World /\ f \in {0, 1} /\ (f = 0 => v = Top.saved) /\ (f = 1 => v = world)
    BY <1>0, TopFrame
  <2>6. Close(log, v, f)
    BY <2>2
  <2> HIDE DEF log, v, f
  <2> QED
    BY <2>1, <2>3, <2>4, <2>5, <2>6, CloseStep
<1>7. CASE Halt
  <2>1. ~halted /\ Len(stack) > 1
    BY <1>7 DEF Halt, Executes
  <2>2. PICK op \in Ops : Close(Entry(op, Root, Ctr, 1, TRUE), Top.saved, 0)
    BY <1>7 DEF Halt, Ops
  <2> DEFINE log == Entry(op, Root, Ctr, 1, TRUE)
  <2>3. Ctr \in Nat /\ 1 \in Nat
    BY EvmAssumption
  <2>4. Present(log) /\ log.error
    <3> HIDE DEF World, OpenedFrame, Ctx, Ops
    <3> QED
      BY <1>0, <2>3, PresentType DEF Entry, Log, Present, Addressed
  <2>5. Top.saved \in World /\ 0 \in {0, 1}
    BY TopFrame
  <2>6. Close(log, Top.saved, 0)
    BY <2>2
  <2> HIDE DEF log
  <2> QED
    BY <2>1, <2>4, <2>5, <2>6, CloseStep
<1> QED
  BY <1>1, <1>2, <1>3, <1>4, <1>5, <1>6, <1>7 DEF Execute

LEMMA TraceStarts == Init => TraceInv
<1> SUFFICES ASSUME Init PROVE TraceInv
  OBVIOUS
<1> DEFINE f == [ctx |-> Root, static |-> FALSE, saved |-> Genesis]
<1>1. /\ world = Genesis /\ stack = <<f>> /\ flag = 0 /\ trace = <<>> /\ halted = FALSE
  BY DEF Init, EvmInit
<1>2. Genesis \in World
  BY DEF Genesis, World, Storage
<1>3. f \in OpenedFrame /\ f.ctx = Root
  BY <1>2, EvmAssumption DEF OpenedFrame, Ctx
<1> HIDE DEF f, World, OpenedFrame, Log
<1>4. stack \in Seq(OpenedFrame) /\ Len(stack) = 1 /\ stack[1] = f
  BY <1>1, <1>3
<1>5. trace \in Seq(Log) /\ Len(trace) = 0 /\ DOMAIN trace = {}
  BY <1>1
<1>6. EvmTypeOK
  <2>1. flag \in {0, 1} /\ halted \in BOOLEAN
    BY <1>1
  <2> QED
    BY <1>1, <1>2, <1>4, <1>5, <2>1, Zenon DEF EvmTypeOK
<1> QED
  BY <1>1, <1>3, <1>4, <1>5, <1>6 DEF TraceInv, FirstFrame

\* Nothing but the execution changes the trace.
LEMMA TraceStep == TraceInv /\ [Next]_vars => TraceInv'
<1> SUFFICES ASSUME TraceInv, [Next]_vars PROVE TraceInv'
  OBVIOUS
<1>1. CASE Execute
  BY <1>1, ExecuteStep
<1>2. CASE UNCHANGED evmVars
  BY <1>2 DEF TraceInv, evmVars, EvmTypeOK
<1>3. Execute \/ UNCHANGED evmVars
  BY DEF Next, vars, Scan, Walk, Split, Apply, Done, WalkErrored, WalkNothing, WalkStore,
     WalkUnsupported, WalkDelegate, WalkStatic, WalkLog, WalkNative, WalkCreate, WalkCall,
     WalkNested, WalkFails, Becomes
<1> QED
  BY <1>1, <1>2, <1>3

-----------------------------------------------------------------------------
(* What a step of the walk does to the mirror. *)

\* What the mirror reads of a frame has not changed.
Alike(f, g) == FrameOK(g) /\ g.depth = f.depth /\ g.ctx = f.ctx /\ g.journal = f.journal

\* The top frame is gone and its journal laid over its caller's.
Committed(frames, other) ==
  LET n == Len(frames) - 1
  IN  /\ IsList(other) /\ Len(other) = n
      /\ \A k \in 1 .. (n - 1) : Alike(frames[k], other[k])
      /\ FrameOK(other[n]) /\ other[n].depth = frames[n].depth /\ other[n].ctx = frames[n].ctx
      /\ \A c \in Contract :
           other[n].journal[c] = Extend(frames[n].journal[c], frames[n + 1].journal[c])

\* `new` is laid over the top journal of contract a.
Stored(frames, other, a, new) ==
  LET n == Len(frames)
  IN  /\ IsList(other) /\ Len(other) = n
      /\ \A k \in 1 .. (n - 1) : Alike(frames[k], other[k])
      /\ FrameOK(other[n]) /\ other[n].depth = frames[n].depth /\ other[n].ctx = frames[n].ctx
      /\ \A c \in Contract : other[n].journal[c] =
           IF c = a THEN Extend(frames[n].journal[c], new) ELSE frames[n].journal[c]

SameJournals(n, frames, other) == \A k \in 1 .. n : other[k].journal = frames[k].journal

LEMMA ShowsAlike ==
  ASSUME NEW n \in Nat, NEW frames, NEW other, SameJournals(n, frames, other)
  PROVE  \A c, s, v : Shows(frames, n, c, s, v) => Shows(other, n, c, s, v)
BY DEF Shows, SameJournals

LEMMA MirrorsAlike ==
  ASSUME NEW frames, NEW opened, NEW st, Mirrors(frames, opened, st),
         NEW other, IsList(other), Len(other) = Len(frames),
         \A k \in 1 .. Len(frames) : Alike(frames[k], other[k])
  PROVE  Mirrors(other, opened, st)
<1> DEFINE n == Len(frames)
<1>1. n \in Nat /\ n >= 1 /\ \A k \in 1 .. n : other[k].journal = frames[k].journal
  BY DEF Mirrors, IsList, Alike
<1>2. ASSUME NEW m \in 1 .. n, NEW c, NEW s, NEW v, Shows(frames, m, c, s, v)
      PROVE  Shows(other, m, c, s, v)
  <2>1. m \in Nat /\ SameJournals(m, frames, other)
    BY <1>1 DEF SameJournals
  <2> QED
    BY <1>2, <2>1, ShowsAlike
<1> QED
  BY <1>1, <1>2 DEF Mirrors, Alike

\* A frame is opened: its journal is empty, so the image is what it was.
LEMMA MirrorsOpened ==
  ASSUME NEW frames, NEW opened, NEW st, Mirrors(frames, opened, st),
         NEW more, Len(more) = Len(opened) + 1, \A k \in 1 .. Len(opened) : more[k] = opened[k],
         more[Len(more)].saved.st = st,
         NEW f, FrameOK(f), f.depth = Len(more), f.ctx = more[Len(more)].ctx,
         \A c \in Contract : DOMAIN f.journal[c] = {}
  PROVE  Mirrors(Append(frames, f), more, st)
<1> DEFINE n == Len(frames)
           other == Append(frames, f)
<1>1. n \in Nat /\ n >= 1 /\ IsList(frames) /\ n = Len(opened)
  BY DEF Mirrors, IsList
<1>2. /\ IsList(other) /\ Len(other) = n + 1 /\ other[n + 1] = f
      /\ \A k \in 1 .. n : other[k] = frames[k]
  BY <1>1, ListAppend
<1> HIDE DEF other
<1>3. ASSUME NEW m \in 1 .. n, NEW c, NEW s, NEW v, Shows(frames, m, c, s, v)
      PROVE  Shows(other, m, c, s, v)
  <2>1. m \in Nat /\ SameJournals(m, frames, other)
    BY <1>1, <1>2 DEF SameJournals
  <2> QED
    BY <1>3, <2>1, ShowsAlike
<1>4. ASSUME NEW c \in Contract, NEW s \in Slot PROVE Shows(other, n + 1, c, s, st[c][s])
  <2>1. Shows(other, n, c, s, st[c][s])
    BY <1>1, <1>3 DEF Mirrors
  <2>2. s \notin DOMAIN other[n + 1].journal[c]
    BY <1>2
  <2> DEFINE v == st[c][s]
             D(k) == s \in DOMAIN other[k].journal[c]
             V(k) == other[k].journal[c][s]
  <2>3. \/ \E k \in 1 .. n : D(k) /\ v = V(k) /\ \A j \in (k + 1) .. n : ~D(j)
        \/ v = 0 /\ \A k \in 1 .. n : ~D(k)
    BY <2>1 DEF Shows
  <2>4. ~D(n + 1)
    BY <2>2
  <2> SUFFICES \/ \E k \in 1 .. (n + 1) : D(k) /\ v = V(k) /\ \A j \in (k + 1) .. (n + 1) : ~D(j)
               \/ v = 0 /\ \A k \in 1 .. (n + 1) : ~D(k)
    BY DEF Shows
  <2> HIDE DEF D, V, v, n
  <2> QED
    BY <1>1, <2>3, <2>4
<1>5. ASSUME NEW m \in 1 .. n, NEW c \in Contract, NEW s \in Slot
      PROVE  Shows(other, m, c, s, more[m + 1].saved.st[c][s])
  <2>1. CASE m = n
    BY <1>1, <1>3, <2>1 DEF Mirrors
  <2>2. CASE m # n
    <3>1. m \in 1 .. (n - 1) /\ m + 1 \in 1 .. n
      BY <1>1, <2>2, Below
    <3> QED
      BY <1>1, <1>3, <3>1 DEF Mirrors
  <2> QED
    BY <2>1, <2>2
<1>6. \A k \in 1 .. (n + 1) :
        FrameOK(other[k]) /\ other[k].depth = k /\ other[k].ctx = more[k].ctx
  BY <1>1, <1>2 DEF Mirrors
<1> QED
  BY <1>1, <1>2, <1>4, <1>5, <1>6 DEF Mirrors, other

\* A frame reverts: the image below it is the storage it was opened on.
LEMMA MirrorsReverted ==
  ASSUME NEW frames, NEW opened, NEW st, Mirrors(frames, opened, st), Len(frames) >= 2,
         NEW less, Len(opened) = Len(less) + 1, \A k \in 1 .. Len(less) : less[k] = opened[k],
         NEW other, IsList(other), Len(other) = Len(frames) - 1,
         \A k \in 1 .. (Len(frames) - 1) : Alike(frames[k], other[k])
  PROVE  Mirrors(other, less, opened[Len(opened)].saved.st)
<1> DEFINE n == Len(other)
<1>1. n \in Nat /\ n >= 1 /\ n = Len(less) /\ Len(frames) = n + 1 /\ Len(opened) = n + 1
  BY DEF Mirrors, IsList
<1>2. ASSUME NEW m \in 1 .. n, NEW c \in Contract, NEW s \in Slot
      PROVE  Shows(other, m, c, s, opened[m + 1].saved.st[c][s])
  <2>1. Shows(frames, m, c, s, opened[m + 1].saved.st[c][s])
    BY <1>1 DEF Mirrors
  <2>2. m \in Nat /\ SameJournals(m, frames, other)
    BY <1>1 DEF Alike, SameJournals
  <2> QED
    BY <2>1, <2>2, ShowsAlike
<1>3. \A k \in 1 .. n :
        FrameOK(other[k]) /\ other[k].depth = k /\ other[k].ctx = less[k].ctx
  BY <1>1 DEF Mirrors, Alike
<1> QED
  BY <1>1, <1>2, <1>3 DEF Mirrors

\* A frame commits: its journal is laid over its caller's.
LEMMA MirrorsCommitted ==
  ASSUME NEW frames, NEW opened, NEW st, Mirrors(frames, opened, st), Len(frames) >= 2,
         NEW less, Len(opened) = Len(less) + 1, \A k \in 1 .. Len(less) : less[k] = opened[k],
         NEW other, Committed(frames, other)
  PROVE  Mirrors(other, less, st)
<1> DEFINE n == Len(other)
<1>1. n \in Nat /\ n >= 1 /\ n = Len(less) /\ Len(frames) = n + 1 /\ Len(opened) = n + 1
  BY DEF Mirrors, IsList, Committed
<1>0. /\ IsList(other) /\ \A k \in 1 .. (n - 1) : Alike(frames[k], other[k])
      /\ FrameOK(other[n]) /\ other[n].depth = frames[n].depth /\ other[n].ctx = frames[n].ctx
      /\ \A c \in Contract : other[n].journal[c] = Extend(frames[n].journal[c], frames[n + 1].journal[c])
  BY <1>1 DEF Committed
<1>2. ASSUME NEW m \in 1 .. (n - 1), NEW c \in Contract, NEW s \in Slot
      PROVE  Shows(other, m, c, s, less[m + 1].saved.st[c][s])
  <2>1. Shows(frames, m, c, s, opened[m + 1].saved.st[c][s]) /\ less[m + 1] = opened[m + 1]
    BY <1>1 DEF Mirrors
  <2>2. m \in Nat /\ SameJournals(m, frames, other)
    BY <1>0, <1>1 DEF Alike, SameJournals
  <2> QED
    BY <2>1, <2>2, ShowsAlike
<1>3. \A k \in 1 .. n :
        FrameOK(other[k]) /\ other[k].depth = k /\ other[k].ctx = less[k].ctx
  BY <1>0, <1>1 DEF Mirrors, Alike
<1>4. ASSUME NEW c \in Contract, NEW s \in Slot PROVE Shows(other, n, c, s, st[c][s])
  <2> DEFINE J(k) == frames[k].journal[c]
             K(k) == other[k].journal[c]
  <2>1. Shows(frames, n + 1, c, s, st[c][s])
    BY <1>1 DEF Mirrors
  <2>2. \A k \in 1 .. (n - 1) : K(k) = J(k)
    BY <1>0, <1>1 DEF Alike
  <2>3. /\ DOMAIN K(n) = DOMAIN J(n) \cup DOMAIN J(n + 1)
        /\ s \in DOMAIN J(n + 1) => K(n)[s] = J(n + 1)[s]
        /\ s \in DOMAIN J(n) /\ s \notin DOMAIN J(n + 1) => K(n)[s] = J(n)[s]
    BY <1>0, <1>1 DEF Extend
  <2> DEFINE v == st[c][s]
  <2>4. \/ \E k \in 1 .. (n + 1) : /\ s \in DOMAIN J(k) /\ v = J(k)[s]
                                   /\ \A m \in (k + 1) .. (n + 1) : s \notin DOMAIN J(m)
        \/ v = 0 /\ \A k \in 1 .. (n + 1) : s \notin DOMAIN J(k)
    BY <2>1 DEF Shows
  <2> SUFFICES \/ \E k \in 1 .. n : /\ s \in DOMAIN K(k) /\ v = K(k)[s]
                                    /\ \A m \in (k + 1) .. n : s \notin DOMAIN K(m)
               \/ v = 0 /\ \A k \in 1 .. n : s \notin DOMAIN K(k)
    BY DEF Shows
  <2> HIDE DEF J, K, v
  <2>5. CASE v = 0 /\ \A k \in 1 .. (n + 1) : s \notin DOMAIN J(k)
    <3>1. \A k \in 1 .. n : s \notin DOMAIN K(k)
      BY <1>1, <2>2, <2>3, <2>5
    <3> QED
      BY <2>5, <3>1
  <2>6. ASSUME NEW k \in 1 .. (n + 1), s \in DOMAIN J(k), v = J(k)[s],
               \A m \in (k + 1) .. (n + 1) : s \notin DOMAIN J(m)
        PROVE  \E i \in 1 .. n : /\ s \in DOMAIN K(i) /\ v = K(i)[s]
                                 /\ \A m \in (i + 1) .. n : s \notin DOMAIN K(m)
    <3>1. CASE k >= n
      BY <1>1, <2>3, <2>6, <3>1
    <3>2. CASE k < n
      <4>1. s \in DOMAIN K(k) /\ v = K(k)[s] /\ k \in 1 .. n
        BY <1>1, <2>2, <2>6, <3>2
      <4>2. \A m \in (k + 1) .. n : s \notin DOMAIN K(m)
        BY <1>1, <2>2, <2>3, <2>6, <3>2
      <4> QED
        BY <4>1, <4>2
    <3> QED
      BY <1>1, <3>1, <3>2
  <2> QED
    BY <2>4, <2>5, <2>6
<1> QED
  BY <1>0, <1>1, <1>2, <1>3, <1>4 DEF Mirrors

\* An SSTORE goes to the top journal.
LEMMA MirrorsStored ==
  ASSUME NEW frames, NEW opened, NEW st \in Storage, Mirrors(frames, opened, st),
         NEW a \in Contract, NEW slot, NEW value,
         NEW other, Stored(frames, other, a, [s \in {slot} |-> value])
  PROVE  Mirrors(other, opened, [st EXCEPT ![a][slot] = value])
<1> DEFINE n == Len(frames)
           new == [st EXCEPT ![a][slot] = value]
<1>1. n \in Nat /\ n >= 1 /\ n = Len(opened)
  BY DEF Mirrors, IsList
<1>0. /\ IsList(other) /\ Len(other) = n /\ \A k \in 1 .. (n - 1) : Alike(frames[k], other[k])
      /\ FrameOK(other[n]) /\ other[n].depth = frames[n].depth /\ other[n].ctx = frames[n].ctx
      /\ \A c \in Contract : other[n].journal[c] =
           IF c = a THEN Extend(frames[n].journal[c], [s \in {slot} |-> value])
           ELSE frames[n].journal[c]
  BY DEF Stored
<1>2. ASSUME NEW m \in 1 .. (n - 1), NEW c \in Contract, NEW s \in Slot
      PROVE  Shows(other, m, c, s, opened[m + 1].saved.st[c][s])
  <2>1. Shows(frames, m, c, s, opened[m + 1].saved.st[c][s])
    BY <1>1 DEF Mirrors
  <2>2. m \in Nat /\ SameJournals(m, frames, other)
    BY <1>0, <1>1 DEF Alike, SameJournals
  <2> QED
    BY <2>1, <2>2, ShowsAlike
<1>3. \A k \in 1 .. n :
        FrameOK(other[k]) /\ other[k].depth = k /\ other[k].ctx = opened[k].ctx
  BY <1>0, <1>1 DEF Mirrors, Alike
<1>4. ASSUME NEW c \in Contract, NEW s \in Slot PROVE Shows(other, n, c, s, new[c][s])
  <2> DEFINE J(k) == frames[k].journal[c]
             K(k) == other[k].journal[c]
  <2>1. Shows(frames, n, c, s, st[c][s])
    BY <1>1 DEF Mirrors
  <2>2. \A k \in 1 .. (n - 1) : K(k) = J(k)
    BY <1>0, <1>1 DEF Alike
  <2>3. K(n) = IF c = a THEN Extend(J(n), [x \in {slot} |-> value]) ELSE J(n)
    BY <1>0
  <2>4. CASE c = a /\ s = slot
    <3>1. s \in DOMAIN K(n) /\ K(n)[s] = value
      BY <2>3, <2>4 DEF Extend
    <3>2. new[c][s] = value
      BY <2>4 DEF Storage
    <3> QED
      BY <1>1, <3>1, <3>2 DEF Shows
  <2>5. CASE ~(c = a /\ s = slot)
    <3>1. new[c][s] = st[c][s]
      BY <2>5 DEF Storage
    <3>2. (s \in DOMAIN K(n) <=> s \in DOMAIN J(n)) /\ (s \in DOMAIN J(n) => K(n)[s] = J(n)[s])
      BY <2>3, <2>5 DEF Extend
    <3> HIDE DEF new
    <3>3. \/ \E k \in 1 .. n : /\ s \in DOMAIN J(k) /\ st[c][s] = J(k)[s]
                               /\ \A m \in (k + 1) .. n : s \notin DOMAIN J(m)
          \/ st[c][s] = 0 /\ \A k \in 1 .. n : s \notin DOMAIN J(k)
      BY <2>1 DEF Shows
    <3>4. \A k \in 1 .. n : /\ s \in DOMAIN K(k) <=> s \in DOMAIN J(k)
                            /\ s \in DOMAIN J(k) => K(k)[s] = J(k)[s]
      BY <1>1, <2>2, <3>2
    <3> SUFFICES \/ \E k \in 1 .. n : /\ s \in DOMAIN K(k) /\ st[c][s] = K(k)[s]
                                      /\ \A m \in (k + 1) .. n : s \notin DOMAIN K(m)
                 \/ st[c][s] = 0 /\ \A k \in 1 .. n : s \notin DOMAIN K(k)
      BY <3>1 DEF Shows
    <3> HIDE DEF J, K
    <3> QED
      BY <1>1, <3>3, <3>4
  <2> QED
    BY <2>4, <2>5
<1> QED
  BY <1>0, <1>1, <1>2, <1>3, <1>4 DEF Mirrors

\* visible_image has what the journals show.
LEMMA ImageShown ==
  ASSUME NEW frames, IsList(frames), NEW c, NEW s \in Slot, NEW v,
         Shows(frames, Len(frames), c, s, v)
  PROVE  v = IF s \in DOMAIN visible_image(frames, c) THEN visible_image(frames, c)[s] ELSE 0
<1> DEFINE n == Len(frames)
           W(t) == {k \in DOMAIN frames : t \in DOMAIN frames[k].journal[c]}
           Of(t) == CHOOSE k \in W(t) : \A j \in W(t) : j <= k
<1>1. DOMAIN frames = 1 .. n /\ n \in Nat
  BY ListSeq
<1>2. visible_image(frames, c) = [t \in {u \in Slot : W(u) # {}} |-> frames[Of(t)].journal[c][t]]
  BY DEF visible_image
<1>3. /\ s \in DOMAIN visible_image(frames, c) <=> W(s) # {}
      /\ W(s) # {} => visible_image(frames, c)[s] = frames[Of(s)].journal[c][s]
  <2> HIDE DEF W, Of
  <2> QED
    BY <1>2
<1>4. CASE v = 0 /\ \A k \in 1 .. n : s \notin DOMAIN frames[k].journal[c]
  BY <1>1, <1>3, <1>4
<1>5. ASSUME NEW k \in 1 .. n, s \in DOMAIN frames[k].journal[c], v = frames[k].journal[c][s],
             \A m \in (k + 1) .. n : s \notin DOMAIN frames[m].journal[c]
      PROVE  W(s) # {} /\ v = frames[Of(s)].journal[c][s]
  <2>1. k \in W(s) /\ \A j \in W(s) : j \in Nat /\ j <= k
    BY <1>1, <1>5
  <2>2. Of(s) \in W(s) /\ \A j \in W(s) : j <= Of(s)
    <3> HIDE DEF W
    <3> QED
      BY <2>1
  <2>3. Of(s) = k
    <3> DEFINE o == Of(s)
    <3>1. o \in Nat /\ o <= k
      <4> HIDE DEF W, Of
      <4> QED
        BY <2>1, <2>2
    <3>2. k \in Nat /\ k <= o
      <4> HIDE DEF W, Of
      <4> QED
        BY <1>1, <2>1, <2>2
    <3> HIDE DEF W, Of, o
    <3>3. o = k
      BY <3>1, <3>2
    <3> QED
      BY <3>3 DEF o
  <2> QED
    BY <1>5, <2>1, <2>3
<1> QED
  BY <1>3, <1>4, <1>5 DEF Shows
-----------------------------------------------------------------------------
(* What the walk's operators do to the frames. *)

Frameful(frames) ==
  IsList(frames) /\ Len(frames) >= 1 /\ \A k \in 1 .. Len(frames) : FrameOK(frames[k])

\* The frames are the same, but for what the mirror does not read.
Keeps(frames, other) ==
  /\ IsList(other) /\ Len(other) = Len(frames)
  /\ \A k \in 1 .. Len(frames) : Alike(frames[k], other[k])

LEMMA KeepsFrameful ==
  ASSUME NEW frames, Frameful(frames), NEW other, Keeps(frames, other)
  PROVE  Frameful(other)
BY DEF Frameful, Keeps, Alike

LEMMA KeepsTrans ==
  ASSUME NEW a, NEW b, NEW c, Keeps(a, b), Keeps(b, c)
  PROVE  Keeps(a, c)
BY DEF Keeps, Alike

LEMMA KeepsSame ==
  ASSUME NEW frames, Frameful(frames)
  PROVE  Keeps(frames, frames)
BY DEF Frameful, Keeps, Alike

\* The top frame is replaced by g.
LEMMA TopReplaced ==
  ASSUME NEW frames, Frameful(frames), NEW g
  PROVE  LET other == [frames EXCEPT ![Len(frames)] = g]
         IN  /\ IsList(other) /\ Len(other) = Len(frames)
             /\ \A k \in 1 .. (Len(frames) - 1) : other[k] = frames[k]
             /\ other[Len(frames)] = g
<1> DEFINE n == Len(frames)
           other == [frames EXCEPT ![n] = g]
<1>1. n \in Nat /\ n >= 1 /\ DOMAIN frames = 1 .. n
  BY ListSeq DEF Frameful
<1>2. other = [k \in 1 .. n |-> IF k = n THEN g ELSE frames[k]]
  BY <1>1
<1>3. other = [k \in 1 .. n |-> other[k]] /\ other[n] = g /\ \A k \in 1 .. (n - 1) : other[k] = frames[k]
  <2> HIDE DEF n
  <2> QED
    BY <1>1, <1>2
<1>4. IsList(other) /\ Len(other) = n
  <2> HIDE DEF n, other
  <2> QED
    BY <1>1, <1>3, FunctionList
<1> QED
  BY <1>3, <1>4

LEMMA TopKept ==
  ASSUME NEW frames, Frameful(frames), NEW g, Alike(frames[Len(frames)], g)
  PROVE  Keeps(frames, [frames EXCEPT ![Len(frames)] = g])
<1> DEFINE n == Len(frames)
           other == [frames EXCEPT ![n] = g]
<1>1. n \in Nat /\ n >= 1 /\ \A k \in 1 .. n : Alike(frames[k], frames[k])
  BY DEF Frameful, IsList, Alike
<1>2. /\ IsList(other) /\ Len(other) = n
      /\ \A k \in 1 .. (n - 1) : other[k] = frames[k]
      /\ other[n] = g
  BY TopReplaced
<1> HIDE DEF other, n
<1>3. \A k \in 1 .. n : Alike(frames[k], other[k])
  BY <1>1, <1>2 DEF n
<1> QED
  BY <1>2, <1>3 DEF Keeps, other, n

LEMMA ChargeKeeps ==
  ASSUME NEW frames, Frameful(frames), NEW emits, NEW gas
  PROVE  Keeps(frames, Charge(frames, emits, gas))
<1> DEFINE n == Len(frames)
           other == Charge(frames, emits, gas)
<1>1. n \in Nat /\ n >= 1 /\ DOMAIN frames = 1 .. n /\ \A k \in 1 .. n : FrameOK(frames[k])
  BY ListSeq DEF Frameful
<1>2. \A k \in 1 .. (n - 1) : other[k] = frames[k]
  BY <1>1 DEF Charge
<1>3. other = [k \in 1 .. n |-> other[k]]
  BY <1>1 DEF Charge
<1>4. /\ DOMAIN other[n] = DOMAIN frames[n] /\ other[n].journal = frames[n].journal
      /\ other[n].depth = frames[n].depth /\ other[n].ctx = frames[n].ctx
  BY <1>1 DEF Charge, FrameOK, FrameFields
<1> HIDE DEF n, other
<1>5. IsList(other) /\ Len(other) = n
  BY <1>1, <1>3, FunctionList
<1>6. \A k \in 1 .. n : Alike(frames[k], other[k])
  BY <1>1, <1>2, <1>4 DEF Alike, FrameOK
<1> QED
  BY <1>5, <1>6 DEF Keeps, n, other

LEMMA ForgetAlike ==
  ASSUME NEW f, FrameOK(f), NEW slots
  PROVE  Alike(f, Forget(f, slots))
BY DEF Forget, Alike, FrameOK, FrameFields

LEMMA ForgetKeeps ==
  ASSUME NEW frames, Frameful(frames), NEW programs, NEW journal
  PROVE  Keeps(frames, forget_overwritten(frames, programs, journal))
<1> DEFINE n == Len(frames)
           other == forget_overwritten(frames, programs, journal)
           D(k) == DOMAIN journal[programs[ProgramOf(frames[k])].target]
<1>1. n \in Nat /\ n >= 1 /\ DOMAIN frames = 1 .. n /\ \A k \in 1 .. n : FrameOK(frames[k])
  BY ListSeq DEF Frameful
<1>2. other = [k \in 1 .. n |-> IF frames[k].program = {} THEN frames[k] ELSE Forget(frames[k], D(k))]
  BY <1>1 DEF forget_overwritten
<1> HIDE DEF n, other, D
<1>3. other = [k \in 1 .. n |-> other[k]]
  BY <1>2
<1>4. IsList(other) /\ Len(other) = n
  BY <1>1, <1>3, FunctionList
<1>5. \A k \in 1 .. n : Alike(frames[k], other[k])
  BY <1>1, <1>2, ForgetAlike DEF Alike
<1> QED
  BY <1>4, <1>5 DEF Keeps, n, other

WalkFields == {"frames", "programs", "pending"}

\* v's frames are kept in x.
WalkKeeps(v, x) == DOMAIN x = WalkFields /\ Keeps(v.frames, x.frames)

LEMMA FlushKeeps ==
  ASSUME NEW v, DOMAIN v = WalkFields, Frameful(v.frames)
  PROVE  WalkKeeps(v, flush_slice(v)) /\ flush_slice(v).pending = v.pending
<1> DEFINE n == Len(v.frames)
           cur == Last(v.frames)
           image == visible_image(v.frames, v.programs[ProgramOf(cur)].target)
           dirty == {s \in DOMAIN image : ~(s \in DOMAIN cur.view /\ cur.view[s] = image[s])}
           stores == InOrder(dirty)
           out == [k \in DOMAIN stores |-> Store(stores[k], image[stores[k]])]
           g == [cur EXCEPT !.out = @ \o out, !.view = Extend(@, image)]
<1>1. flush_slice(v) = [v EXCEPT !.frames[n] = g]
  BY DEF flush_slice
<1> HIDE DEF image, stores, dirty, out
<1>2. n \in Nat /\ n >= 1 /\ DOMAIN v.frames = 1 .. n /\ cur = v.frames[n] /\ FrameOK(cur)
  BY ListSeq DEF Frameful, Last
<1>3. Alike(cur, g)
  <2> HIDE DEF cur, n
  <2> QED
    BY <1>2 DEF Alike, FrameOK, FrameFields
<1> HIDE DEF g
<1>4. /\ DOMAIN flush_slice(v) = WalkFields
      /\ flush_slice(v).frames = [v.frames EXCEPT ![n] = g]
      /\ flush_slice(v).pending = v.pending
  BY <1>1 DEF WalkFields
<1>5. Keeps(v.frames, [v.frames EXCEPT ![n] = g])
  BY <1>2, <1>3, TopKept
<1> QED
  BY <1>4, <1>5 DEF WalkKeeps

LEMMA PushKeeps ==
  ASSUME NEW v, DOMAIN v = WalkFields, Frameful(v.frames), NEW update
  PROVE  WalkKeeps(v, PushOut(v, update)) /\ PushOut(v, update).pending = v.pending
<1> DEFINE n == Len(v.frames)
           x == PushOut(v, update)
           g == [v.frames[n] EXCEPT !.out = Append(@, update)]
<1>1. n \in Nat /\ n >= 1 /\ DOMAIN v.frames = 1 .. n /\ FrameOK(v.frames[n])
  BY ListSeq DEF Frameful
<1>2. Alike(v.frames[n], g)
  BY <1>1 DEF Alike, FrameOK, FrameFields
<1>3. DOMAIN x = WalkFields /\ x.frames = [v.frames EXCEPT ![n] = g] /\ x.pending = v.pending
  BY <1>1 DEF PushOut, WalkFields
<1> HIDE DEF g, x
<1>4. Keeps(v.frames, [v.frames EXCEPT ![n] = g])
  BY <1>2, TopKept
<1> QED
  BY <1>3, <1>4 DEF WalkKeeps, x

\* Commit lays a journal over the top frame's.
LEMMA CommitTop ==
  ASSUME NEW frames, Frameful(frames), NEW journal
  PROVE  LET n == Len(frames)
             other == Commit(frames, journal)
         IN  /\ IsList(other) /\ Len(other) = n
             /\ \A k \in 1 .. (n - 1) : Alike(frames[k], other[k])
             /\ FrameOK(other[n]) /\ other[n].depth = frames[n].depth /\ other[n].ctx = frames[n].ctx
             /\ \A c \in Contract : other[n].journal[c] = Extend(frames[n].journal[c], journal[c])
<1> DEFINE n == Len(frames)
           other == Commit(frames, journal)
           new == [c \in Contract |-> Extend(frames[n].journal[c], journal[c])]
           g == [frames[n] EXCEPT !.journal = new]
<1>1. n \in Nat /\ n >= 1 /\ DOMAIN frames = 1 .. n /\ \A k \in 1 .. n : FrameOK(frames[k])
  BY ListSeq DEF Frameful
<1>2. other = [frames EXCEPT ![n] = g]
  BY <1>1 DEF Commit
<1>3. DOMAIN g = FrameFields /\ g.journal = new /\ g.depth = frames[n].depth /\ g.ctx = frames[n].ctx
  <2> HIDE DEF new
  <2> QED
    BY <1>1 DEF FrameOK, FrameFields
<1> HIDE DEF g
<1>4. /\ IsList(other) /\ Len(other) = n
      /\ \A k \in 1 .. (n - 1) : other[k] = frames[k]
      /\ other[n] = g
  <2> DEFINE top == [frames EXCEPT ![n] = g]
  <2>1. /\ IsList(top) /\ Len(top) = n /\ top[n] = g
        /\ \A k \in 1 .. (n - 1) : top[k] = frames[k]
    BY TopReplaced
  <2> HIDE DEF top
  <2> QED
    BY <1>2, <2>1 DEF top
<1> HIDE DEF other
<1>5. DOMAIN new = Contract /\ \A c \in Contract : new[c] = Extend(frames[n].journal[c], journal[c])
  OBVIOUS
<1> HIDE DEF new
<1>6. \A k \in 1 .. (n - 1) : Alike(frames[k], other[k])
  BY <1>1, <1>4 DEF Alike
<1>7. FrameOK(other[n])
  BY <1>3, <1>4, <1>5 DEF FrameOK
<1> QED
  BY <1>3, <1>4, <1>5, <1>6, <1>7 DEF other

LEMMA FrontFrameful ==
  ASSUME NEW frames, Frameful(frames), Len(frames) >= 2
  PROVE  /\ Frameful(Front(frames)) /\ Len(Front(frames)) = Len(frames) - 1
         /\ \A k \in 1 .. (Len(frames) - 1) : Front(frames)[k] = frames[k]
<1> DEFINE rest == Front(frames)
<1>1. IsList(frames) /\ Len(frames) \in Nat /\ \A k \in 1 .. Len(frames) : FrameOK(frames[k])
  BY DEF Frameful, IsList
<1>2. /\ IsList(rest) /\ Len(rest) = Len(frames) - 1
      /\ \A k \in 1 .. (Len(frames) - 1) : rest[k] = frames[k]
  BY <1>1, ListFront
<1> HIDE DEF rest
<1>3. Frameful(rest)
  BY <1>1, <1>2 DEF Frameful
<1> QED
  BY <1>2, <1>3 DEF rest

LEMMA RevertedFrames ==
  ASSUME NEW v, DOMAIN v = WalkFields, Frameful(v.frames), Len(v.frames) >= 2, NEW i
  PROVE  /\ DOMAIN LeaveReverted(v, i) = WalkFields /\ LeaveReverted(v, i).pending = v.pending
         /\ Keeps(Front(v.frames), LeaveReverted(v, i).frames)
<1> DEFINE x == LeaveReverted(v, i)
           child == Last(v.frames)
           rest == Charge(Front(v.frames), child.emits, i - child.start)
           m == Len(rest)
           cut == [rest[m] EXCEPT !.out = Front(@)]
           less == [rest EXCEPT ![m] = cut]
           frames == IF child.nested THEN [rest EXCEPT ![m].out = Front(@)] ELSE rest
           programs == DropFrom(v.programs, child.first_program)
<1>1. x = [v EXCEPT !.frames = frames, !.programs = programs]
  BY DEF LeaveReverted
<1>2. Keeps(Front(v.frames), rest) /\ Frameful(rest)
  BY FrontFrameful, ChargeKeeps, KeepsFrameful
<1> HIDE DEF programs, rest
<1>3. m \in Nat /\ m >= 1 /\ DOMAIN rest = 1 .. m /\ FrameOK(rest[m])
  BY <1>2, ListSeq DEF Frameful
<1>4. frames = less \/ frames = rest
  BY <1>3
<1>5. Alike(rest[m], cut)
  BY <1>3 DEF Alike, FrameOK, FrameFields
<1> HIDE DEF cut
<1>6. Keeps(rest, less)
  BY <1>2, <1>5, TopKept
<1> HIDE DEF frames, less
<1>7. Keeps(Front(v.frames), frames)
  BY <1>2, <1>4, <1>6, KeepsTrans
<1>8. DOMAIN x = WalkFields /\ x.frames = frames /\ x.pending = v.pending
  BY <1>1 DEF WalkFields
<1> QED
  BY <1>7, <1>8 DEF x

LEMMA CommittedFrames ==
  ASSUME NEW frames, Frameful(frames), Len(frames) >= 2,
         NEW rest, Keeps(Front(frames), rest),
         NEW other, Keeps(Commit(rest, frames[Len(frames)].journal), other)
  PROVE  Committed(frames, other)
<1> DEFINE n == Len(frames) - 1
           done == Commit(rest, frames[n + 1].journal)
<1>1. n \in Nat /\ n >= 1 /\ Len(frames) = n + 1
  BY DEF Frameful, IsList
<1>2. /\ Frameful(Front(frames)) /\ Len(Front(frames)) = n
      /\ \A k \in 1 .. n : Front(frames)[k] = frames[k]
  BY FrontFrameful
<1> HIDE DEF n
<1>3. Frameful(rest) /\ Len(rest) = n /\ \A k \in 1 .. n : Alike(frames[k], rest[k])
  BY <1>2, KeepsFrameful DEF Keeps
<1>4. /\ IsList(done) /\ Len(done) = n
      /\ \A k \in 1 .. (n - 1) : Alike(rest[k], done[k])
      /\ FrameOK(done[n]) /\ done[n].depth = rest[n].depth /\ done[n].ctx = rest[n].ctx
      /\ \A c \in Contract : done[n].journal[c] = Extend(rest[n].journal[c], frames[n + 1].journal[c])
  BY <1>3, CommitTop
<1>5. Keeps(done, other)
  BY <1>1
<1> HIDE DEF done
<1>6. IsList(other) /\ Len(other) = n /\ \A k \in 1 .. n : Alike(done[k], other[k])
  BY <1>4, <1>5 DEF Keeps
<1>7. \A k \in 1 .. (n - 1) : Alike(frames[k], other[k])
  BY <1>1, <1>3, <1>4, <1>6 DEF Alike
<1>8. /\ FrameOK(other[n]) /\ other[n].depth = frames[n].depth /\ other[n].ctx = frames[n].ctx
      /\ \A c \in Contract : other[n].journal[c] = Extend(frames[n].journal[c], frames[n + 1].journal[c])
  BY <1>1, <1>3, <1>4, <1>6 DEF Alike
<1> QED
  BY <1>1, <1>6, <1>7, <1>8 DEF Committed, n

LEMMA NestedFrames ==
  ASSUME NEW v, DOMAIN v = WalkFields, Frameful(v.frames), Len(v.frames) >= 2, NEW i
  PROVE  /\ DOMAIN LeaveNested(v, i) = WalkFields /\ LeaveNested(v, i).pending = v.pending
         /\ Committed(v.frames, LeaveNested(v, i).frames)
<1> DEFINE x == LeaveNested(v, i)
           n == Len(v.frames)
           flushed == flush_slice(v)
           child == Last(flushed.frames)
           front == Front(flushed.frames)
           rest == forget_overwritten(front, v.programs, child.journal)
           frames == Commit(rest, child.journal)
<1>1. DOMAIN x = WalkFields /\ x.frames = frames /\ x.pending = v.pending
  <2> HIDE DEF frames, child
  <2> QED
    BY DEF LeaveNested, WalkFields, frames, child
<1>2. Keeps(v.frames, flushed.frames)
  BY FlushKeeps DEF WalkKeeps
<1> HIDE DEF flushed
<1>3. n \in Nat /\ Frameful(flushed.frames) /\ Len(flushed.frames) = n
  BY <1>2, KeepsFrameful DEF Keeps, Frameful, IsList
<1>4. child.journal = v.frames[n].journal
  BY <1>2, <1>3 DEF Keeps, Alike, Last
<1>5. Frameful(front) /\ Keeps(Front(v.frames), front)
  <2>1. /\ Frameful(front) /\ Len(front) = n - 1
        /\ \A k \in 1 .. (n - 1) : front[k] = flushed.frames[k]
    BY <1>3, FrontFrameful
  <2>2. /\ Len(Front(v.frames)) = n - 1
        /\ \A k \in 1 .. (n - 1) : Front(v.frames)[k] = v.frames[k]
    BY FrontFrameful
  <2>3. \A k \in 1 .. (n - 1) : Alike(v.frames[k], flushed.frames[k])
    BY <1>2, <1>3 DEF Keeps
  <2> HIDE DEF front
  <2> QED
    BY <2>1, <2>2, <2>3 DEF Keeps, Frameful
<1> HIDE DEF front, child
<1>6. Keeps(Front(v.frames), rest) /\ Frameful(rest)
  BY <1>5, ForgetKeeps, KeepsTrans, KeepsFrameful
<1> HIDE DEF rest
<1>7. Frameful(frames)
  <2>1. /\ IsList(frames) /\ Len(frames) = Len(rest)
        /\ \A k \in 1 .. (Len(rest) - 1) : Alike(rest[k], frames[k])
        /\ FrameOK(frames[Len(rest)])
    BY <1>6, CommitTop
  <2> HIDE DEF frames
  <2> QED
    BY <1>6, <2>1 DEF Frameful, Alike, IsList
<1>8. Keeps(Commit(rest, v.frames[n].journal), frames)
  BY <1>4, <1>7, KeepsSame
<1> HIDE DEF frames
<1>9. Committed(v.frames, frames)
  BY <1>6, <1>8, CommittedFrames
<1> QED
  BY <1>1, <1>9 DEF x

LEMMA PlainFrames ==
  ASSUME NEW v, DOMAIN v = WalkFields, Frameful(v.frames), Len(v.frames) >= 2, NEW i
  PROVE  /\ DOMAIN LeavePlain(v, i) = WalkFields /\ LeavePlain(v, i).pending = v.pending
         /\ Committed(v.frames, LeavePlain(v, i).frames)
<1> DEFINE x == LeavePlain(v, i)
           n == Len(v.frames)
           child == Last(v.frames)
           charged == Charge(Front(v.frames), child.emits, i - child.start)
           rest == IF child.program = {}
                   THEN forget_overwritten(charged, v.programs, child.journal) ELSE charged
           done == Commit(rest, child.journal)
           m == Len(rest)
           frames == [done EXCEPT ![m].out        = @ \o child.out,
                                  ![m].call_gas   = @ + child.call_gas,
                                  ![m].create_gas = @ + child.create_gas,
                                  ![m].view       = IF child.program # {} THEN child.view ELSE @]
<1>1. x = [v EXCEPT !.frames = frames]
  BY DEF LeavePlain
<1>2. Keeps(Front(v.frames), charged) /\ Frameful(charged)
  BY FrontFrameful, ChargeKeeps, KeepsFrameful
<1> HIDE DEF charged
<1>3. Keeps(Front(v.frames), rest) /\ Frameful(rest)
  BY <1>2, ForgetKeeps, KeepsTrans, KeepsFrameful
<1> HIDE DEF rest
<1>4. child.journal = v.frames[n].journal
  BY DEF Last
<1> HIDE DEF child
<1>5. /\ m \in Nat /\ m >= 1 /\ IsList(done) /\ Len(done) = m /\ DOMAIN done = 1 .. m
      /\ \A k \in 1 .. m : FrameOK(done[k])
  <2>1. /\ IsList(done) /\ Len(done) = m
        /\ \A k \in 1 .. (m - 1) : Alike(rest[k], done[k])
        /\ FrameOK(done[m])
    BY <1>3, CommitTop
  <2> HIDE DEF done
  <2>2. \A k \in 1 .. m : FrameOK(done[k])
    BY <1>3, <2>1 DEF Frameful, Alike, IsList
  <2> QED
    BY <1>3, <2>1, <2>2, ListSeq DEF Frameful
<1> HIDE DEF done, m
<1>6. \A k \in 1 .. (m - 1) : frames[k] = done[k]
  BY <1>5
<1>7. frames = [k \in 1 .. m |-> frames[k]]
  BY <1>5
<1>8. /\ DOMAIN frames[m] = DOMAIN done[m] /\ frames[m].journal = done[m].journal
      /\ frames[m].depth = done[m].depth /\ frames[m].ctx = done[m].ctx
  BY <1>5 DEF FrameOK, FrameFields
<1> HIDE DEF frames
<1>9. IsList(frames) /\ Len(frames) = m
  BY <1>5, <1>7, FunctionList
<1>10. \A k \in 1 .. m : Alike(done[k], frames[k])
  BY <1>5, <1>6, <1>8 DEF Alike, FrameOK
<1>11. Keeps(Commit(rest, v.frames[n].journal), frames)
  BY <1>4, <1>5, <1>9, <1>10 DEF Keeps, done
<1>12. Committed(v.frames, frames)
  BY <1>3, <1>11, CommittedFrames
<1>13. DOMAIN x = WalkFields /\ x.frames = frames /\ x.pending = v.pending
  BY <1>1 DEF WalkFields
<1> QED
  BY <1>12, <1>13 DEF x

\* A frame of depth `depth` and context ctx that has written nothing.
Fresh(f, depth, ctx) ==
  FrameOK(f) /\ f.depth = depth /\ f.ctx = ctx /\ \A c \in Contract : DOMAIN f.journal[c] = {}

\* The pending frame is entered when the log is one deeper than its call.
LEMMA EnterFrames ==
  ASSUME NEW v, DOMAIN v = WalkFields, Frameful(v.frames), NEW i, NEW p, v.pending = {p}
  PROVE  LET x == Enter(v, i)
         IN  /\ DOMAIN x = WalkFields /\ x.pending = {}
             /\ trace[i].depth # p.depth + 1 => Keeps(v.frames, x.frames)
             /\ trace[i].depth = p.depth + 1 =>
                  \E f : x.frames = Append(v.frames, f) /\ Fresh(f, trace[i].depth, p.ctx)
<1> DEFINE x == Enter(v, i)
           q == CHOOSE r \in v.pending : TRUE
           first == IF q.nested THEN CHOOSE id \in q.program : TRUE ELSE Len(v.programs) + 1
           f == NewFrame(trace[i].depth, q, first)
           frames == IF trace[i].depth = q.depth + 1 THEN Append(v.frames, f)
                     ELSE Charge(v.frames, q.emits, i - q.start)
<1>1. v.pending # {} /\ q = p
  OBVIOUS
<1>2. x = [v EXCEPT !.pending = {}, !.frames = frames]
  BY <1>1 DEF Enter
<1> HIDE DEF q
<1>3. Fresh(f, trace[i].depth, p.ctx)
  <2> HIDE DEF first
  <2> QED
    BY <1>1 DEF Fresh, NewFrame, FrameOK, FrameFields, NoWrites, NoSlots
<1> HIDE DEF f
<1>4. Keeps(v.frames, Charge(v.frames, q.emits, i - q.start))
  BY ChargeKeeps
<1>5. DOMAIN x = WalkFields /\ x.pending = {} /\ x.frames = frames
  <2> HIDE DEF frames
  <2> QED
    BY <1>2 DEF WalkFields
<1> HIDE DEF x
<1> QED
  BY <1>1, <1>3, <1>4, <1>5 DEF x

LEMMA MirrorsFrameful ==
  ASSUME NEW frames, NEW opened, NEW st, Mirrors(frames, opened, st)
  PROVE  /\ Frameful(frames) /\ Len(frames) \in Nat /\ Len(frames) = Len(opened)
         /\ Last(frames).depth = Len(frames) /\ Last(frames).ctx = opened[Len(opened)].ctx
BY DEF Mirrors, Frameful, IsList, Last

LEMMA MirrorsKept ==
  ASSUME NEW frames, NEW opened, NEW st, Mirrors(frames, opened, st),
         NEW other, Keeps(frames, other)
  PROVE  Mirrors(other, opened, st)
BY MirrorsAlike DEF Keeps

\* When log i is about to be looked at, the walk mirrors it.
LEMMA SettledStep ==
  ASSUME NEW v, DOMAIN v = WalkFields, NEW log, NEW i,
         Mirrors(v.frames, log.stack, After(log)), PendingOK(v.pending, log),
         log.depth = Len(log.stack), trace[i].depth = Len(trace[i].stack),
         Len(trace[i].stack) \in Nat, Len(trace[i].stack) >= 1,
         Follows(log, trace[i].stack, trace[i].world.st, trace[i].top)
  PROVE  LET x == Leave(Enter(v, i), i)
         IN  /\ DOMAIN x = WalkFields /\ x.pending = {}
             /\ Mirrors(x.frames, trace[i].stack, trace[i].world.st)
<1> DEFINE n == Len(v.frames)
           e == Enter(v, i)
           x == Leave(e, i)
           stk == trace[i].stack
           st == trace[i].world.st
           G == DOMAIN x = WalkFields /\ x.pending = {} /\ Mirrors(x.frames, stk, st)
<1>1. /\ Frameful(v.frames) /\ n \in Nat /\ n >= 1 /\ n = Len(log.stack)
      /\ Last(v.frames).depth = n
  BY MirrorsFrameful DEF Mirrors
<1>2. CASE Stays(log, stk, st)
  <2>1. stk = log.stack /\ st = After(log) /\ trace[i].depth = n
    BY <1>1, <1>2 DEF Stays
  <2>2. DOMAIN e = WalkFields /\ e.pending = {} /\ Mirrors(e.frames, stk, st)
    <3>1. CASE v.pending = {}
      BY <2>1, <3>1 DEF Enter
    <3>2. CASE v.pending # {}
      <4>1. PICK p : v.pending = {p} /\ p.depth = log.depth
        BY <3>2 DEF PendingOK, Awaited
      <4>2. trace[i].depth # p.depth + 1
        BY <1>1, <2>1, <4>1
      <4>3. DOMAIN e = WalkFields /\ e.pending = {} /\ Keeps(v.frames, e.frames)
        BY <1>1, <4>1, <4>2, EnterFrames
      <4> HIDE DEF e
      <4>4. Mirrors(e.frames, stk, st)
        BY <2>1, <4>3, MirrorsKept
      <4> QED
        BY <4>3, <4>4
    <3> QED
      BY <3>1, <3>2
  <2> HIDE DEF e
  <2>3. ~Leaving(e, trace[i])
    BY <2>2, MirrorsFrameful DEF Leaving
  <2>4. x = e
    BY <2>3 DEF Leave
  <2> QED
    BY <2>2, <2>4 DEF e
<1>3. CASE Opened(log, stk, st)
  <2>1. /\ log.op \in Calls /\ ~log.error /\ st = log.world.st /\ Len(stk) = n + 1
        /\ Len(stk) = Len(log.stack) + 1
        /\ \A k \in 1 .. Len(log.stack) : stk[k] = log.stack[k]
        /\ stk[Len(stk)].ctx = OpenedCtx(log) /\ stk[Len(stk)].saved.st = st
    BY <1>1, <1>3 DEF Opened
  <2>2. After(log) = st
    BY <2>1 DEF After, Calls
  <2>3. PICK p : v.pending = {p} /\ p.depth = log.depth /\ p.ctx = OpenedCtx(log)
    BY <2>1 DEF PendingOK, Awaited
  <2>4. trace[i].depth = p.depth + 1
    BY <1>1, <2>1, <2>3
  <2>5. /\ DOMAIN e = WalkFields /\ e.pending = {}
        /\ \E f : e.frames = Append(v.frames, f) /\ Fresh(f, trace[i].depth, p.ctx)
    BY <1>1, <2>3, <2>4, EnterFrames
  <2> HIDE DEF e
  <2>6. PICK f : e.frames = Append(v.frames, f) /\ FrameOK(f) /\ f.depth = Len(stk)
                 /\ f.ctx = stk[Len(stk)].ctx /\ \A c \in Contract : DOMAIN f.journal[c] = {}
    BY <2>1, <2>3, <2>5 DEF Fresh
  <2>7. Mirrors(Append(v.frames, f), stk, st)
    BY <2>1, <2>2, <2>6, MirrorsOpened
  <2>8. Mirrors(e.frames, stk, st)
    BY <2>6, <2>7
  <2>9. ~Leaving(e, trace[i])
    BY <2>8, MirrorsFrameful DEF Leaving
  <2>10. x = e
    BY <2>9 DEF Leave
  <2> QED
    BY <2>5, <2>8, <2>10 DEF e
<1>4. CASE Closed(log, stk, st, trace[i].top)
  <2>1. /\ n = Len(stk) + 1 /\ n >= 2 /\ Len(log.stack) = Len(stk) + 1
        /\ \A k \in 1 .. Len(stk) : stk[k] = log.stack[k]
        /\ log.op \notin Calls \cup {"SSTORE"} \/ log.error
        /\ st = IF trace[i].top = 0 THEN log.stack[Len(log.stack)].saved.st ELSE log.world.st
    BY <1>1, <1>4 DEF Closed, Last
  <2>2. After(log) = log.world.st
    BY <2>1 DEF After
  <2>3. v.pending = {}
    BY <2>1 DEF PendingOK
  <2>4. e = v
    BY <2>3 DEF Enter
  <2>5. Leaving(v, trace[i])
    BY <1>1, <2>1 DEF Leaving
  <2>6. CASE trace[i].top = 0
    <3> DEFINE y == LeaveReverted(v, i)
    <3>1. x = y
      BY <2>4, <2>5, <2>6 DEF Leave
    <3>2. DOMAIN y = WalkFields /\ y.pending = {} /\ Keeps(Front(v.frames), y.frames)
      BY <1>1, <2>1, <2>3, RevertedFrames
    <3> HIDE DEF y
    <3>3. /\ IsList(y.frames) /\ Len(y.frames) = n - 1
          /\ \A k \in 1 .. (n - 1) : Alike(v.frames[k], y.frames[k])
      <4>1. /\ Len(Front(v.frames)) = n - 1
            /\ \A k \in 1 .. (n - 1) : Front(v.frames)[k] = v.frames[k]
        BY <1>1, <2>1, FrontFrameful
      <4> QED
        BY <3>2, <4>1 DEF Keeps
    <3>4. Mirrors(y.frames, stk, log.stack[Len(log.stack)].saved.st)
      BY <1>1, <2>1, <3>3, MirrorsReverted
    <3> QED
      BY <2>1, <2>6, <3>1, <3>2, <3>4
  <2>7. CASE trace[i].top # 0
    <3> DEFINE y == IF Last(v.frames).nested THEN LeaveNested(v, i) ELSE LeavePlain(v, i)
    <3>1. x = y
      BY <2>4, <2>5, <2>7 DEF Leave
    <3>2. DOMAIN y = WalkFields /\ y.pending = {} /\ Committed(v.frames, y.frames)
      <4>1. CASE Last(v.frames).nested
        BY <1>1, <2>1, <2>3, <4>1, NestedFrames
      <4>2. CASE ~Last(v.frames).nested
        BY <1>1, <2>1, <2>3, <4>2, PlainFrames
      <4> QED
        BY <4>1, <4>2
    <3> HIDE DEF y
    <3>3. Mirrors(y.frames, stk, After(log))
      BY <1>1, <2>1, <3>2, MirrorsCommitted
    <3> QED
      BY <2>1, <2>2, <2>7, <3>1, <3>2, <3>3
  <2> QED
    BY <2>6, <2>7
<1> QED
  BY <1>2, <1>3, <1>4 DEF Follows

-----------------------------------------------------------------------------
(* The walk keeps the mirror. *)

\* At the first log the walk has the root frame and nothing written.
LEMMA MirrorsStart ==
  ASSUME NEW opened, FirstFrame(opened)
  PROVE  Mirrors(WalkStart.frames, opened, Genesis.st)
<1> DEFINE f == NewFrame(1, Pending(0, Root, {1}, NoSlots, "none", FALSE, 0), 1)
           frames == <<f>>
<1>1. WalkStart.frames = frames
  BY DEF WalkStart
<1>2. FrameOK(f) /\ f.depth = 1 /\ f.ctx = Root /\ \A c \in Contract : DOMAIN f.journal[c] = {}
  BY DEF NewFrame, Pending, FrameOK, FrameFields, NoWrites, NoSlots
<1> HIDE DEF f
<1>3. Len(frames) = 1 /\ frames[1] = f /\ IsList(frames)
  BY DEF IsList
<1>4. \A c \in Contract, s \in Slot : Genesis.st[c][s] = 0
  BY DEF Genesis
<1> HIDE DEF frames
<1>5. \A c \in Contract, s \in Slot : Shows(frames, 1, c, s, 0)
  BY <1>2, <1>3 DEF Shows
<1> QED
  BY <1>1, <1>2, <1>3, <1>4, <1>5 DEF Mirrors, FirstFrame

\* The log the walk is at, and what it follows.
LEMMA AtLog ==
  ASSUME TraceInv, WalkInv, pos <= Len(trace)
  PROVE  /\ pos \in DOMAIN trace /\ trace[pos] \in Log
         /\ trace[pos].depth = Len(trace[pos].stack) /\ Len(trace[pos].stack) \in Nat
         /\ Len(trace[pos].stack) >= 1 /\ Addressed(trace[pos])
         /\ pos = 1 => FirstFrame(trace[1].stack) /\ trace[1].world.st = Genesis.st
         /\ pos > 1 =>
              /\ trace[pos - 1].depth = Len(trace[pos - 1].stack)
              /\ Follows(trace[pos - 1], trace[pos].stack, trace[pos].world.st, trace[pos].top)
<1> HIDE DEF Log
<1>1. trace \in Seq(Log) /\ Len(trace) \in Nat /\ DOMAIN trace = 1 .. Len(trace) /\ pos \in Nat /\ pos >= 1
  BY LenProperties DEF TraceInv, EvmTypeOK, WalkInv
<1>2. pos \in DOMAIN trace /\ trace[pos] \in Log /\ trace # <<>>
  BY <1>1, ElementOfSeq
<1>3. Len(trace[pos].stack) \in Nat
  <2>1. trace[pos].stack \in Seq(OpenedFrame)
    BY <1>2 DEF Log
  <2> QED
    BY <2>1, LenProperties
<1>4. ASSUME pos > 1
      PROVE  /\ trace[pos - 1].depth = Len(trace[pos - 1].stack)
             /\ Follows(trace[pos - 1], trace[pos].stack, trace[pos].world.st, trace[pos].top)
  <2> DEFINE q == pos - 1
  <2>1. q \in 1 .. (Len(trace) - 1) /\ q \in DOMAIN trace /\ q + 1 = pos
    BY <1>1, <1>4
  <2> HIDE DEF q
  <2>2. /\ trace[q].depth = Len(trace[q].stack)
        /\ Follows(trace[q], trace[q + 1].stack, trace[q + 1].world.st, trace[q + 1].top)
    BY <2>1 DEF TraceInv
  <2> QED
    BY <2>1, <2>2 DEF q
<1> QED
  BY <1>2, <1>3, <1>4 DEF TraceInv

LEMMA SettledMirrors ==
  ASSUME TraceInv, WalkInv, phase = "walk", pos <= Len(trace)
  PROVE  /\ DOMAIN Settled = WalkFields /\ Settled.pending = {}
         /\ Mirrors(Settled.frames, trace[pos].stack, trace[pos].world.st)
<1>0. DOMAIN w = WalkFields /\ pos \in Nat /\ pos >= 1
  BY DEF WalkInv, WalkFields
<1>1. CASE pos = 1
  <2>1. w.frames = WalkStart.frames /\ w.pending = {}
    BY <1>1 DEF WalkInv
  <2>2. Mirrors(w.frames, trace[pos].stack, trace[pos].world.st)
    BY <1>1, <2>1, AtLog, MirrorsStart
  <2>3. Enter(w, pos) = w
    BY <2>1 DEF Enter
  <2>4. ~Leaving(w, trace[pos])
    BY <2>2, AtLog, MirrorsFrameful DEF Leaving
  <2>5. Settled = w
    BY <2>3, <2>4 DEF Settled, Leave
  <2> QED
    BY <1>0, <2>1, <2>2, <2>5
<1>2. CASE pos > 1
  <2>1. /\ Mirrors(w.frames, trace[pos - 1].stack, After(trace[pos - 1]))
        /\ PendingOK(w.pending, trace[pos - 1])
    BY <1>2 DEF WalkInv
  <2>2. LET x == Leave(Enter(w, pos), pos)
        IN  /\ DOMAIN x = WalkFields /\ x.pending = {}
            /\ Mirrors(x.frames, trace[pos].stack, trace[pos].world.st)
    BY <1>0, <1>2, <2>1, AtLog, SettledStep
  <2> QED
    BY <2>2 DEF Settled
<1> QED
  BY <1>0, <1>1, <1>2

LEMMA BecomesStep ==
  ASSUME TraceInv, WalkInv, phase = "walk", pos <= Len(trace), NEW v, DOMAIN v = WalkFields,
         Mirrors(v.frames, trace[pos].stack, After(trace[pos])), PendingOK(v.pending, trace[pos]),
         Becomes(v)
  PROVE  WalkInv'
<1>1. /\ w' = v /\ pos' = pos + 1 /\ phase' = phase /\ halted' = halted /\ trace' = trace
      /\ pos \in Nat /\ pos >= 1 /\ halted /\ Len(trace) \in Nat
  BY LenProperties DEF Becomes, evmVars, WalkInv, TraceInv, EvmTypeOK
<1>2. pos' \in Nat \ {0} /\ pos' # 1 /\ pos' <= Len(trace') + 1 /\ pos' - 1 = pos
  BY <1>1
<1>3. DOMAIN w' = {"frames", "programs", "pending"}
  BY <1>1 DEF WalkFields
<1>4. Mirrors(w'.frames, trace'[pos' - 1].stack, After(trace'[pos' - 1])) /\ PendingOK(w'.pending, trace'[pos' - 1])
  BY <1>1, <1>2
<1> QED
  BY <1>1, <1>2, <1>3, <1>4 DEF WalkInv

\* An instruction that writes no deployed contract's storage and calls nobody.
LEMMA QuietWalk ==
  ASSUME TraceInv, WalkInv, phase = "walk", pos <= Len(trace), NEW v, WalkKeeps(Settled, v),
         v.pending = {}, After(trace[pos]) = trace[pos].world.st,
         trace[pos].op \notin Calls \/ trace[pos].error, Becomes(v)
  PROVE  WalkInv'
<1>1. Mirrors(v.frames, trace[pos].stack, After(trace[pos]))
  BY SettledMirrors, MirrorsKept DEF WalkKeeps
<1>2. PendingOK(v.pending, trace[pos])
  BY DEF PendingOK
<1> QED
  BY <1>1, <1>2, BecomesStep DEF WalkKeeps

\* A call: the frame it may open is pending.
LEMMA CallWalk ==
  ASSUME TraceInv, WalkInv, phase = "walk", pos <= Len(trace), NEW v, WalkKeeps(Settled, v),
         trace[pos].op \in Calls, ~trace[pos].error,
         NEW p, Awaited(p, trace[pos]), Becomes([v EXCEPT !.pending = {p}])
  PROVE  WalkInv'
<1> DEFINE x == [v EXCEPT !.pending = {p}]
<1>1. DOMAIN x = WalkFields /\ x.frames = v.frames /\ x.pending = {p}
  BY DEF WalkKeeps, WalkFields
<1> HIDE DEF x
<1>3. PendingOK(x.pending, trace[pos])
  BY <1>1 DEF PendingOK
<1>4. After(trace[pos]) = trace[pos].world.st
  BY DEF After, Calls
<1>5. Mirrors(x.frames, trace[pos].stack, After(trace[pos]))
  BY <1>1, <1>4, SettledMirrors, MirrorsKept DEF WalkKeeps
<1> QED
  BY <1>1, <1>3, <1>5, BecomesStep DEF x

\* An SSTORE of a deployed contract.
LEMMA StoreWalk ==
  ASSUME TraceInv, WalkInv, WalkStore
  PROVE  WalkInv'
<1> DEFINE log == trace[pos]
           frames == Settled.frames
           n == Len(frames)
           a == Cur.ctx
           new == [s \in {log.slot} |-> log.value]
           journal == [frames[n].journal EXCEPT ![a] = Extend(@, new)]
           g == [frames[n] EXCEPT !.journal = journal]
           v == [Settled EXCEPT !.frames[n].journal[a] = Extend(@, new)]
           other == v.frames
<1>1. /\ phase = "walk" /\ pos <= Len(trace) /\ log.op = "SSTORE" /\ ~log.error
      /\ Cur.ctx # NoAddress /\ Becomes(v)
  BY DEF WalkStore, Executed, At
<1>2. /\ DOMAIN Settled = WalkFields /\ Settled.pending = {}
      /\ Mirrors(frames, log.stack, log.world.st)
  BY <1>1, SettledMirrors
<1>3. /\ Frameful(frames) /\ n \in Nat /\ n >= 1 /\ DOMAIN frames = 1 .. n
      /\ \A k \in 1 .. n : FrameOK(frames[k])
      /\ a = Last(log.stack).ctx
  BY <1>2, MirrorsFrameful, ListSeq DEF Frameful, Cur, Last
<1>4. a \in Contract /\ log.world.st \in Storage
  <2>1. log \in Log
    BY <1>1, AtLog
  <2>2. log.stack \in Seq(OpenedFrame) /\ log.world \in World
    BY <2>1 DEF Log
  <2>3. Last(log.stack) \in OpenedFrame
    <3> HIDE DEF OpenedFrame
    <3> QED
      BY <1>1, <2>2, AtLog, ElementOfSeq DEF Last
  <2> QED
    BY <1>1, <1>3, <2>2, <2>3 DEF OpenedFrame, Ctx, World
<1>5. After(log) = [log.world.st EXCEPT ![a][log.slot] = log.value]
  BY <1>1, <1>3 DEF After
<1> HIDE DEF new, a
<1>6. DOMAIN v = WalkFields /\ v.pending = {}
  BY <1>2 DEF WalkFields
<1>7. other = [frames EXCEPT ![n] = g]
  BY <1>2, <1>3 DEF WalkFields
<1>8. /\ DOMAIN journal = Contract
      /\ \A c \in Contract :
           journal[c] = IF c = a THEN Extend(frames[n].journal[c], new) ELSE frames[n].journal[c]
  BY <1>3, <1>4 DEF FrameOK
<1> HIDE DEF journal, v, other
<1>9. /\ DOMAIN g = FrameFields /\ g.journal = journal
      /\ g.depth = frames[n].depth /\ g.ctx = frames[n].ctx
  BY <1>3 DEF FrameOK, FrameFields
<1> HIDE DEF g
<1>10. /\ IsList(other) /\ Len(other) = n /\ other[n] = g
       /\ \A k \in 1 .. (n - 1) : other[k] = frames[k]
  <2> DEFINE top == [frames EXCEPT ![n] = g]
  <2>1. /\ IsList(top) /\ Len(top) = n /\ top[n] = g
        /\ \A k \in 1 .. (n - 1) : top[k] = frames[k]
    BY <1>3, TopReplaced
  <2> HIDE DEF top
  <2> QED
    BY <1>7, <2>1 DEF top
<1> HIDE DEF frames, n
<1>11. Mirrors(other, log.stack, [log.world.st EXCEPT ![a][log.slot] = log.value])
  <2>1. FrameOK(other[n]) /\ \A k \in 1 .. (n - 1) : Alike(frames[k], other[k])
    BY <1>3, <1>8, <1>9, <1>10 DEF FrameOK, Alike
  <2>2. \A c \in Contract : other[n].journal[c] =
          IF c = a THEN Extend(frames[n].journal[c], new) ELSE frames[n].journal[c]
    BY <1>8, <1>9, <1>10
  <2>3. Stored(frames, other, a, [s \in {log.slot} |-> log.value])
    BY <1>9, <1>10, <2>1, <2>2 DEF Stored, n, new
  <2> QED
    BY <1>2, <1>4, <2>3, MirrorsStored
<1>12. PendingOK(v.pending, log)
  BY <1>1, <1>6 DEF PendingOK, Calls
<1> QED
  BY <1>1, <1>5, <1>6, <1>11, <1>12, BecomesStep DEF other

LEMMA WalkStarts == Init => WalkInv
BY DEF Init, WalkInv, WalkStart

LEMMA WalkActions ==
  ASSUME TraceInv, WalkInv, Walk
  PROVE  WalkInv'
<1> DEFINE log == trace[pos]
<1>0. ASSUME phase = "walk", pos <= Len(trace)
      PROVE  /\ DOMAIN Settled = WalkFields /\ Settled.pending = {} /\ Frameful(Settled.frames)
             /\ WalkKeeps(Settled, Settled) /\ Cur.ctx = Last(log.stack).ctx
             /\ \A u : WalkKeeps(Settled, PushOut(Settled, u)) /\ PushOut(Settled, u).pending = {}
             /\ \A u : WalkKeeps(Settled, PushOut(flush_slice(Settled), u))
  <2>1. /\ DOMAIN Settled = WalkFields /\ Settled.pending = {} /\ Frameful(Settled.frames)
        /\ Cur.ctx = Last(log.stack).ctx
    BY <1>0, SettledMirrors, MirrorsFrameful DEF Cur, Last
  <2>2. WalkKeeps(Settled, Settled)
    BY <2>1, KeepsSame DEF WalkKeeps
  <2>3. \A u : WalkKeeps(Settled, PushOut(Settled, u)) /\ PushOut(Settled, u).pending = {}
    BY <2>1, PushKeeps
  <2>4. ASSUME NEW u PROVE WalkKeeps(Settled, PushOut(flush_slice(Settled), u))
    <3> DEFINE f == flush_slice(Settled)
               x == PushOut(f, u)
    <3>1. DOMAIN f = WalkFields /\ Keeps(Settled.frames, f.frames)
      BY <2>1, FlushKeeps DEF WalkKeeps
    <3> HIDE DEF f
    <3>2. Frameful(f.frames)
      BY <2>1, <3>1, KeepsFrameful
    <3>3. DOMAIN x = WalkFields /\ Keeps(f.frames, x.frames)
      BY <3>1, <3>2, PushKeeps DEF WalkKeeps
    <3> HIDE DEF x
    <3> QED
      BY <3>1, <3>3, KeepsTrans DEF WalkKeeps, f, x
  <2> QED
    BY <2>1, <2>2, <2>3, <2>4
<1>1. CASE WalkErrored
  <2>1. phase = "walk" /\ pos <= Len(trace) /\ log.error /\ Becomes(Settled)
    BY <1>1 DEF WalkErrored, At
  <2>2. After(log) = log.world.st
    BY <2>1 DEF After
  <2> QED
    BY <1>0, <2>1, <2>2, QuietWalk
<1>2. CASE WalkNothing
  <2>1. /\ phase = "walk" /\ pos <= Len(trace) /\ Becomes(Settled)
        /\ log.op \in {"STOP", "REVERT", "LOG"} \/ (log.op = "SSTORE" /\ Cur.ctx = NoAddress)
    BY <1>2 DEF WalkNothing, Executed, At
  <2>2. After(log) = log.world.st /\ log.op \notin Calls
    BY <1>0, <2>1 DEF After, Calls
  <2> QED
    BY <1>0, <2>1, <2>2, QuietWalk
<1>3. CASE WalkStore
  BY <1>3, StoreWalk
<1>4. CASE WalkUnsupported
  <2>1. phase = "walk" /\ pos <= Len(trace) /\ log.op = "TSTORE" /\ Becomes(Settled)
    BY <1>4 DEF WalkUnsupported, At
  <2>2. After(log) = log.world.st /\ log.op \notin Calls
    BY <2>1 DEF After, Calls
  <2> QED
    BY <1>0, <2>1, <2>2, QuietWalk
<1>5. CASE WalkLog
  <2>1. /\ phase = "walk" /\ pos <= Len(trace) /\ log.op = "LOG"
        /\ Becomes(PushOut(Settled, UpdateAt("LOG", pos)))
    BY <1>5 DEF WalkLog, Executed, At
  <2>2. After(log) = log.world.st /\ log.op \notin Calls
    BY <2>1 DEF After, Calls
  <2> DEFINE v == PushOut(Settled, UpdateAt("LOG", pos))
  <2>3. WalkKeeps(Settled, v) /\ v.pending = {}
    BY <1>0, <2>1
  <2> HIDE DEF v
  <2>4. Becomes(v)
    BY <2>1 DEF v
  <2> QED
    BY <2>1, <2>2, <2>3, <2>4, QuietWalk
<1>6. CASE WalkDelegate
  <2> DEFINE p == Pending(log.depth, Cur.ctx, Cur.program, IF Emitting THEN Cur.view ELSE NoSlots,
                          "none", FALSE, pos)
  <2>1. /\ phase = "walk" /\ pos <= Len(trace) /\ log.op = "DELEGATECALL" /\ ~log.error
        /\ Becomes([Settled EXCEPT !.pending = {p}])
    BY <1>6 DEF WalkDelegate, Executed, At, Await
  <2>2. log.op \in Calls /\ Awaited(p, log)
    BY <1>0, <2>1 DEF OpenedCtx, Calls, Awaited, Pending
  <2> HIDE DEF p
  <2> QED
    BY <1>0, <2>1, <2>2, CallWalk
<1>7. CASE WalkStatic \/ WalkNative
  <2> DEFINE p == Pending(log.depth, log.to, {}, NoSlots, "none", FALSE, pos)
  <2>1. /\ phase = "walk" /\ pos <= Len(trace) /\ log.op \in Calls \ {"DELEGATECALL"} /\ ~log.error
        /\ Becomes([Settled EXCEPT !.pending = {p}])
    BY <1>7 DEF WalkStatic, WalkNative, Executed, At, Calls, Await
  <2>2. Awaited(p, log)
    BY <2>1 DEF OpenedCtx, Awaited, Pending
  <2> HIDE DEF p
  <2> QED
    BY <1>0, <2>1, <2>2, CallWalk
<1>8. CASE WalkCreate
  <2> DEFINE v == PushOut(flush_slice(Settled), UpdateAt("CREATE", pos))
             p == Pending(log.depth, NoAddress, {}, NoSlots, "CREATE", FALSE, pos)
  <2>1. /\ phase = "walk" /\ pos <= Len(trace) /\ log.op = "CREATE" /\ ~log.error
        /\ Becomes([v EXCEPT !.pending = {p}])
    BY <1>8 DEF WalkCreate, Executed, At, Await
  <2>2. log.op \in Calls /\ Awaited(p, log)
    BY <2>1, AtLog DEF OpenedCtx, Calls, Addressed, Awaited, Pending
  <2>3. WalkKeeps(Settled, v)
    BY <1>0, <2>1
  <2> HIDE DEF v, p
  <2> QED
    BY <2>1, <2>2, <2>3, CallWalk
<1>9. CASE WalkCall
  <2> DEFINE v == PushOut(flush_slice(Settled), UpdateAt("CALL", pos))
             p == Pending(log.depth, log.to, {}, NoSlots, "CALL", FALSE, pos)
  <2>1. /\ phase = "walk" /\ pos <= Len(trace) /\ log.op = "CALL" /\ ~log.error
        /\ Becomes([v EXCEPT !.pending = {p}])
    BY <1>9 DEF WalkCall, Executed, At, Await
  <2>2. log.op \in Calls /\ Awaited(p, log)
    BY <2>1 DEF OpenedCtx, Calls, Awaited, Pending
  <2>3. WalkKeeps(Settled, v)
    BY <1>0, <2>1
  <2> HIDE DEF v, p
  <2> QED
    BY <2>1, <2>2, <2>3, CallWalk
<1>10. CASE WalkNested
  <2> DEFINE v == PushOut(flush_slice(Settled), UpdateAt("NESTED", pos))
             program == NewProgram(log.to, scan.candidates[pos].index, ProgramOf(Cur), pos)
             x == [v EXCEPT !.programs = AddProgram(@, program)]
             p == Pending(log.depth, log.to, {Len(v.programs) + 1}, NoSlots, "none", TRUE, pos)
  <2>1. /\ phase = "walk" /\ pos <= Len(trace) /\ log.op = "CALL" /\ ~log.error
        /\ Becomes([x EXCEPT !.pending = {p}])
    BY <1>10 DEF WalkNested, Executed, At, Await
  <2>2. log.op \in Calls /\ Awaited(p, log)
    BY <2>1 DEF OpenedCtx, Calls, Awaited, Pending
  <2> HIDE DEF program, x, p
  <2>3. WalkKeeps(Settled, v)
    BY <1>0, <2>1
  <2> HIDE DEF v
  <2>4. WalkKeeps(Settled, x)
    BY <2>3 DEF WalkKeeps, WalkFields, x
  <2> QED
    BY <2>1, <2>2, <2>4, CallWalk
<1>11. CASE WalkFails
  BY <1>11 DEF WalkFails, WalkInv, evmVars
<1> QED
  BY <1>1, <1>2, <1>3, <1>4, <1>5, <1>6, <1>7, <1>8, <1>9, <1>10, <1>11 DEF Walk

\* Before the walk only the trace grows; after it the walk is over.
LEMMA WalkStep == TraceInv /\ WalkInv /\ [Next]_vars => WalkInv'
<1> SUFFICES ASSUME TraceInv, WalkInv, [Next]_vars PROVE WalkInv'
  OBVIOUS
<1>1. CASE Execute /\ UNCHANGED walkVars
  <2>1. phase = "trace"
    BY <1>1 DEF Execute, Sstore, Increment, Emit, Tstore, OpenFrame, Open, Inline, Revert, Halt,
       Return, Finish, Executes, WalkInv
  <2> QED
    BY <1>1, <2>1 DEF WalkInv, walkVars
<1>2. CASE Scan
  <2> DEFINE v == [w EXCEPT !.programs[1].index = scan'.root_index]
  <2>1. /\ phase = "trace" /\ phase' = "walk" /\ halted /\ halted' = halted /\ trace' = trace
        /\ pos' = pos /\ w' = v
    BY <1>2 DEF Scan, evmVars
  <2>2. pos = 1 /\ DOMAIN w = WalkFields /\ w.frames = WalkStart.frames /\ w.pending = {}
    BY <2>1 DEF WalkInv, WalkFields
  <2>3. DOMAIN v = WalkFields /\ v.frames = w.frames /\ v.pending = w.pending
    BY <2>2 DEF WalkFields
  <2>4. Len(trace) \in Nat
    BY LenProperties DEF TraceInv, EvmTypeOK
  <2> HIDE DEF v
  <2> QED
    BY <2>1, <2>2, <2>3, <2>4 DEF WalkInv, WalkFields
<1>3. CASE Walk
  BY <1>3, WalkActions
<1>4. CASE Split
  BY <1>4 DEF Split, WalkInv, evmVars
<1>5. CASE UNCHANGED <<evmVars, walkVars>>
  BY <1>5 DEF WalkInv, evmVars, walkVars
<1> QED
  BY <1>1, <1>2, <1>3, <1>4, <1>5 DEF Next, vars, Apply, Done

\* The journals of the open frames, merged bottom-up over the initial storage,
\* are every contract's storage at the log split_frame_tree is at, for every
\* trace, of any length and call depth: through calls that return, revert, fail
\* or open no frame, delegated frames, nested frames and initcode.
THEOREM ImageNative == Spec => []ImageIsNative
<1>1. Init => TraceInv /\ WalkInv
  BY TraceStarts, WalkStarts
<1>2. TraceInv /\ WalkInv /\ [Next]_vars => (TraceInv /\ WalkInv)'
  BY TraceStep, WalkStep
<1>3. TraceInv /\ WalkInv => ImageIsNative
  <2> SUFFICES ASSUME TraceInv, WalkInv, phase = "walk", pos <= Len(trace),
                      NEW c \in Contract, NEW s \in Slot
               PROVE  LET image == visible_image(Settled.frames, c)
                      IN  trace[pos].world.st[c][s] = IF s \in DOMAIN image THEN image[s] ELSE 0
    BY DEF ImageIsNative
  <2>1. Mirrors(Settled.frames, trace[pos].stack, trace[pos].world.st)
    BY SettledMirrors
  <2>2. /\ IsList(Settled.frames)
        /\ Shows(Settled.frames, Len(Settled.frames), c, s, trace[pos].world.st[c][s])
    BY <2>1 DEF Mirrors
  <2> QED
    BY <2>2, ImageShown
<1> QED
  BY <1>1, <1>2, <1>3, PTL DEF Spec

-----------------------------------------------------------------------------
(* scan_candidates.  The provers have no induction over data: what the fold *)
(* computes is shown by a least counterexample.                             *)

\* g tabulates the scan of the logs at the positions of every subset of S.
IsScan(g, logs, S) ==
  g = [s \in SUBSET S |-> IF s = {} THEN ScanStart ELSE ScanLog(logs, g[s \ {Max(s)}], Max(s))]

LEMMA MaxTop ==
  ASSUME NEW m \in Nat, NEW s \in SUBSET (1 .. m), m \in s
  PROVE  Max(s) = m
<1>1. \A y \in s : m >= y /\ y \in Nat
  OBVIOUS
<1>2. Max(s) \in s /\ \A y \in s : Max(s) >= y
  BY <1>1 DEF Max
<1> DEFINE x == Max(s)
<1> HIDE DEF x
<1>3. x \in Nat /\ x >= m /\ m >= x
  BY <1>1, <1>2 DEF x
<1>4. x = m
  BY <1>3
<1> QED
  BY <1>4 DEF x

LEMMA ScanExtends ==
  ASSUME NEW logs, NEW m \in Nat, NEW g, IsScan(g, logs, 1 .. m)
  PROVE  \E h : IsScan(h, logs, 1 .. (m + 1))
<1> DEFINE S == 1 .. (m + 1)
           h == [s \in SUBSET S |-> IF m + 1 \in s THEN ScanLog(logs, g[s \ {m + 1}], m + 1) ELSE g[s]]
           V(f, s) == IF s = {} THEN ScanStart ELSE ScanLog(logs, f[s \ {Max(s)}], Max(s))
<1>1. ASSUME NEW s \in SUBSET S, m + 1 \notin s PROVE s \in SUBSET (1 .. m)
  <2>1. ASSUME NEW x \in s PROVE x \in 1 .. m
    <3>1. x \in 1 .. (m + 1) /\ x # m + 1
      BY <1>1
    <3> QED
      BY <3>1
  <2> QED
    BY <2>1
<1>2. ASSUME NEW s \in SUBSET (1 .. m) PROVE g[s] = V(g, s)
  BY DEF IsScan
<1>3. ASSUME NEW s \in SUBSET S PROVE h[s] = V(h, s)
  <2>1. CASE m + 1 \in s
    <3>1. Max(s) = m + 1 /\ s # {}
      BY <2>1, MaxTop
    <3>2. s \ {m + 1} \in SUBSET S /\ h[s] = ScanLog(logs, g[s \ {m + 1}], m + 1)
      BY <2>1
    <3>3. h[s \ {m + 1}] = g[s \ {m + 1}]
      BY <3>2
    <3> HIDE DEF h
    <3> QED
      BY <3>1, <3>2, <3>3
  <2>2. CASE m + 1 \notin s
    <3>1. s \in SUBSET (1 .. m) /\ h[s] = g[s]
      BY <1>1, <2>2
    <3>2. g[s] = V(g, s)
      BY <1>2, <3>1
    <3>3. s \ {Max(s)} \in SUBSET S /\ m + 1 \notin s \ {Max(s)}
      BY <2>2
    <3>4. h[s \ {Max(s)}] = g[s \ {Max(s)}]
      BY <3>3
    <3> HIDE DEF h
    <3> QED
      BY <3>1, <3>2, <3>4
  <2> QED
    BY <2>1, <2>2
<1>4. h = [s \in SUBSET S |-> h[s]]
  OBVIOUS
<1> HIDE DEF h
<1>5. h = [s \in SUBSET S |-> V(h, s)]
  BY <1>3, <1>4
<1>6. IsScan(h, logs, S)
  BY <1>5 DEF IsScan
<1> QED
  BY <1>6

LEMMA ScanExists ==
  ASSUME NEW logs, NEW n \in Nat
  PROVE  \E g : IsScan(g, logs, 1 .. n)
<1> DEFINE P(m) == \E g : IsScan(g, logs, 1 .. m)
           C == {m \in Nat : ~P(m)}
<1> HIDE DEF P
<1> SUFFICES ASSUME C # {} PROVE FALSE
  BY DEF P
<1>1. PICK m \in C : \A k \in C : m <= k
  BY MinOfNats
<1>2. P(0)
  <2> DEFINE g == [s \in SUBSET (1 .. 0) |-> ScanStart]
  <2>1. \A s \in SUBSET (1 .. 0) : s = {}
    OBVIOUS
  <2>2. IsScan(g, logs, 1 .. 0)
    BY <2>1 DEF IsScan
  <2> QED
    BY <2>2 DEF P
<1>3. m # 0 /\ m - 1 \in Nat /\ P(m - 1)
  BY <1>1, <1>2
<1>4. P((m - 1) + 1)
  BY <1>3, ScanExtends DEF P
<1>5. (m - 1) + 1 = m
  BY <1>3
<1> QED
  BY <1>1, <1>4, <1>5

\* What the scan has after the first m logs.
Scanned(logs, n, m) == (CHOOSE g : IsScan(g, logs, 1 .. n))[1 .. m]

LEMMA ScannedSteps ==
  ASSUME NEW logs, NEW n \in Nat
  PROVE  /\ Scanned(logs, n, 0) = ScanStart
         /\ \A m \in 1 .. n : Scanned(logs, n, m) = ScanLog(logs, Scanned(logs, n, m - 1), m)
<1> DEFINE g == CHOOSE f : IsScan(f, logs, 1 .. n)
<1>1. IsScan(g, logs, 1 .. n)
  BY ScanExists
<1>2. \A m \in 0 .. n : Scanned(logs, n, m) = g[1 .. m]
  BY DEF Scanned
<1> HIDE DEF g
<1>3. g[1 .. 0] = ScanStart
  <2>1. 1 .. 0 \in SUBSET (1 .. n) /\ 1 .. 0 = {}
    OBVIOUS
  <2> QED
    BY <1>1, <2>1 DEF IsScan
<1>4. ASSUME NEW m \in 1 .. n PROVE g[1 .. m] = ScanLog(logs, g[1 .. (m - 1)], m)
  <2> DEFINE s == 1 .. m
  <2>1. s \in SUBSET (1 .. n) /\ m \in s /\ s # {} /\ s \ {m} = 1 .. (m - 1) /\ m \in Nat /\ s \in SUBSET (1 .. m)
    OBVIOUS
  <2>2. Max(s) = m
    BY <2>1, MaxTop
  <2> HIDE DEF s
  <2>3. g[s] = ScanLog(logs, g[s \ {Max(s)}], Max(s))
    BY <1>1, <2>1 DEF IsScan
  <2> QED
    BY <2>1, <2>2, <2>3 DEF s
<1> QED
  BY <1>2, <1>3, <1>4

LEMMA ScanIsScanned ==
  ASSUME NEW logs, Len(logs) \in Nat
  PROVE  scan_candidates(logs) = Scanned(logs, Len(logs), Len(logs))
<1> DEFINE n == Len(logs)
           seq == [i \in 1 .. n |-> i]
           IsFold(g) == g = [s \in SUBSET DOMAIN seq |->
             IF s = {} THEN ScanStart
             ELSE ScanLog(logs, g[s \ {Max(s)}], seq[Max(s)])]
<1>1. scan_candidates(logs) = (CHOOSE g : IsFold(g))[DOMAIN seq]
  BY DEF scan_candidates, FoldLeft, MapThenFoldSet
<1>2. DOMAIN seq = 1 .. n
  OBVIOUS
<1>3. ASSUME NEW s \in SUBSET (1 .. n), s # {} PROVE seq[Max(s)] = Max(s)
  <2>1. s \in SUBSET (0 .. n)
    OBVIOUS
  <2>2. Max(s) \in s
    BY <1>3, <2>1, MaxOfNats
  <2> QED
    BY <2>2
<1> HIDE DEF seq
<1>4. \A g : IsScan(g, logs, 1 .. n) <=> IsFold(g)
  <2> DEFINE V(g, s) == IF s = {} THEN ScanStart ELSE ScanLog(logs, g[s \ {Max(s)}], Max(s))
             W(g, s) == IF s = {} THEN ScanStart ELSE ScanLog(logs, g[s \ {Max(s)}], seq[Max(s)])
  <2>1. ASSUME NEW g, NEW s \in SUBSET (1 .. n) PROVE V(g, s) = W(g, s)
    BY <1>3
  <2>2. \A g : IsScan(g, logs, 1 .. n) <=> g = [s \in SUBSET (1 .. n) |-> V(g, s)]
    BY DEF IsScan
  <2>3. \A g : IsFold(g) <=> g = [s \in SUBSET (1 .. n) |-> W(g, s)]
    BY <1>2
  <2> HIDE DEF V, W, IsFold
  <2>4. ASSUME NEW g PROVE [s \in SUBSET (1 .. n) |-> V(g, s)] = [s \in SUBSET (1 .. n) |-> W(g, s)]
    BY <2>1
  <2>5. ASSUME NEW g PROVE IsScan(g, logs, 1 .. n) <=> IsFold(g)
    BY <2>2, <2>3, <2>4, Zenon
  <2> QED
    BY <2>5
<1> HIDE DEF IsFold
<1>5. (CHOOSE g : IsFold(g)) = (CHOOSE g : IsScan(g, logs, 1 .. n))
  BY <1>4
<1> QED
  BY <1>1, <1>2, <1>5 DEF Scanned

-----------------------------------------------------------------------------
(* A candidate that the scan has kept opens a frame. *)

ScanFields == {"frames", "pending", "candidates", "root_index"}

\* The call at log i opens a frame: the next log is one deeper.
Deeper(logs, i) == i + 1 <= Len(logs) /\ logs[i + 1].depth = logs[i].depth + 1

\* After m logs: every candidate opens a frame, but perhaps the one the last log
\* has just made, which nothing has judged.
ScanOK(acc, logs, m) ==
  /\ DOMAIN acc = ScanFields
  /\ \A i \in DOMAIN acc.candidates :
       \/ Deeper(logs, i)
       \/ /\ i = m /\ acc.candidates[i] = Undecided
          /\ [depth |-> logs[m].depth, scope |-> {m}] \in acc.pending

LEMMA ScanEnterKeeps ==
  ASSUME NEW logs, NEW m \in Nat, m + 1 <= Len(logs), NEW acc, ScanOK(acc, logs, m)
  PROVE  LET x == ScanEnter(acc, logs[m + 1])
         IN  DOMAIN x = ScanFields /\ \A i \in DOMAIN x.candidates : Deeper(logs, i)
<1> DEFINE log == logs[m + 1]
           entered == {p \in acc.pending : log.depth = p.depth + 1}
           lost == UNION {p.scope : p \in acc.pending \ entered}
           kept == [i \in (DOMAIN acc.candidates) \ lost |-> acc.candidates[i]]
           x == ScanEnter(acc, log)
<1>1. DOMAIN x = ScanFields /\ x.candidates = kept
  <2> DEFINE frames == SelectSeq(
            acc.frames \o SetToSeq({[depth |-> log.depth, scope |-> p.scope] : p \in entered}),
            LAMBDA f : f.depth <= log.depth)
  <2>1. x = [acc EXCEPT !.frames = frames, !.pending = {}, !.candidates = kept]
    BY DEF ScanEnter
  <2> HIDE DEF frames, kept
  <2> QED
    BY <2>1 DEF ScanOK, ScanFields
<1>2. ASSUME NEW i \in DOMAIN kept PROVE Deeper(logs, i)
  <2>1. i \in DOMAIN acc.candidates /\ i \notin lost
    OBVIOUS
  <2>2. CASE Deeper(logs, i)
    BY <2>2
  <2>3. CASE i = m /\ [depth |-> logs[m].depth, scope |-> {m}] \in acc.pending
    <3> DEFINE p == [depth |-> logs[m].depth, scope |-> {m}]
    <3>1. p \in acc.pending /\ m \in p.scope /\ p.depth = logs[m].depth
      BY <2>3
    <3> HIDE DEF p
    <3>2. p \in entered
      BY <2>1, <2>3, <3>1
    <3> QED
      BY <2>3, <3>1, <3>2 DEF Deeper
  <2> QED
    BY <2>1, <2>2, <2>3 DEF ScanOK
<1> HIDE DEF kept, x
<1> QED
  BY <1>1, <1>2 DEF x

LEMMA ScanLogKeeps ==
  ASSUME NEW logs, NEW m \in Nat, m + 1 <= Len(logs), NEW acc, ScanOK(acc, logs, m)
  PROVE  ScanOK(ScanLog(logs, acc, m + 1), logs, m + 1)
<1> DEFINE log == logs[m + 1]
           k == m + 1
           x == ScanEnter(acc, log)
           y == ScanExecute(x, log, k)
<1>1. DOMAIN x = ScanFields /\ \A i \in DOMAIN x.candidates : Deeper(logs, i)
  BY ScanEnterKeeps
<1>2. ScanLog(logs, acc, k) = IF log.error THEN x ELSE y
  BY DEF ScanLog
<1> HIDE DEF x
<1>3. ScanOK(x, logs, k)
  BY <1>1 DEF ScanOK
<1>4. ScanOK(y, logs, k)
  <2> DEFINE scope == Last(x.frames).scope
             inserted == IF log.op = "CALL" THEN {k} ELSE {}
             judged == [c \in (DOMAIN x.candidates) \cup inserted |->
                          IF c = k THEN Undecided
                          ELSE IF c \in scope THEN Judge(x.candidates[c], log) ELSE x.candidates[c]]
             root == IF scope = {0} /\ log.op = "SSTORE" /\ log.slot = Ctr /\ x.root_index = NoIndex
                     THEN IndexBefore(log.value) ELSE x.root_index
             opens == Opens(log, k, scope)
  <2>1. y = [x EXCEPT !.candidates = judged, !.root_index = root, !.pending = opens]
    BY DEF ScanExecute
  <2> HIDE DEF scope
  <2>2. ASSUME NEW i \in DOMAIN judged
        PROVE  \/ Deeper(logs, i)
               \/ /\ i = k /\ judged[i] = Undecided
                  /\ [depth |-> log.depth, scope |-> {k}] \in opens
    <3>1. CASE i \in DOMAIN x.candidates
      BY <1>1, <3>1
    <3>2. CASE i \notin DOMAIN x.candidates
      <4>1. i = k /\ log.op = "CALL"
        BY <3>2
      <4>2. judged[i] = Undecided
        BY <4>1
      <4>3. opens = {[depth |-> log.depth, scope |-> {k}]}
        BY <4>1 DEF Opens
      <4> QED
        BY <4>1, <4>2, <4>3
    <3> QED
      BY <3>1, <3>2
  <2> HIDE DEF judged, root, opens
  <2>3. DOMAIN y = ScanFields /\ y.candidates = judged /\ y.pending = opens
    BY <1>1, <2>1 DEF ScanFields
  <2> HIDE DEF y
  <2> QED
    BY <2>2, <2>3 DEF ScanOK
<1> HIDE DEF y, k
<1> QED
  BY <1>2, <1>3, <1>4 DEF k

\* Whatever call the walk finds eligible is one after which the trace is a level
\* deeper: scan_candidates forgets the others before they are judged.
LEMMA CandidatesOpen ==
  ASSUME NEW logs, Len(logs) \in Nat
  PROVE  \A i \in DOMAIN scan_candidates(logs).candidates :
           scan_candidates(logs).candidates[i].bump = "first" => Deeper(logs, i)
<1> DEFINE n == Len(logs)
           F(m) == Scanned(logs, n, m)
           C == {m \in Nat : m <= n /\ ~ScanOK(F(m), logs, m)}
<1>1. F(0) = ScanStart /\ \A m \in 1 .. n : F(m) = ScanLog(logs, F(m - 1), m)
  BY ScannedSteps
<1> HIDE DEF F
<1>2. ScanOK(F(0), logs, 0)
  BY <1>1 DEF ScanOK, ScanStart, ScanFields
<1>3. C = {}
  <2> SUFFICES ASSUME C # {} PROVE FALSE
    OBVIOUS
  <2>1. C \in SUBSET Nat
    OBVIOUS
  <2>2. PICK m \in C : \A k \in C : m <= k
    <3> HIDE DEF C
    <3> QED
      BY <2>1, MinOfNats
  <2>3. m # 0 /\ m \in Nat /\ m <= n /\ ~ScanOK(F(m), logs, m)
    BY <1>2
  <2>4. m - 1 \in Nat /\ (m - 1) + 1 = m /\ m - 1 <= n /\ m - 1 \notin C /\ m \in 1 .. n
    BY <2>2, <2>3
  <2>5. ScanOK(F(m - 1), logs, m - 1)
    BY <2>4
  <2>6. ScanOK(ScanLog(logs, F(m - 1), m), logs, m)
    BY <2>3, <2>4, <2>5, ScanLogKeeps
  <2> QED
    BY <1>1, <2>3, <2>4, <2>6
<1>4. ScanOK(F(n), logs, n)
  BY <1>3
<1>5. scan_candidates(logs) = F(n)
  BY ScanIsScanned DEF F
<1> QED
  BY <1>4, <1>5 DEF ScanOK, Undecided

-----------------------------------------------------------------------------
(* The op of a nested frame is the last one of its caller. *)

EndsNested(out) == IsList(out) /\ Len(out) >= 1 /\ out[Len(out)].op = "NESTED"

OpsOK(frames) ==
  /\ \A k \in 1 .. Len(frames) : IsList(frames[k].out)
  /\ \A k \in 2 .. Len(frames) : frames[k].nested => EndsNested(frames[k - 1].out)

LEMMA ListConcat ==
  ASSUME NEW s, IsList(s), NEW t, IsList(t)
  PROVE  IsList(s \o t)
<1> DEFINE S == {s[k] : k \in 1 .. Len(s)}
           T == {t[k] : k \in 1 .. Len(t)}
           U == S \cup T
<1>1. s \in Seq(S) /\ t \in Seq(T)
  BY ListSeq
<1>2. S \subseteq U /\ T \subseteq U
  OBVIOUS
<1> HIDE DEF S, T, U
<1>3. s \in Seq(U) /\ t \in Seq(U)
  BY <1>1, <1>2, SeqMonotonic
<1>4. s \o t \in Seq(U)
  BY <1>3, ConcatProperties
<1> QED
  BY <1>4, SeqList

\* Only the top frame's updates change: nothing is nested in it.
LEMMA OpsTop ==
  ASSUME NEW frames, IsList(frames), Len(frames) >= 1, OpsOK(frames),
         NEW other, Len(other) = Len(frames),
         \A k \in 1 .. (Len(frames) - 1) : other[k].out = frames[k].out /\ other[k].nested = frames[k].nested,
         IsList(other[Len(frames)].out), other[Len(frames)].nested = frames[Len(frames)].nested
  PROVE  OpsOK(other)
<1> DEFINE n == Len(frames)
<1>0. n \in Nat /\ n >= 1
  BY DEF IsList
<1>1. \A k \in 1 .. n : k = n \/ k \in 1 .. (n - 1)
  BY <1>0
<1>2. \A k \in 2 .. n : k - 1 \in 1 .. (n - 1) /\ k \in 1 .. n
  BY <1>0
<1> QED
  BY <1>1, <1>2 DEF OpsOK

LEMMA OpsSame ==
  ASSUME NEW frames, IsList(frames), OpsOK(frames), NEW other, Len(other) = Len(frames),
         \A k \in 1 .. Len(frames) : other[k].out = frames[k].out /\ other[k].nested = frames[k].nested
  PROVE  OpsOK(other)
<1>1. Len(frames) \in Nat /\ \A k \in 2 .. Len(frames) : k - 1 \in 1 .. Len(frames) /\ k \in 1 .. Len(frames)
  BY DEF IsList
<1> QED
  BY <1>1 DEF OpsOK

LEMMA OpsFront ==
  ASSUME NEW frames, Frameful(frames), Len(frames) >= 2, OpsOK(frames)
  PROVE  OpsOK(Front(frames))
<1> DEFINE n == Len(frames)
           rest == Front(frames)
<1>1. n \in Nat /\ Len(rest) = n - 1 /\ \A k \in 1 .. (n - 1) : rest[k] = frames[k]
  BY FrontFrameful DEF Frameful, IsList
<1> HIDE DEF rest
<1>2. \A k \in 1 .. (n - 1) : k \in 1 .. n
  BY <1>1
<1>3. \A k \in 2 .. (n - 1) : k - 1 \in 1 .. (n - 1) /\ k \in 1 .. (n - 1) /\ k \in 2 .. n
  BY <1>1
<1> HIDE DEF n
<1>4. OpsOK(rest)
  BY <1>1, <1>2, <1>3 DEF OpsOK, n
<1> QED
  BY <1>4 DEF rest

LEMMA OpsOpened ==
  ASSUME NEW frames, Frameful(frames), OpsOK(frames), NEW f, IsList(f.out),
         f.nested => EndsNested(Last(frames).out)
  PROVE  OpsOK(Append(frames, f))
<1> DEFINE n == Len(frames)
           other == Append(frames, f)
<1>1. /\ n \in Nat /\ n >= 1 /\ Len(other) = n + 1 /\ other[n + 1] = f
      /\ \A k \in 1 .. n : other[k] = frames[k]
  BY ListAppend DEF Frameful, IsList
<1> HIDE DEF other
<1>2. \A k \in 1 .. (n + 1) : k = n + 1 \/ k \in 1 .. n
  BY <1>1
<1>3. \A k \in 2 .. (n + 1) : k - 1 \in 1 .. n /\ (k = n + 1 \/ (k \in 2 .. n /\ k \in 1 .. n))
  BY <1>1
<1>4. (n + 1) - 1 = n /\ Last(frames) = frames[n]
  BY <1>1 DEF Last
<1>5. \A k \in 1 .. (n + 1) : IsList(other[k].out)
  BY <1>1, <1>2 DEF OpsOK
<1>6. ASSUME NEW k \in 2 .. (n + 1), other[k].nested PROVE EndsNested(other[k - 1].out)
  <2>1. CASE k = n + 1
    BY <1>1, <1>3, <1>4, <1>6, <2>1
  <2>2. CASE k # n + 1
    BY <1>1, <1>3, <1>6, <2>2 DEF OpsOK
  <2> QED
    BY <2>1, <2>2
<1> QED
  BY <1>1, <1>5, <1>6 DEF OpsOK, other

\* The top frame is replaced by one whose updates are a list.
LEMMA OpsReplaced ==
  ASSUME NEW frames, Frameful(frames), OpsOK(frames), NEW g, IsList(g.out),
         g.nested = frames[Len(frames)].nested
  PROVE  OpsOK([frames EXCEPT ![Len(frames)] = g])
<1> DEFINE other == [frames EXCEPT ![Len(frames)] = g]
<1>1. /\ Len(other) = Len(frames) /\ other[Len(frames)] = g
      /\ \A k \in 1 .. (Len(frames) - 1) : other[k] = frames[k]
  BY TopReplaced
<1> HIDE DEF other
<1>2. OpsOK(other)
  BY <1>1, OpsTop DEF Frameful
<1> QED
  BY <1>2 DEF other

LEMMA ChargeOps ==
  ASSUME NEW frames, Frameful(frames), OpsOK(frames), NEW emits, NEW gas
  PROVE  OpsOK(Charge(frames, emits, gas))
<1> DEFINE n == Len(frames)
           other == Charge(frames, emits, gas)
<1>1. n \in Nat /\ n >= 1 /\ DOMAIN frames = 1 .. n /\ FrameOK(frames[n]) /\ IsList(frames[n].out)
  BY ListSeq DEF Frameful, OpsOK
<1>2. \A k \in 1 .. (n - 1) : other[k] = frames[k]
  BY <1>1 DEF Charge
<1>3. other[n].out = frames[n].out /\ other[n].nested = frames[n].nested
  BY <1>1 DEF Charge, FrameOK, FrameFields
<1>4. Len(other) = n
  BY ChargeKeeps DEF Keeps
<1> HIDE DEF other
<1>5. OpsOK(other)
  BY <1>1, <1>2, <1>3, <1>4, OpsTop DEF Frameful
<1> QED
  BY <1>5 DEF other

LEMMA ForgetOps ==
  ASSUME NEW frames, Frameful(frames), OpsOK(frames), NEW programs, NEW journal
  PROVE  OpsOK(forget_overwritten(frames, programs, journal))
<1> DEFINE n == Len(frames)
           other == forget_overwritten(frames, programs, journal)
           D(k) == DOMAIN journal[programs[ProgramOf(frames[k])].target]
<1>1. n \in Nat /\ n >= 1 /\ DOMAIN frames = 1 .. n /\ \A k \in 1 .. n : FrameOK(frames[k])
  BY ListSeq DEF Frameful
<1>2. other = [k \in 1 .. n |-> IF frames[k].program = {} THEN frames[k] ELSE Forget(frames[k], D(k))]
  BY <1>1 DEF forget_overwritten
<1>3. Len(other) = n
  BY ForgetKeeps DEF Keeps
<1> HIDE DEF n, other, D
<1>4. \A f, slots : FrameOK(f) => Forget(f, slots).out = f.out /\ Forget(f, slots).nested = f.nested
  BY DEF Forget, FrameOK, FrameFields
<1>5. \A k \in 1 .. n : other[k].out = frames[k].out /\ other[k].nested = frames[k].nested
  BY <1>1, <1>2, <1>4
<1>6. OpsOK(other)
  BY <1>3, <1>5, OpsSame DEF Frameful, n
<1> QED
  BY <1>6 DEF other

\* flush_slice appends a list: the slots are finitely many.
LEMMA FlushOps ==
  ASSUME NEW v, DOMAIN v = WalkFields, Frameful(v.frames), OpsOK(v.frames)
  PROVE  OpsOK(flush_slice(v).frames)
<1> DEFINE n == Len(v.frames)
           cur == Last(v.frames)
           image == visible_image(v.frames, v.programs[ProgramOf(cur)].target)
           dirty == {s \in DOMAIN image : ~(s \in DOMAIN cur.view /\ cur.view[s] = image[s])}
           stores == InOrder(dirty)
           out == [k \in DOMAIN stores |-> Store(stores[k], image[stores[k]])]
           g == [cur EXCEPT !.out = @ \o out, !.view = Extend(@, image)]
<1>1. flush_slice(v) = [v EXCEPT !.frames[n] = g]
  BY DEF flush_slice
<1>2. n \in Nat /\ n >= 1 /\ DOMAIN v.frames = 1 .. n /\ cur = v.frames[n] /\ FrameOK(cur) /\ IsList(cur.out)
  BY ListSeq DEF Frameful, Last, OpsOK
<1>3. IsList(out)
  <2>1. dirty \subseteq Slot
    <3>1. DOMAIN image \subseteq Slot
      BY DEF visible_image
    <3> HIDE DEF image
    <3> QED
      BY <3>1
  <2> DEFINE m == Cardinality(dirty)
  <2> HIDE DEF image, dirty
  <2>2. IsFiniteSet(dirty)
    BY <2>1, EvmAssumption, FS_Subset
  <2>3. m \in Nat
    BY <2>2, FS_CardinalityType
  <2>4. DOMAIN stores = 1 .. m
    BY DEF InOrder
  <2> HIDE DEF stores, m
  <2>5. out = [k \in 1 .. m |-> out[k]]
    BY <2>4
  <2> HIDE DEF out
  <2> QED
    BY <2>3, <2>5, FunctionList
<1> HIDE DEF image, out
<1>4. DOMAIN cur = FrameFields
  BY <1>2 DEF FrameOK
<1> HIDE DEF cur
<1>5. g.out = cur.out \o out /\ g.nested = cur.nested
  BY <1>4 DEF FrameFields
<1> HIDE DEF g
<1>6. IsList(g.out)
  BY <1>2, <1>3, <1>5, ListConcat
<1>7. flush_slice(v).frames = [v.frames EXCEPT ![n] = g]
  BY <1>1 DEF WalkFields
<1>8. OpsOK([v.frames EXCEPT ![n] = g])
  BY <1>2, <1>5, <1>6, OpsReplaced
<1> QED
  BY <1>7, <1>8

LEMMA PushOps ==
  ASSUME NEW v, DOMAIN v = WalkFields, Frameful(v.frames), OpsOK(v.frames), NEW update
  PROVE  LET x == PushOut(v, update)
         IN  OpsOK(x.frames) /\ (update.op = "NESTED" => EndsNested(Last(x.frames).out))
<1> DEFINE n == Len(v.frames)
           x == PushOut(v, update)
           out == v.frames[n].out
           g == [v.frames[n] EXCEPT !.out = Append(@, update)]
<1>1. n \in Nat /\ n >= 1 /\ DOMAIN v.frames = 1 .. n /\ FrameOK(v.frames[n]) /\ IsList(out)
  BY ListSeq DEF Frameful, OpsOK
<1>2. g.out = Append(out, update) /\ g.nested = v.frames[n].nested
  BY <1>1 DEF FrameOK, FrameFields
<1>3. x.frames = [v.frames EXCEPT ![n] = g]
  BY <1>1 DEF PushOut, WalkFields
<1> HIDE DEF g, x, out
<1>4. /\ IsList(g.out) /\ Len(g.out) = Len(out) + 1 /\ g.out[Len(out) + 1] = update
      /\ Len(out) \in Nat
  BY <1>1, <1>2, ListAppend DEF IsList
<1>5. OpsOK([v.frames EXCEPT ![n] = g])
  BY <1>2, <1>4, OpsReplaced
<1>6. Last([v.frames EXCEPT ![n] = g]) = g
  <2> DEFINE other == [v.frames EXCEPT ![n] = g]
  <2>1. Len(other) = n /\ other[n] = g
    BY TopReplaced
  <2> HIDE DEF other
  <2>2. Last(other) = g
    BY <2>1 DEF Last
  <2> QED
    BY <2>2 DEF other
<1>7. update.op = "NESTED" => EndsNested(g.out)
  BY <1>4 DEF EndsNested
<1> QED
  BY <1>3, <1>5, <1>6, <1>7 DEF x

LEMMA CommitOps ==
  ASSUME NEW frames, Frameful(frames), OpsOK(frames), NEW journal
  PROVE  OpsOK(Commit(frames, journal))
<1> DEFINE n == Len(frames)
           new == [c \in Contract |-> Extend(frames[n].journal[c], journal[c])]
           g == [frames[n] EXCEPT !.journal = new]
<1>1. n \in Nat /\ n >= 1 /\ DOMAIN frames = 1 .. n /\ FrameOK(frames[n]) /\ IsList(frames[n].out)
  BY ListSeq DEF Frameful, OpsOK
<1>2. Commit(frames, journal) = [frames EXCEPT ![n] = g]
  BY <1>1 DEF Commit
<1> HIDE DEF new
<1>3. g.out = frames[n].out /\ g.nested = frames[n].nested
  BY <1>1 DEF FrameOK, FrameFields
<1> HIDE DEF g
<1>4. OpsOK([frames EXCEPT ![n] = g])
  BY <1>1, <1>3, OpsReplaced
<1> QED
  BY <1>2, <1>4

LEMMA RevertedOps ==
  ASSUME NEW v, DOMAIN v = WalkFields, Frameful(v.frames), Len(v.frames) >= 2, OpsOK(v.frames), NEW i
  PROVE  OpsOK(LeaveReverted(v, i).frames)
<1> DEFINE x == LeaveReverted(v, i)
           n == Len(v.frames)
           child == Last(v.frames)
           rest == Charge(Front(v.frames), child.emits, i - child.start)
           m == Len(rest)
           cut == [rest[m] EXCEPT !.out = Front(@)]
           less == [rest EXCEPT ![m] = cut]
           frames == IF child.nested THEN [rest EXCEPT ![m].out = Front(@)] ELSE rest
           programs == DropFrom(v.programs, child.first_program)
<1>1. x = [v EXCEPT !.frames = frames, !.programs = programs]
  BY DEF LeaveReverted
<1>0. n \in Nat /\ Len(Front(v.frames)) = n - 1 /\ \A k \in 1 .. (n - 1) : Front(v.frames)[k] = v.frames[k]
  BY FrontFrameful DEF Frameful, IsList
<1>2. Frameful(Front(v.frames)) /\ OpsOK(Front(v.frames))
  BY FrontFrameful, OpsFront
<1>3. Keeps(Front(v.frames), rest) /\ Frameful(rest) /\ OpsOK(rest)
  BY <1>2, ChargeKeeps, KeepsFrameful, ChargeOps
<1>4. child.nested => EndsNested(rest[m].out)
  <2>1. m = n - 1
    BY <1>0, <1>3 DEF Keeps
  <2>2. rest[m].out = Front(v.frames)[m].out
    <3> DEFINE front == Front(v.frames)
    <3>1. Len(front) = m /\ m \in Nat /\ m >= 1 /\ DOMAIN front = 1 .. m /\ FrameOK(front[m])
      BY <1>0, <1>2, <2>1, ListSeq DEF Frameful
    <3> HIDE DEF front, m
    <3>2. rest = Charge(front, child.emits, i - child.start)
      BY DEF front
    <3> HIDE DEF rest
    <3> QED
      BY <3>1, <3>2 DEF Charge, FrameOK, FrameFields, front
  <2>3. n \in 2 .. n /\ m \in 1 .. (n - 1) /\ child = v.frames[n]
    BY <1>0, <2>1 DEF Last
  <2>4. child.nested => EndsNested(v.frames[m].out)
    BY <2>1, <2>3 DEF OpsOK
  <2> QED
    BY <1>0, <2>2, <2>3, <2>4
<1> HIDE DEF programs, rest, child
<1>5. m \in Nat /\ m >= 1 /\ DOMAIN rest = 1 .. m /\ FrameOK(rest[m])
  BY <1>3, ListSeq DEF Frameful
<1>6. frames = IF child.nested THEN less ELSE rest
  BY <1>5
<1>7. cut.out = Front(rest[m].out) /\ cut.nested = rest[m].nested
  BY <1>5 DEF FrameOK, FrameFields
<1> HIDE DEF cut
<1>8. child.nested => OpsOK(less)
  <2> SUFFICES ASSUME child.nested PROVE OpsOK(less)
    OBVIOUS
  <2>1. IsList(rest[m].out) /\ Len(rest[m].out) >= 1
    BY <1>4 DEF EndsNested
  <2>2. IsList(cut.out)
    BY <1>7, <2>1, ListFront
  <2> QED
    BY <1>3, <1>7, <2>2, OpsReplaced
<1> HIDE DEF less, frames
<1>9. OpsOK(frames)
  BY <1>3, <1>6, <1>8
<1>10. x.frames = frames
  BY <1>1 DEF WalkFields
<1> QED
  BY <1>9, <1>10 DEF x

LEMMA NestedOps ==
  ASSUME NEW v, DOMAIN v = WalkFields, Frameful(v.frames), Len(v.frames) >= 2, OpsOK(v.frames), NEW i
  PROVE  OpsOK(LeaveNested(v, i).frames)
<1> DEFINE x == LeaveNested(v, i)
           flushed == flush_slice(v)
           child == Last(flushed.frames)
           front == Front(flushed.frames)
           rest == forget_overwritten(front, v.programs, child.journal)
           frames == Commit(rest, child.journal)
<1>1. x.frames = frames
  <2> HIDE DEF frames, child
  <2> QED
    BY DEF LeaveNested, WalkFields, frames, child
<1>2. Keeps(v.frames, flushed.frames) /\ OpsOK(flushed.frames)
  BY FlushKeeps, FlushOps DEF WalkKeeps
<1> HIDE DEF flushed
<1>3. Frameful(flushed.frames) /\ Len(flushed.frames) >= 2
  BY <1>2, KeepsFrameful DEF Keeps
<1>4. Frameful(front) /\ OpsOK(front)
  BY <1>2, <1>3, FrontFrameful, OpsFront
<1> HIDE DEF front, child
<1>5. Frameful(rest) /\ OpsOK(rest)
  BY <1>4, ForgetKeeps, KeepsFrameful, ForgetOps
<1> HIDE DEF rest
<1>6. OpsOK(frames)
  BY <1>5, CommitOps
<1> QED
  BY <1>1, <1>6 DEF x

LEMMA PlainOps ==
  ASSUME NEW v, DOMAIN v = WalkFields, Frameful(v.frames), Len(v.frames) >= 2, OpsOK(v.frames), NEW i
  PROVE  OpsOK(LeavePlain(v, i).frames)
<1> DEFINE x == LeavePlain(v, i)
           n == Len(v.frames)
           child == Last(v.frames)
           charged == Charge(Front(v.frames), child.emits, i - child.start)
           rest == IF child.program = {}
                   THEN forget_overwritten(charged, v.programs, child.journal) ELSE charged
           done == Commit(rest, child.journal)
           m == Len(rest)
           frames == [done EXCEPT ![m].out        = @ \o child.out,
                                  ![m].call_gas   = @ + child.call_gas,
                                  ![m].create_gas = @ + child.create_gas,
                                  ![m].view       = IF child.program # {} THEN child.view ELSE @]
<1>1. x = [v EXCEPT !.frames = frames]
  BY DEF LeavePlain
<1>2. Frameful(charged) /\ OpsOK(charged)
  BY FrontFrameful, OpsFront, ChargeKeeps, KeepsFrameful, ChargeOps
<1> HIDE DEF charged
<1>3. Frameful(rest) /\ OpsOK(rest)
  BY <1>2, ForgetKeeps, KeepsFrameful, ForgetOps
<1> HIDE DEF rest
<1>4. IsList(child.out)
  <2>1. n \in Nat /\ n \in 1 .. n /\ child = v.frames[n]
    BY DEF Last, Frameful, IsList
  <2> QED
    BY <2>1 DEF OpsOK
<1> HIDE DEF child
<1>5. /\ m \in Nat /\ m >= 1 /\ IsList(done) /\ Len(done) = m /\ DOMAIN done = 1 .. m
      /\ FrameOK(done[m]) /\ OpsOK(done)
  <2>1. IsList(done) /\ Len(done) = m /\ FrameOK(done[m]) /\ OpsOK(done)
    BY <1>3, CommitTop, CommitOps
  <2> HIDE DEF done
  <2> QED
    BY <1>3, <2>1, ListSeq DEF Frameful, IsList
<1> HIDE DEF done, m
<1>6. \A k \in 1 .. (m - 1) : frames[k] = done[k]
  BY <1>5
<1>7. frames = [k \in 1 .. m |-> frames[k]]
  BY <1>5
<1>8. frames[m].out = done[m].out \o child.out /\ frames[m].nested = done[m].nested
  <2>1. frames[m].nested = done[m].nested
    BY <1>5 DEF FrameOK, FrameFields
  <2> DEFINE joined == done[m].out \o child.out
             calls == done[m].call_gas + child.call_gas
             creates == done[m].create_gas + child.create_gas
             view == IF child.program # {} THEN child.view ELSE done[m].view
             other == [done EXCEPT ![m].out = joined, ![m].call_gas = calls, ![m].create_gas = creates,
                                   ![m].view = view]
  <2>2. frames = other
    OBVIOUS
  <2> HIDE DEF joined, calls, creates, view, frames
  <2>3. other[m].out = joined
    BY <1>5 DEF FrameOK, FrameFields
  <2> QED
    BY <2>1, <2>2, <2>3 DEF joined
<1> HIDE DEF frames
<1>9. Len(frames) = m
  BY <1>5, <1>7, FunctionList
<1>10. IsList(frames[m].out)
  <2>1. IsList(done[m].out)
    BY <1>5 DEF OpsOK
  <2> QED
    BY <1>4, <1>8, <2>1, ListConcat
<1>11. OpsOK(frames)
  BY <1>5, <1>6, <1>8, <1>9, <1>10, OpsTop
<1>12. x.frames = frames
  BY <1>1 DEF WalkFields
<1> QED
  BY <1>11, <1>12 DEF x

\* A nested frame is pending only behind its op.
PendingOps(v) == \A p \in v.pending : p.nested => EndsNested(Last(v.frames).out)

LEMMA EnterOps ==
  ASSUME NEW v, DOMAIN v = WalkFields, Frameful(v.frames), NEW i, NEW p, v.pending = {p},
         OpsOK(v.frames), PendingOps(v)
  PROVE  OpsOK(Enter(v, i).frames)
<1> DEFINE x == Enter(v, i)
           q == CHOOSE r \in v.pending : TRUE
           first == IF q.nested THEN CHOOSE id \in q.program : TRUE ELSE Len(v.programs) + 1
           f == NewFrame(trace[i].depth, q, first)
           frames == IF trace[i].depth = q.depth + 1 THEN Append(v.frames, f)
                     ELSE Charge(v.frames, q.emits, i - q.start)
<1>1. v.pending # {} /\ q = p
  OBVIOUS
<1>2. x = [v EXCEPT !.pending = {}, !.frames = frames]
  BY <1>1 DEF Enter
<1> HIDE DEF q
<1>3. f.out = <<>> /\ f.nested = p.nested
  <2> HIDE DEF first
  <2> QED
    BY <1>1 DEF NewFrame
<1> HIDE DEF f
<1>4. IsList(f.out) /\ (f.nested => EndsNested(Last(v.frames).out))
  BY <1>3 DEF IsList, PendingOps
<1>5. OpsOK(Append(v.frames, f))
  BY <1>4, OpsOpened
<1>6. OpsOK(Charge(v.frames, q.emits, i - q.start))
  BY ChargeOps
<1>7. x.frames = frames
  <2> HIDE DEF frames
  <2> QED
    BY <1>2 DEF WalkFields
<1> HIDE DEF x
<1> QED
  BY <1>5, <1>6, <1>7 DEF x

\* When log i is about to be looked at, every nested frame's op is in its place.
LEMMA SettledOps ==
  ASSUME NEW v, DOMAIN v = WalkFields, NEW log, NEW i,
         Mirrors(v.frames, log.stack, After(log)), PendingOK(v.pending, log),
         log.depth = Len(log.stack), trace[i].depth = Len(trace[i].stack),
         Len(trace[i].stack) \in Nat, Len(trace[i].stack) >= 1,
         Follows(log, trace[i].stack, trace[i].world.st, trace[i].top),
         OpsOK(v.frames), PendingOps(v)
  PROVE  /\ OpsOK(Leave(Enter(v, i), i).frames)
         /\ Leaving(Enter(v, i), trace[i]) =>
              v.pending = {} /\ Last(v.frames).depth = trace[i].depth + 1 /\ Len(v.frames) >= 2
<1> DEFINE n == Len(v.frames)
           e == Enter(v, i)
           stk == trace[i].stack
           st == trace[i].world.st
<1>1. /\ Frameful(v.frames) /\ n \in Nat /\ n >= 1 /\ n = Len(log.stack)
      /\ Last(v.frames).depth = n
  BY MirrorsFrameful DEF Mirrors
<1>2. OpsOK(e.frames)
  <2>1. CASE v.pending = {}
    BY <2>1 DEF Enter
  <2>2. CASE v.pending # {}
    <3>1. PICK p : v.pending = {p}
      BY <2>2 DEF PendingOK
    <3> QED
      BY <1>1, <3>1, EnterOps
  <2> QED
    BY <2>1, <2>2
<1>3. CASE Closed(log, stk, st, trace[i].top)
  <2>1. n = Len(stk) + 1 /\ n >= 2 /\ (log.op \notin Calls \cup {"SSTORE"} \/ log.error)
    BY <1>1, <1>3 DEF Closed
  <2>2. v.pending = {}
    BY <2>1 DEF PendingOK
  <2>3. e = v
    BY <2>2 DEF Enter
  <2>4. OpsOK(LeaveReverted(v, i).frames) /\ OpsOK(LeaveNested(v, i).frames) /\ OpsOK(LeavePlain(v, i).frames)
    BY <1>1, <2>1, RevertedOps, NestedOps, PlainOps
  <2>5. OpsOK(Leave(v, i).frames)
    BY <2>4 DEF Leave
  <2> QED
    BY <1>1, <2>1, <2>2, <2>3, <2>5
<1>4. CASE Stays(log, stk, st) \/ Opened(log, stk, st)
  <2>1. ~Leaving(e, trace[i])
    <3>1. CASE v.pending = {}
      <4>1. Len(stk) >= n
        BY <1>1, <1>4 DEF Stays, Opened
      <4> QED
        BY <1>1, <3>1, <4>1 DEF Enter, Leaving
    <3>2. CASE v.pending # {}
      <4>1. PICK p : v.pending = {p} /\ p.depth = log.depth
        BY <3>2 DEF PendingOK, Awaited
      <4>2. CASE trace[i].depth = p.depth + 1
        <5>1. PICK f : e.frames = Append(v.frames, f) /\ f.depth = trace[i].depth
          BY <1>1, <4>1, <4>2, EnterFrames DEF Fresh
        <5>2. Last(e.frames) = f
          <6>1. /\ Len(Append(v.frames, f)) = n + 1 /\ Append(v.frames, f)[n + 1] = f
            BY <1>1, ListAppend DEF Frameful
          <6> QED
            BY <5>1, <6>1 DEF Last
        <5> HIDE DEF e
        <5> QED
          BY <5>1, <5>2 DEF Leaving
      <4>3. CASE trace[i].depth # p.depth + 1
        <5>1. Keeps(v.frames, e.frames)
          BY <1>1, <4>1, <4>3, EnterFrames
        <5> HIDE DEF e
        <5>2. Last(e.frames).depth = n
          BY <1>1, <5>1 DEF Keeps, Alike, Last
        <5>3. trace[i].depth = n
          BY <1>1, <1>4, <4>1, <4>3 DEF Stays, Opened
        <5> QED
          BY <1>1, <5>2, <5>3 DEF Leaving
      <4> QED
        BY <4>2, <4>3
    <3> QED
      BY <3>1, <3>2
  <2> HIDE DEF e
  <2>2. Leave(e, i) = e
    BY <2>1 DEF Leave
  <2> QED
    BY <1>2, <2>1, <2>2 DEF e
<1> QED
  BY <1>3, <1>4 DEF Follows

-----------------------------------------------------------------------------
(* Why the walk stops. *)

\* The frames' ops, the candidates, and what a failed walk has seen.
NestedInv ==
  /\ OpsOK(w.frames) /\ PendingOps(w)
  /\ phase = "walk" =>
       /\ \A i \in DOMAIN scan.candidates : scan.candidates[i].bump = "first" => Deeper(trace, i)
       /\ pos > 1 => \A p \in w.pending : p.nested => Deeper(trace, pos - 1)
  /\ FailsOnlyOnCreate

LEMMA NestedStarts == Init => NestedInv
<1> SUFFICES ASSUME Init PROVE NestedInv
  OBVIOUS
<1> DEFINE f == NewFrame(1, Pending(0, Root, {1}, NoSlots, "none", FALSE, 0), 1)
<1>1. w.frames = <<f>> /\ w.pending = {} /\ phase = "trace"
  BY DEF Init, WalkStart
<1>2. f.out = <<>>
  BY DEF NewFrame
<1> HIDE DEF f
<1>3. Len(w.frames) = 1 /\ w.frames[1] = f /\ IsList(f.out)
  BY <1>1, <1>2 DEF IsList
<1>4. OpsOK(w.frames)
  BY <1>3 DEF OpsOK
<1> QED
  BY <1>1, <1>4 DEF NestedInv, PendingOps, FailsOnlyOnCreate

\* What the invariants say at the log the walk is at.
LEMMA SettledNested ==
  ASSUME TraceInv, WalkInv, NestedInv, phase = "walk", pos <= Len(trace)
  PROVE  OpsOK(Settled.frames)
<1>0. DOMAIN w = WalkFields /\ pos \in Nat /\ pos >= 1 /\ OpsOK(w.frames) /\ PendingOps(w)
  BY DEF WalkInv, WalkFields, NestedInv
<1>1. CASE pos = 1
  <2>1. w.frames = WalkStart.frames /\ w.pending = {}
    BY <1>1 DEF WalkInv
  <2>2. Mirrors(w.frames, trace[pos].stack, trace[pos].world.st)
    BY <1>1, <2>1, AtLog, MirrorsStart
  <2>3. Enter(w, pos) = w
    BY <2>1 DEF Enter
  <2>4. ~Leaving(w, trace[pos])
    BY <2>2, AtLog, MirrorsFrameful DEF Leaving
  <2> QED
    BY <1>0, <2>3, <2>4 DEF Settled, Leave
<1>2. CASE pos > 1
  BY <1>0, <1>2, AtLog, SettledOps DEF WalkInv, Settled
<1> QED
  BY <1>0, <1>1, <1>2

\* The walk bails only for a create.
LEMMA WhyFails ==
  ASSUME TraceInv, WalkInv, NestedInv, phase = "walk", pos <= Len(trace), Fails
  PROVE  /\ trace[pos].top = 0
         /\ \/ \E p \in w.pending : p.emits = "CREATE"
            \/ Last(w.frames).emits = "CREATE"
<1> DEFINE log == trace[pos]
<1>0. DOMAIN w = WalkFields /\ pos \in Nat /\ pos >= 1 /\ OpsOK(w.frames) /\ PendingOps(w)
  BY DEF WalkInv, WalkFields, NestedInv
<1>1. CASE pos = 1
  <2>1. w.frames = WalkStart.frames /\ w.pending = {}
    BY <1>1 DEF WalkInv
  <2>2. Mirrors(w.frames, trace[pos].stack, trace[pos].world.st)
    BY <1>1, <2>1, AtLog, MirrorsStart
  <2>3. Enter(w, pos) = w
    BY <2>1 DEF Enter
  <2>4. ~Leaving(w, trace[pos])
    BY <2>2, AtLog, MirrorsFrameful DEF Leaving
  <2> QED
    BY <2>1, <2>3, <2>4 DEF Fails, EnterFails, LeaveFails
<1>2. CASE pos > 1
  <2>1. /\ Mirrors(w.frames, trace[pos - 1].stack, After(trace[pos - 1]))
        /\ PendingOK(w.pending, trace[pos - 1])
    BY <1>2 DEF WalkInv
  <2>2. CASE EnterFails(w, log)
    <3>1. PICK p \in w.pending : log.depth # p.depth + 1 /\ (p.nested \/ (p.emits = "CREATE" /\ log.top = 0))
      BY <2>2 DEF EnterFails
    <3>2. p.depth = trace[pos - 1].depth /\ (pos - 1) + 1 = pos
      BY <1>0, <2>1, <3>1 DEF PendingOK, Awaited
    <3>3. ~p.nested
      BY <1>2, <3>1, <3>2 DEF NestedInv, Deeper
    <3> QED
      BY <3>1, <3>3
  <2>3. CASE LeaveFails(Enter(w, pos), log)
    <3>1. Leaving(Enter(w, pos), log)
      BY <2>3 DEF LeaveFails
    <3>2. w.pending = {} /\ Last(w.frames).depth = log.depth + 1 /\ Len(w.frames) >= 2
      BY <1>0, <1>2, <2>1, <3>1, AtLog, SettledOps
    <3>3. Enter(w, pos) = w
      BY <3>2 DEF Enter
    <3> DEFINE n == Len(w.frames)
               out == w.frames[n - 1].out
    <3>4. \/ log.top = 0 /\ Last(w.frames).emits = "CREATE"
          \/ log.top = 0 /\ Last(w.frames).nested /\ (out = <<>> \/ Last(out).op # "NESTED")
      BY <2>3, <3>2, <3>3 DEF LeaveFails
    <3>5. Last(w.frames).nested => EndsNested(out)
      <4>1. n \in Nat /\ n \in 2 .. n /\ Last(w.frames) = w.frames[n]
        BY <2>1, <3>2, MirrorsFrameful DEF Last
      <4> QED
        BY <1>0, <4>1 DEF OpsOK
    <3> HIDE DEF out
    <3>6. EndsNested(out) => out # <<>> /\ Last(out).op = "NESTED"
      BY DEF EndsNested, Last
    <3> QED
      BY <3>4, <3>5, <3>6
  <2> QED
    BY <2>2, <2>3 DEF Fails
<1> QED
  BY <1>0, <1>1, <1>2

\* The walk goes on with frames whose ops are in place.
LEMMA BecomesNested ==
  ASSUME TraceInv, WalkInv, NestedInv, phase = "walk", NEW v, OpsOK(v.frames), PendingOps(v),
         \A p \in v.pending : p.nested => Deeper(trace, pos), Becomes(v)
  PROVE  NestedInv'
<1>1. /\ w' = v /\ pos' = pos + 1 /\ phase' = phase /\ scan' = scan /\ trace' = trace
      /\ pos \in Nat
  BY DEF Becomes, evmVars, WalkInv
<1>2. pos' - 1 = pos
  BY <1>1
<1>3. OpsOK(w'.frames) /\ PendingOps(w')
  BY <1>1
<1>4. \A p \in w'.pending : p.nested => Deeper(trace', pos' - 1)
  BY <1>1, <1>2
<1>5. \A i \in DOMAIN scan'.candidates : scan'.candidates[i].bump = "first" => Deeper(trace', i)
  BY <1>1 DEF NestedInv
<1> QED
  BY <1>1, <1>3, <1>4, <1>5 DEF NestedInv, FailsOnlyOnCreate, PendingOps

\* No frame that v would open is nested.
LEMMA PlainNested ==
  ASSUME TraceInv, WalkInv, NestedInv, phase = "walk", NEW v, OpsOK(v.frames),
         \A p \in v.pending : p.nested = FALSE, Becomes(v)
  PROVE  NestedInv'
BY BecomesNested DEF PendingOps

LEMMA NestedActions ==
  ASSUME TraceInv, WalkInv, NestedInv, Walk
  PROVE  NestedInv'
<1> DEFINE log == trace[pos]
           Flushed(u) == PushOut(flush_slice(Settled), u)
           With(v, p) == [v EXCEPT !.pending = {p}]
<1>0. ASSUME phase = "walk", pos <= Len(trace)
      PROVE  /\ DOMAIN Settled = WalkFields /\ Settled.pending = {} /\ Frameful(Settled.frames)
             /\ OpsOK(Settled.frames)
             /\ \A u : LET v == Flushed(u)
                       IN  /\ DOMAIN v = WalkFields /\ OpsOK(v.frames)
                           /\ u.op = "NESTED" => EndsNested(Last(v.frames).out)
  <2>1. /\ DOMAIN Settled = WalkFields /\ Settled.pending = {} /\ Frameful(Settled.frames)
        /\ OpsOK(Settled.frames)
    BY <1>0, SettledMirrors, MirrorsFrameful, SettledNested
  <2> DEFINE f == flush_slice(Settled)
  <2>2. DOMAIN f = WalkFields /\ Frameful(f.frames) /\ OpsOK(f.frames)
    BY <2>1, FlushKeeps, KeepsFrameful, FlushOps DEF WalkKeeps
  <2> HIDE DEF f
  <2>3. ASSUME NEW u
        PROVE  LET v == PushOut(f, u)
               IN  /\ DOMAIN v = WalkFields /\ OpsOK(v.frames)
                   /\ u.op = "NESTED" => EndsNested(Last(v.frames).out)
    BY <2>2, PushKeeps, PushOps DEF WalkKeeps
  <2> QED
    BY <2>1, <2>3 DEF f
<1>a. ASSUME NEW v, DOMAIN v = WalkFields, NEW p
      PROVE  With(v, p).frames = v.frames /\ With(v, p).pending = {p}
  BY <1>a DEF WalkFields
<1> HIDE DEF With
<1>1. CASE WalkErrored \/ WalkNothing \/ WalkUnsupported
  <2>1. phase = "walk" /\ pos <= Len(trace) /\ Becomes(Settled)
    BY <1>1 DEF WalkErrored, WalkNothing, WalkUnsupported, Executed, At
  <2> QED
    BY <1>0, <2>1, PlainNested
<1>2. CASE WalkStore
  <2> DEFINE n == Len(Settled.frames)
             frames == Settled.frames
             new == [s \in {log.slot} |-> log.value]
             v == [Settled EXCEPT !.frames[n].journal[Cur.ctx] = Extend(@, new)]
             journal == [frames[n].journal EXCEPT ![Cur.ctx] = Extend(@, new)]
             g == [frames[n] EXCEPT !.journal = journal]
  <2>1. phase = "walk" /\ pos <= Len(trace) /\ Becomes(v)
    BY <1>2 DEF WalkStore, Executed, At
  <2>2. n \in Nat /\ n >= 1 /\ DOMAIN frames = 1 .. n /\ FrameOK(frames[n]) /\ IsList(frames[n].out)
    BY <1>0, <2>1, ListSeq DEF Frameful, OpsOK
  <2> HIDE DEF new
  <2>3. v.pending = {} /\ v.frames = [frames EXCEPT ![n] = g]
    BY <1>0, <2>1, <2>2 DEF WalkFields
  <2> HIDE DEF journal
  <2>4. g.out = frames[n].out /\ g.nested = frames[n].nested
    BY <2>2 DEF FrameOK, FrameFields
  <2> HIDE DEF g, v
  <2>5. OpsOK([frames EXCEPT ![n] = g])
    BY <1>0, <2>1, <2>2, <2>4, OpsReplaced
  <2> QED
    BY <2>1, <2>3, <2>5, PlainNested
<1>3. CASE WalkLog
  <2> DEFINE v == PushOut(Settled, UpdateAt("LOG", pos))
  <2>1. phase = "walk" /\ pos <= Len(trace) /\ Becomes(v)
    BY <1>3 DEF WalkLog, Executed, At
  <2>2. OpsOK(v.frames) /\ v.pending = {}
    BY <1>0, <2>1, PushOps, PushKeeps
  <2> HIDE DEF v
  <2> QED
    BY <2>1, <2>2, PlainNested
<1>4. CASE WalkDelegate \/ WalkStatic \/ WalkNative
  <2>1. phase = "walk" /\ pos <= Len(trace) /\ \E p : p.nested = FALSE /\ Becomes(With(Settled, p))
    BY <1>4 DEF WalkDelegate, WalkStatic, WalkNative, Executed, At, Await, Pending, With
  <2>2. PICK p : p.nested = FALSE /\ Becomes(With(Settled, p))
    BY <2>1
  <2> DEFINE y == With(Settled, p)
  <2>3. OpsOK(y.frames) /\ \A q \in y.pending : q.nested = FALSE
    BY <1>0, <1>a, <2>1, <2>2
  <2> HIDE DEF y
  <2> QED
    BY <2>1, <2>2, <2>3, PlainNested DEF y
<1>5. CASE WalkCreate \/ WalkCall
  <2>1. phase = "walk" /\ pos <= Len(trace) /\ \E u, p : p.nested = FALSE /\ Becomes(With(Flushed(u), p))
    BY <1>5 DEF WalkCreate, WalkCall, Executed, At, Await, Pending, With
  <2>2. PICK u, p : p.nested = FALSE /\ Becomes(With(Flushed(u), p))
    BY <2>1
  <2>3. DOMAIN Flushed(u) = WalkFields /\ OpsOK(Flushed(u).frames)
    BY <1>0, <2>1
  <2> HIDE DEF Flushed
  <2> DEFINE y == With(Flushed(u), p)
  <2>4. OpsOK(y.frames) /\ \A q \in y.pending : q.nested = FALSE
    BY <1>a, <2>2, <2>3
  <2> HIDE DEF y
  <2> QED
    BY <2>1, <2>2, <2>4, PlainNested DEF y
<1>6. CASE WalkNested
  <2> DEFINE u == UpdateAt("NESTED", pos)
             v == Flushed(u)
             program == NewProgram(log.to, scan.candidates[pos].index, ProgramOf(Cur), pos)
             x == [v EXCEPT !.programs = AddProgram(@, program)]
             p == Pending(log.depth, log.to, {Len(v.programs) + 1}, NoSlots, "none", TRUE, pos)
  <2>1. /\ phase = "walk" /\ pos <= Len(trace) /\ Eligible(pos)
        /\ Becomes(With(x, p))
    BY <1>6 DEF WalkNested, Executed, At, Await, With
  <2>2. u.op = "NESTED"
    BY DEF UpdateAt
  <2> HIDE DEF u, program, p
  <2>3. DOMAIN v = WalkFields /\ OpsOK(v.frames) /\ EndsNested(Last(v.frames).out)
    BY <1>0, <2>1, <2>2
  <2> HIDE DEF v
  <2>4. DOMAIN x = WalkFields /\ x.frames = v.frames
    BY <2>3 DEF WalkFields
  <2> HIDE DEF x
  <2>5. Deeper(trace, pos)
    BY <2>1 DEF Eligible, NestedInv
  <2>6. With(x, p).frames = v.frames /\ With(x, p).pending = {p}
    BY <1>a, <2>4
  <2> DEFINE y == With(x, p)
  <2> HIDE DEF y
  <2>7. PendingOps(y) /\ OpsOK(y.frames)
    BY <2>3, <2>6 DEF PendingOps, y
  <2> QED
    BY <2>1, <2>5, <2>7, BecomesNested DEF y
<1>7. CASE WalkFails
  <2>1. /\ phase = "walk" /\ pos <= Len(trace) /\ Fails /\ phase' = "failed"
        /\ pos' = pos /\ w' = w /\ trace' = trace
    BY <1>7 DEF WalkFails, evmVars
  <2>2. FailsOnlyOnCreate'
    BY <2>1, WhyFails DEF FailsOnlyOnCreate
  <2> QED
    BY <2>1, <2>2 DEF NestedInv, PendingOps
<1> QED
  BY <1>1, <1>2, <1>3, <1>4, <1>5, <1>6, <1>7 DEF Walk

LEMMA NestedStep == TraceInv /\ WalkInv /\ NestedInv /\ [Next]_vars => NestedInv'
<1> SUFFICES ASSUME TraceInv, WalkInv, NestedInv, [Next]_vars PROVE NestedInv'
  OBVIOUS
<1>1. CASE Execute /\ UNCHANGED walkVars
  <2>1. phase = "trace"
    BY <1>1 DEF Execute, Sstore, Increment, Emit, Tstore, OpenFrame, Open, Inline, Revert, Halt,
       Return, Finish, Executes, WalkInv
  <2> QED
    BY <1>1, <2>1 DEF NestedInv, walkVars, FailsOnlyOnCreate, PendingOps
<1>2. CASE Scan
  <2> DEFINE v == [w EXCEPT !.programs[1].index = scan'.root_index]
  <2>1. /\ phase = "trace" /\ phase' = "walk" /\ trace' = trace /\ pos' = pos /\ w' = v
        /\ scan' = scan_candidates(trace)
    BY <1>2 DEF Scan, evmVars
  <2>2. pos = 1 /\ DOMAIN w = WalkFields /\ w.pending = {}
    BY <2>1 DEF WalkInv, WalkFields
  <2>3. v.frames = w.frames /\ v.pending = w.pending
    BY <2>2 DEF WalkFields
  <2>4. Len(trace) \in Nat
    BY LenProperties DEF TraceInv, EvmTypeOK
  <2>5. \A i \in DOMAIN scan'.candidates : scan'.candidates[i].bump = "first" => Deeper(trace', i)
    BY <2>1, <2>4, CandidatesOpen
  <2> HIDE DEF v
  <2>6. OpsOK(w'.frames) /\ PendingOps(w')
    BY <2>1, <2>2, <2>3 DEF NestedInv, PendingOps
  <2> QED
    BY <2>1, <2>2, <2>3, <2>5, <2>6 DEF NestedInv, FailsOnlyOnCreate, PendingOps
<1>3. CASE Walk
  BY <1>3, NestedActions
<1>4. CASE Split
  BY <1>4 DEF Split, NestedInv, evmVars, FailsOnlyOnCreate, PendingOps
<1>5. CASE UNCHANGED <<evmVars, walkVars>>
  BY <1>5 DEF NestedInv, evmVars, walkVars, FailsOnlyOnCreate, PendingOps
<1> QED
  BY <1>1, <1>2, <1>3, <1>4, <1>5 DEF Next, vars, Apply, Done

\* split_frame_tree bails on no complete trace, of any length and depth, except
\* where a create of an emitting frame has failed: a candidate it nests always
\* opens a frame, the op of a nested frame that reverts is the last of its caller,
\* and the depth never falls by two.
THEOREM BailsOnlyOnCreate == Spec => []FailsOnlyOnCreate
<1>1. Init => TraceInv /\ WalkInv /\ NestedInv
  BY TraceStarts, WalkStarts, NestedStarts
<1>2. TraceInv /\ WalkInv /\ NestedInv /\ [Next]_vars => (TraceInv /\ WalkInv /\ NestedInv)'
  BY TraceStep, WalkStep, NestedStep
<1>3. NestedInv => FailsOnlyOnCreate
  BY DEF NestedInv
<1> QED
  BY <1>1, <1>2, <1>3, PTL DEF Spec

-----------------------------------------------------------------------------
(* What the settlement of the canonical encoding repeats needs more of the  *)
(* trace: its events, and that a static frame changes nothing.              *)

\* The events log i leaves behind, unless its frame fails with it.
EvAfter(i, log) ==
  IF log.op = "LOG" /\ ~log.error THEN Append(log.world.ev, <<Last(log.stack).ctx, i>>)
  ELSE log.world.ev

EventsFollow(i, log, frames, ev, top) ==
  \/ Len(frames) = Len(log.stack) /\ ev = EvAfter(i, log)
  \/ /\ Len(frames) = Len(log.stack) + 1 /\ ev = log.world.ev
     /\ Last(frames).saved.ev = log.world.ev
     /\ log.op = "STATICCALL" => Last(frames).static
  \/ /\ Len(log.stack) = Len(frames) + 1 /\ (log.op # "LOG" \/ log.error)
     /\ ev = IF top = 0 THEN Last(log.stack).saved.ev ELSE log.world.ev

\* Nothing has happened since a static frame was opened, and the frames inside
\* it are static.
StaticOK(frames, wd) ==
  \A k \in 1 .. Len(frames) : frames[k].static =>
    frames[k].saved = wd /\ \A j \in k .. Len(frames) : frames[j].static

HistoryInv ==
  /\ trace # <<>> => trace[1].world = Genesis
  /\ trace = <<>> => world = Genesis
  /\ \A i \in 1 .. (Len(trace) - 1) :
       EventsFollow(i, trace[i], trace[i + 1].stack, trace[i + 1].world.ev, trace[i + 1].top)
  /\ trace # <<>> /\ ~halted => EventsFollow(Len(trace), trace[Len(trace)], stack, world.ev, flag)
  /\ \A i \in DOMAIN trace : StaticOK(trace[i].stack, trace[i].world)
  /\ StaticOK(stack, world)
  /\ halted => trace # <<>> /\ trace[Len(trace)].op = "STOP" /\ Len(trace[Len(trace)].stack) = 1

\* A step that records a log of the present frame.
LEMMA HistoryRecords ==
  ASSUME TraceInv, HistoryInv, ~halted, NEW log, trace' = Append(trace, log), log \in Log,
         log.stack = stack, log.world = world, log.top = flag, StaticOK(stack', world'),
         halted' \/ EventsFollow(Len(trace) + 1, log, stack', world'.ev, flag'),
         halted' => log.op = "STOP" /\ Len(stack) = 1
  PROVE  HistoryInv'
<1> DEFINE n == Len(trace)
<1> HIDE DEF Log
<1>1. trace \in Seq(Log) /\ n \in Nat /\ DOMAIN trace = 1 .. n
  BY LenProperties DEF TraceInv, EvmTypeOK
<1>2. /\ trace' \in Seq(Log) /\ Len(trace') = n + 1 /\ trace' # <<>>
      /\ trace'[n + 1] = log /\ \A i \in 1 .. n : trace'[i] = trace[i]
  BY <1>1, AppendProperties
<1>3. DOMAIN trace' = 1 .. (n + 1)
  BY <1>2, LenProperties
<1>4. trace'[1].world = Genesis
  <2>1. CASE trace = <<>>
    <3>1. n = 0
      BY <2>1
    <3> QED
      BY <1>2, <2>1, <3>1 DEF HistoryInv
  <2>2. CASE trace # <<>>
    <3>1. 1 \in 1 .. n
      BY <1>1, <2>2, EmptySeq
    <3> QED
      BY <1>2, <2>2, <3>1 DEF HistoryInv
  <2> QED
    BY <2>1, <2>2
<1>5. ASSUME NEW i \in 1 .. n
      PROVE  EventsFollow(i, trace'[i], trace'[i + 1].stack, trace'[i + 1].world.ev, trace'[i + 1].top)
  <2>1. CASE i = n
    <3>1. trace # <<>> /\ n >= 1
      BY <1>1, <1>5
    <3>2. EventsFollow(n, trace[n], stack, world.ev, flag)
      BY <3>1 DEF HistoryInv
    <3> QED
      BY <1>2, <2>1, <3>1, <3>2
  <2>2. CASE i # n
    <3>1. i \in 1 .. (n - 1) /\ i + 1 \in 1 .. n
      BY <1>1, <1>5, <2>2, Below
    <3> QED
      BY <1>2, <3>1 DEF HistoryInv
  <2> QED
    BY <2>1, <2>2
<1>6. ASSUME NEW i \in 1 .. (n + 1) PROVE StaticOK(trace'[i].stack, trace'[i].world)
  <2>1. i = n + 1 \/ i \in 1 .. n
    BY <1>1
  <2> QED
    BY <1>1, <1>2, <2>1 DEF HistoryInv
<1>7. \A i \in 1 .. (Len(trace') - 1) :
        EventsFollow(i, trace'[i], trace'[i + 1].stack, trace'[i + 1].world.ev, trace'[i + 1].top)
  BY <1>1, <1>2, <1>5
<1>8. ~halted' => EventsFollow(Len(trace'), trace'[Len(trace')], stack', world'.ev, flag')
  BY <1>2
<1>9. halted' => trace'[Len(trace')].op = "STOP" /\ Len(trace'[Len(trace')].stack) = 1
  BY <1>2
<1> HIDE DEF n
<1> QED
  BY <1>2, <1>3, <1>4, <1>6, <1>7, <1>8, <1>9 DEF HistoryInv

\* A log after which the same frames are open; the world may change in a frame
\* that is not static.
LEMMA HistoryStays ==
  ASSUME TraceInv, HistoryInv, ~halted, NEW log, Present(log), trace' = Append(trace, log),
         stack' = stack, world'.ev = EvAfter(Len(trace) + 1, log),
         world' = world \/ ~Top.static,
         halted' => log.op = "STOP" /\ Len(stack) = 1
  PROVE  HistoryInv'
<1>1. EventsFollow(Len(trace) + 1, log, stack', world'.ev, flag')
  BY DEF EventsFollow, Present
<1>2. StaticOK(stack', world')
  <2>1. CASE world' = world
    BY <2>1 DEF HistoryInv
  <2>2. CASE ~Top.static
    <3>1. ASSUME NEW k \in 1 .. Len(stack) PROVE ~stack[k].static
      <4>1. Len(stack) \in Nat /\ Len(stack) \in k .. Len(stack)
        BY TopFrame
      <4> QED
        BY <2>2, <4>1 DEF HistoryInv, StaticOK, Top
    <3> QED
      BY <3>1 DEF StaticOK
  <2> QED
    BY <2>1, <2>2
<1> QED
  BY <1>1, <1>2, HistoryRecords DEF Present

LEMMA HistoryOpens ==
  ASSUME TraceInv, HistoryInv, NEW op \in Calls, NEW to \in Ctx, NEW ctx, NEW static,
         Top.static => static, op = "STATICCALL" => static, op = "CREATE" => to = NoAddress,
         Open(op, to, ctx, static)
  PROVE  HistoryInv'
<1> DEFINE log == Entry(op, to, 0, 0, FALSE)
           e == [ctx |-> ctx, static |-> static, saved |-> world]
           n == Len(stack)
<1>1. Present(log) /\ log.op = op /\ ~log.error
  <2>1. op \in Ops /\ 0 \in Nat /\ EvmTypeOK
    BY DEF Calls, Ops, TraceInv
  <2> HIDE DEF World, OpenedFrame, Ctx, Ops
  <2> QED
    BY <2>1, PresentType DEF Entry, Log, Present, Addressed
<1>2. /\ trace' = Append(trace, log) /\ stack' = Append(stack, e) /\ flag' = 0 /\ halted' = halted
      /\ world' = world /\ ~halted
  BY DEF Open, Record, Executes
<1>3. e.static = static /\ e.saved = world
  OBVIOUS
<1>4. IsList(stack) /\ n \in Nat /\ n >= 1
  BY SeqList DEF TraceInv, EvmTypeOK, IsList
<1> HIDE DEF log, e
<1>5. /\ Len(stack') = n + 1 /\ stack'[n + 1] = e
      /\ \A k \in 1 .. n : stack'[k] = stack[k]
  BY <1>2, <1>4, ListAppend
<1>6. Last(stack') = e
  BY <1>5 DEF Last
<1>7. EventsFollow(Len(trace) + 1, log, stack', world'.ev, flag')
  BY <1>1, <1>2, <1>3, <1>4, <1>5, <1>6 DEF EventsFollow, Present
<1>8. ASSUME NEW k \in 1 .. Len(stack'), stack'[k].static
      PROVE  stack'[k].saved = world' /\ \A j \in k .. Len(stack') : stack'[j].static
  <2>1. CASE k = n + 1
    <3>1. \A j \in k .. Len(stack') : j = n + 1
      BY <1>4, <1>5, <2>1
    <3> QED
      BY <1>2, <1>3, <1>5, <1>8, <2>1, <3>1
  <2>2. CASE k # n + 1
    <3>1. k \in 1 .. n /\ n \in k .. n
      BY <1>4, <1>5, <2>2
    <3>2. stack[k].saved = world /\ \A j \in k .. n : stack[j].static
      BY <1>5, <1>8, <3>1 DEF HistoryInv, StaticOK
    <3>3. static
      BY <3>1, <3>2 DEF Top
    <3>4. \A j \in k .. Len(stack') : j = n + 1 \/ (j \in k .. n /\ j \in 1 .. n)
      BY <1>4, <1>5, <3>1
    <3> QED
      BY <1>2, <1>3, <1>5, <3>1, <3>2, <3>3, <3>4
  <2> QED
    BY <2>1, <2>2
<1>9. StaticOK(stack', world')
  BY <1>8 DEF StaticOK
<1> QED
  BY <1>1, <1>2, <1>7, <1>9, HistoryRecords DEF Present

LEMMA HistoryCloses ==
  ASSUME TraceInv, HistoryInv, ~halted, Len(stack) > 1, NEW log, Present(log),
         log.op # "LOG" \/ log.error,
         NEW v, NEW f \in {0, 1}, f = 0 => v = Top.saved, f = 1 => v = world, Close(log, v, f)
  PROVE  HistoryInv'
<1> DEFINE n == Len(stack)
<1>1. trace' = Append(trace, log) /\ world' = v /\ stack' = Front(stack) /\ flag' = f /\ halted' = halted
  BY DEF Close, Record, Front
<1>2. IsList(stack) /\ n \in Nat
  BY SeqList DEF TraceInv, EvmTypeOK, IsList
<1>3. /\ Len(stack') = n - 1 /\ \A k \in 1 .. (n - 1) : stack'[k] = stack[k]
  BY <1>1, <1>2, ListFront
<1>4. EventsFollow(Len(trace) + 1, log, stack', world'.ev, flag')
  BY <1>1, <1>2, <1>3, TopFrame DEF EventsFollow, Present
<1>5. ASSUME NEW k \in 1 .. (n - 1), stack[k].static
      PROVE  stack[k].saved = v /\ \A j \in k .. (n - 1) : stack[j].static
  <2>1. k \in 1 .. n /\ n \in k .. n /\ n \in 1 .. n /\ \A j \in k .. (n - 1) : j \in k .. n
    BY <1>2
  <2>2. stack[k].saved = world /\ \A j \in k .. n : stack[j].static
    BY <1>5, <2>1 DEF HistoryInv, StaticOK
  <2>3. Top.saved = world
    BY <2>1, <2>2 DEF HistoryInv, StaticOK, Top
  <2> QED
    BY <2>1, <2>2, <2>3
<1>6. StaticOK(stack', world')
  <2> HIDE DEF n
  <2>1. ASSUME NEW k \in 1 .. (n - 1), stack'[k].static
        PROVE  stack'[k].saved = world' /\ \A j \in k .. (n - 1) : stack'[j].static
    <3>1. \A j \in k .. (n - 1) : j \in 1 .. (n - 1)
      BY <1>2
    <3> QED
      BY <1>1, <1>3, <1>5, <2>1, <3>1
  <2> QED
    BY <1>3, <2>1 DEF StaticOK
<1> QED
  BY <1>1, <1>4, <1>6, HistoryRecords DEF Present

LEMMA EntryPresent ==
  ASSUME EvmTypeOK, NEW op \in Ops, NEW to \in Ctx, NEW s \in Nat, NEW v \in Nat,
         op = "CREATE" => to = NoAddress
  PROVE  LET log == Entry(op, to, s, v, FALSE)
         IN  Present(log) /\ log.op = op /\ ~log.error
<1> HIDE DEF World, OpenedFrame, Ctx, Ops
<1> QED
  BY PresentType DEF Entry, Log, Present, Addressed

LEMMA FailedPresent ==
  ASSUME EvmTypeOK, NEW op \in Ops
  PROVE  LET log == Entry(op, Root, Ctr, 1, TRUE) IN Present(log) /\ log.op = op /\ log.error
<1>1. Root \in Ctx /\ Ctr \in Nat /\ 1 \in Nat
  BY EvmAssumption DEF Ctx
<1> HIDE DEF World, OpenedFrame, Ctx, Ops
<1> QED
  BY <1>1, PresentType DEF Entry, Log, Present, Addressed

LEMMA HistoryExecute ==
  ASSUME TraceInv, HistoryInv, Execute
  PROVE  HistoryInv'
<1>0. /\ EvmTypeOK /\ world \in World /\ flag \in {0, 1} /\ Len(trace) \in Nat /\ Len(stack) \in Nat
      /\ NoAddress \in Ctx /\ Root \in Ctx /\ Contract \subseteq Ctx
  BY EvmAssumption, LenProperties, PresentType DEF TraceInv, EvmTypeOK, Ctx
<1>1. ASSUME NEW s \in Slot, NEW v \in Nat, ~halted, Write(s, v) PROVE HistoryInv'
  <2> DEFINE log == Entry("SSTORE", NoAddress, s, v, FALSE)
  <2>1. "SSTORE" \in Ops /\ s \in Nat
    BY EvmAssumption DEF Ops
  <2>2. Present(log) /\ log.op = "SSTORE"
    BY <1>0, EntryPresent, <2>1
  <2>3. trace' = Append(trace, log) /\ stack' = stack /\ halted' = halted /\ ~Top.static
    BY <1>1 DEF Write, Record
  <2>4. world'.ev = world.ev
    BY <1>0, <1>1 DEF Write, World
  <2> HIDE DEF log
  <2> QED
    BY <1>1, <2>2, <2>3, <2>4, HistoryStays DEF EvAfter, Present
<1>2. CASE Sstore
  BY <1>1, <1>2, EvmAssumption DEF Sstore, Executes
<1>3. CASE Increment
  <2>1. Ctr \in Slot /\ ~halted
    BY <1>3, EvmAssumption DEF Increment, Executes
  <2>2. CASE Top.ctx = NoAddress
    BY <1>1, <1>3, <2>1, <2>2 DEF Increment
  <2>3. CASE Top.ctx # NoAddress
    <3>1. Top.ctx \in Contract
      BY <2>3, TopFrame DEF Ctx
    <3>2. world.st[Top.ctx][Ctr] + 1 \in Nat
      BY <1>0, <2>1, <3>1 DEF World, Storage
    <3> QED
      BY <1>1, <1>3, <2>1, <2>3, <3>2 DEF Increment
  <2> QED
    BY <2>2, <2>3
<1>4. CASE Emit
  <2> DEFINE log == Entry("LOG", NoAddress, 0, 0, FALSE)
  <2>1. "LOG" \in Ops /\ 0 \in Nat
    BY DEF Ops
  <2>2. Present(log) /\ log.op = "LOG" /\ ~log.error
    BY <1>0, EntryPresent, <2>1
  <2>3. /\ trace' = Append(trace, log) /\ stack' = stack /\ halted' = halted /\ ~Top.static /\ ~halted
        /\ world' = [world EXCEPT !.ev = Append(@, <<Top.ctx, Len(trace) + 1>>)]
    BY <1>4 DEF Emit, Record, Executes
  <2>4. world'.ev = Append(world.ev, <<Top.ctx, Len(trace) + 1>>)
    BY <1>0, <2>3 DEF World
  <2> HIDE DEF log
  <2>5. EvAfter(Len(trace) + 1, log) = Append(world.ev, <<Top.ctx, Len(trace) + 1>>)
    BY <2>2, TopFrame DEF EvAfter, Present
  <2> QED
    BY <2>2, <2>3, <2>4, <2>5, HistoryStays
<1>5. CASE Tstore \/ Finish
  <2>1. PICK op \in {"TSTORE", "STOP"} :
          /\ trace' = Append(trace, Entry(op, NoAddress, 0, 0, FALSE))
          /\ halted' => op = "STOP" /\ Len(stack) = 1
    <3>1. CASE Tstore
      <4>1. ~halted' /\ trace' = Append(trace, Entry("TSTORE", NoAddress, 0, 0, FALSE))
        BY <3>1 DEF Tstore, Record, Executes
      <4> QED
        BY <4>1
    <3>2. CASE Finish
      BY <3>2 DEF Finish, Record
    <3> QED
      BY <1>5, <3>1, <3>2
  <2> DEFINE log == Entry(op, NoAddress, 0, 0, FALSE)
  <2>2. op \in Ops /\ 0 \in Nat
    BY DEF Ops
  <2>3. Present(log) /\ log.op = op
    BY <1>0, EntryPresent, <2>2
  <2>4. stack' = stack /\ world' = world /\ ~halted
    BY <1>5 DEF Tstore, Finish, Executes
  <2> HIDE DEF log
  <2> QED
    BY <2>1, <2>3, <2>4, HistoryStays DEF log, EvAfter, Present
<1>6. CASE OpenFrame
  <2>1. ASSUME NEW c \in Contract, Open("CALL", c, c, Top.static) PROVE HistoryInv'
    BY <1>0, <2>1, HistoryOpens DEF Calls
  <2>2. ASSUME NEW c \in Contract, Open("STATICCALL", c, c, TRUE) PROVE HistoryInv'
    BY <1>0, <2>2, HistoryOpens DEF Calls
  <2>3. ASSUME Open("DELEGATECALL", NoAddress, Top.ctx, Top.static) PROVE HistoryInv'
    BY <1>0, <2>3, HistoryOpens DEF Calls
  <2>4. ASSUME ~Top.static, Open("CREATE", NoAddress, NoAddress, FALSE) PROVE HistoryInv'
    BY <1>0, <2>4, HistoryOpens DEF Calls
  <2> QED
    BY <1>6, <2>1, <2>2, <2>3, <2>4 DEF OpenFrame
<1>7. CASE Inline
  <2>1. PICK op \in Calls, to \in Ctx :
          /\ trace' = Append(trace, Entry(op, to, 0, 0, FALSE))
          /\ op = "CREATE" => to = NoAddress
    BY <1>0, <1>7 DEF Inline, Calls, Record
  <2> DEFINE log == Entry(op, to, 0, 0, FALSE)
  <2>2. op \in Ops /\ 0 \in Nat /\ op # "LOG"
    BY DEF Ops, Calls
  <2>3. Present(log) /\ log.op = op
    BY <1>0, EntryPresent, <2>1, <2>2
  <2>4. stack' = stack /\ halted' = halted /\ ~halted /\ world' = world
    BY <1>7 DEF Inline, Executes
  <2> HIDE DEF log
  <2> QED
    BY <2>1, <2>2, <2>3, <2>4, HistoryStays DEF log, EvAfter, Present
<1>8. CASE Revert \/ Return
  <2>1. ~halted /\ Len(stack) > 1
    BY <1>8 DEF Revert, Return, Executes
  <2>2. PICK op \in {"REVERT", "STOP"} :
          Close(Entry(op, NoAddress, 0, 0, FALSE), IF op = "STOP" THEN world ELSE Top.saved,
                IF op = "STOP" THEN 1 ELSE 0)
    BY <1>8 DEF Revert, Return
  <2> DEFINE log == Entry(op, NoAddress, 0, 0, FALSE)
             v == IF op = "STOP" THEN world ELSE Top.saved
             f == IF op = "STOP" THEN 1 ELSE 0
  <2>3. op \in Ops /\ 0 \in Nat /\ op # "LOG"
    BY DEF Ops
  <2>4. Present(log) /\ log.op = op
    BY <1>0, EntryPresent, <2>3
  <2>5. f \in {0, 1} /\ (f = 0 => v = Top.saved) /\ (f = 1 => v = world)
    OBVIOUS
  <2>6. Close(log, v, f)
    BY <2>2
  <2> HIDE DEF log, v, f
  <2> QED
    BY <2>1, <2>3, <2>4, <2>5, <2>6, HistoryCloses
<1>9. CASE Halt
  <2>1. ~halted /\ Len(stack) > 1
    BY <1>9 DEF Halt, Executes
  <2>2. PICK op \in Ops : Close(Entry(op, Root, Ctr, 1, TRUE), Top.saved, 0)
    BY <1>9 DEF Halt, Ops
  <2> DEFINE log == Entry(op, Root, Ctr, 1, TRUE)
  <2>4. Present(log) /\ log.error
    BY <1>0, FailedPresent
  <2>6. Close(log, Top.saved, 0)
    BY <2>2
  <2> HIDE DEF log
  <2> QED
    BY <2>1, <2>4, <2>6, HistoryCloses
<1> QED
  BY <1>2, <1>3, <1>4, <1>5, <1>6, <1>7, <1>8, <1>9 DEF Execute

LEMMA HistoryStarts == Init => HistoryInv
<1> SUFFICES ASSUME Init PROVE HistoryInv
  OBVIOUS
<1> DEFINE f == [ctx |-> Root, static |-> FALSE, saved |-> Genesis]
<1>1. /\ world = Genesis /\ stack = <<f>> /\ flag = 0 /\ trace = <<>> /\ halted = FALSE
  BY DEF Init, EvmInit
<1>2. ~f.static
  OBVIOUS
<1> HIDE DEF f
<1>3. Len(stack) = 1 /\ stack[1] = f /\ Len(trace) = 0 /\ DOMAIN trace = {}
  BY <1>1
<1>4. StaticOK(stack, world)
  BY <1>2, <1>3 DEF StaticOK
<1> QED
  BY <1>1, <1>3, <1>4 DEF HistoryInv

LEMMA HistoryStep == TraceInv /\ HistoryInv /\ [Next]_vars => HistoryInv'
<1> SUFFICES ASSUME TraceInv, HistoryInv, [Next]_vars PROVE HistoryInv'
  OBVIOUS
<1>1. CASE Execute
  BY <1>1, HistoryExecute
<1>2. CASE UNCHANGED evmVars
  BY <1>2 DEF HistoryInv, evmVars
<1>3. Execute \/ UNCHANGED evmVars
  BY DEF Next, vars, Scan, Walk, Split, Apply, Done, WalkErrored, WalkNothing, WalkStore,
     WalkUnsupported, WalkDelegate, WalkStatic, WalkLog, WalkNative, WalkCreate, WalkCall,
     WalkNested, WalkFails, Becomes
<1> QED
  BY <1>1, <1>2, <1>3

-----------------------------------------------------------------------------
(* Updates applied one after another. *)

\* Applying update u to the root takes the chain from one world to another; a
\* call is applied only where the chain is what the trace saw.
Effect(u, before, after) ==
  \/ u.op = "STORE" /\ after = [before EXCEPT !.st[Root][u.slot] = u.value]
  \/ u.op = "LOG" /\ after = [before EXCEPT !.ev = Append(@, <<Root, u.at>>)]
  \/ /\ u.op \in {"CALL", "CREATE"}
     /\ before = trace[u.at].world /\ after = trace[Resume(u.at)].world
     /\ u.op = "CREATE" => Succeeded(u.at)

\* h is the world after each of the updates.
History(h, updates, from, to) ==
  /\ h[0] = from /\ h[Len(updates)] = to
  /\ \A j \in 1 .. Len(updates) : Effect(updates[j], h[j - 1], h[j])

Runs(updates, from, to) == IsList(updates) /\ \E h : History(h, updates, from, to)

LEMMA EmptyList == IsList(<<>>) /\ Len(<<>>) = 0
<1>1. <<>> \in Seq({})
  OBVIOUS
<1> QED
  BY <1>1, SeqList

LEMMA RunsNothing ==
  ASSUME NEW from
  PROVE  Runs(<<>>, from, from)
<1> DEFINE h == [j \in 0 .. 0 |-> from]
<1>1. h[0] = from
  OBVIOUS
<1>2. History(h, <<>>, from, from)
  BY <1>1, EmptyList DEF History
<1> QED
  BY <1>2, EmptyList DEF Runs

LEMMA ConcatList ==
  ASSUME NEW s, IsList(s), NEW t, IsList(t)
  PROVE  /\ IsList(s \o t) /\ Len(s \o t) = Len(s) + Len(t)
         /\ \A k \in 1 .. Len(s) : (s \o t)[k] = s[k]
         /\ \A k \in 1 .. Len(t) : (s \o t)[Len(s) + k] = t[k]
<1> DEFINE S == {s[k] : k \in 1 .. Len(s)} \cup {t[k] : k \in 1 .. Len(t)}
<1>1. s \in Seq(S) /\ t \in Seq(S)
  <2>1. s \in Seq({s[k] : k \in 1 .. Len(s)}) /\ t \in Seq({t[k] : k \in 1 .. Len(t)})
    BY ListSeq
  <2>2. {s[k] : k \in 1 .. Len(s)} \subseteq S /\ {t[k] : k \in 1 .. Len(t)} \subseteq S
    OBVIOUS
  <2> QED
    BY <2>1, <2>2, SeqMonotonic
<1> HIDE DEF S
<1>2. Len(s) \in Nat /\ Len(t) \in Nat
  BY <1>1, LenProperties
<1>3. /\ s \o t \in Seq(S) /\ Len(s \o t) = Len(s) + Len(t)
      /\ \A k \in 1 .. Len(s) + Len(t) :
           (s \o t)[k] = IF k <= Len(s) THEN s[k] ELSE t[k - Len(s)]
  BY <1>1, ConcatProperties
<1>4. ASSUME NEW k \in 1 .. Len(t) PROVE (s \o t)[Len(s) + k] = t[k]
  <2>1. Len(s) + k \in 1 .. Len(s) + Len(t) /\ ~(Len(s) + k <= Len(s)) /\ Len(s) + k - Len(s) = k
    BY <1>2
  <2> QED
    BY <1>3, <2>1
<1>5. \A k \in 1 .. Len(s) : (s \o t)[k] = s[k]
  BY <1>2, <1>3
<1> QED
  BY <1>3, <1>4, <1>5, SeqList

LEMMA RunsConcat ==
  ASSUME NEW u, NEW v, NEW a, NEW b, NEW c, Runs(u, a, b), Runs(v, b, c)
  PROVE  Runs(u \o v, a, c)
<1> DEFINE m == Len(u)
           n == Len(v)
           s == u \o v
<1>1. IsList(u) /\ IsList(v) /\ m \in Nat /\ n \in Nat
  BY DEF Runs, IsList
<1>2. /\ IsList(s) /\ Len(s) = m + n
      /\ \A k \in 1 .. m : s[k] = u[k]
      /\ \A k \in 1 .. n : s[m + k] = v[k]
  BY <1>1, ConcatList
<1>3. PICK g : History(g, u, a, b)
  BY DEF Runs
<1>4. PICK h : History(h, v, b, c)
  BY DEF Runs
<1> HIDE DEF m, n, s
<1> DEFINE f == [j \in 0 .. (m + n) |-> IF j <= m THEN g[j] ELSE h[j - m]]
<1>5. /\ \A j \in 0 .. m : f[j] = g[j]
      /\ \A j \in 0 .. n : f[m + j] = h[j]
  <2>1. \A j \in 0 .. m : f[j] = g[j]
    BY <1>1
  <2>2. ASSUME NEW j \in 0 .. n PROVE f[m + j] = h[j]
    <3>1. CASE j = 0
      <4>1. f[m + j] = g[m]
        BY <1>1, <3>1
      <4>2. g[m] = b /\ h[0] = b
        BY <1>3, <1>4 DEF History, m
      <4> QED
        BY <3>1, <4>1, <4>2
    <3>2. CASE j # 0
      <4> DEFINE x == m + j
      <4>1. x \in 0 .. (m + n) /\ ~(x <= m) /\ x - m = j
        BY <1>1, <3>2
      <4> HIDE DEF x
      <4>2. f[x] = h[x - m]
        BY <4>1
      <4> QED
        BY <4>1, <4>2 DEF x
    <3> QED
      BY <3>1, <3>2
  <2> QED
    BY <2>1, <2>2
<1> HIDE DEF f
<1>6. f[0] = a /\ f[m + n] = c
  BY <1>1, <1>3, <1>4, <1>5 DEF History, m, n
<1>7. ASSUME NEW j \in 1 .. (m + n) PROVE Effect(s[j], f[j - 1], f[j])
  <2>1. CASE j <= m
    <3>1. j \in 1 .. m /\ j \in 0 .. m /\ j - 1 \in 0 .. m
      BY <1>1, <2>1
    <3>2. Effect(u[j], g[j - 1], g[j])
      BY <1>3, <3>1 DEF History, m
    <3> QED
      BY <1>2, <1>5, <3>1, <3>2
  <2>2. CASE ~(j <= m)
    <3> DEFINE k == j - m
    <3>1. k \in 1 .. n /\ k \in 0 .. n /\ k - 1 \in 0 .. n /\ j = m + k /\ j - 1 = m + (k - 1)
      BY <1>1, <2>2
    <3> HIDE DEF k
    <3>2. Effect(v[k], h[k - 1], h[k])
      BY <1>4, <3>1 DEF History, n
    <3>3. s[j] = v[k] /\ f[j] = h[k] /\ f[j - 1] = h[k - 1]
      BY <1>2, <1>5, <3>1
    <3> QED
      BY <3>2, <3>3
  <2> QED
    BY <2>1, <2>2
<1>8. History(f, s, a, c)
  BY <1>2, <1>6, <1>7 DEF History
<1> QED
  BY <1>2, <1>8 DEF Runs, s

LEMMA RunsAppend ==
  ASSUME NEW q, NEW u, NEW a, NEW b, NEW c, Runs(q, a, b), Effect(u, b, c)
  PROVE  Runs(Append(q, u), a, c)
<1> DEFINE n == Len(q)
           s == Append(q, u)
<1>1. IsList(q) /\ n \in Nat
  BY DEF Runs, IsList
<1>2. IsList(s) /\ Len(s) = n + 1 /\ s[n + 1] = u /\ \A k \in 1 .. n : s[k] = q[k]
  BY <1>1, ListAppend
<1>3. PICK g : History(g, q, a, b)
  BY DEF Runs
<1> HIDE DEF n, s
<1> DEFINE f == [j \in 0 .. (n + 1) |-> IF j <= n THEN g[j] ELSE c]
<1>4. f[n + 1] = c /\ \A j \in 0 .. n : f[j] = g[j]
  BY <1>1
<1> HIDE DEF f
<1>5. f[0] = a /\ f[n] = b
  BY <1>1, <1>3, <1>4 DEF History, n
<1>6. ASSUME NEW j \in 1 .. (n + 1) PROVE Effect(s[j], f[j - 1], f[j])
  <2>1. CASE j <= n
    <3>1. j \in 1 .. n /\ j \in 0 .. n /\ j - 1 \in 0 .. n
      BY <1>1, <2>1
    <3>2. Effect(q[j], g[j - 1], g[j])
      BY <1>3, <3>1 DEF History, n
    <3> QED
      BY <1>2, <1>4, <3>1, <3>2
  <2>2. CASE ~(j <= n)
    <3>1. j = n + 1 /\ j - 1 = n
      BY <1>1, <2>2
    <3> QED
      BY <1>2, <1>4, <1>5, <3>1
  <2> QED
    BY <2>1, <2>2
<1>7. History(f, s, a, c)
  BY <1>2, <1>4, <1>5, <1>6 DEF History
<1> QED
  BY <1>2, <1>7 DEF Runs, s

LEMMA WorldSame ==
  ASSUME NEW a \in World, NEW b \in World, a.ev = b.ev,
         \A c \in Contract, s \in Slot : a.st[c][s] = b.st[c][s]
  PROVE  a = b
<1>1. a.st \in Storage /\ b.st \in Storage
  BY DEF World
<1>2. ASSUME NEW c \in Contract PROVE a.st[c] = b.st[c]
  <2>1. a.st[c] \in [Slot -> Nat] /\ b.st[c] \in [Slot -> Nat]
    BY <1>1 DEF Storage
  <2> QED
    BY <2>1
<1>3. a.st = b.st
  BY <1>1, <1>2 DEF Storage
<1> QED
  BY <1>3 DEF World

\* Every slot of a finite set has its place in the order, and every place a slot.
LEMMA OrderedSlots ==
  ASSUME NEW slots \in SUBSET Slot
  PROVE  LET stores == InOrder(slots)
         IN  /\ Cardinality(slots) \in Nat /\ DOMAIN stores = 1 .. Cardinality(slots)
             /\ \A k \in DOMAIN stores : stores[k] \in slots
             /\ \A s \in slots : \E k \in DOMAIN stores : stores[k] = s
<1> DEFINE n == Cardinality(slots)
           To(s) == {t \in slots : t <= s}
           rank == [s \in slots |-> Cardinality(To(s))]
           R == {rank[s] : s \in slots}
<1>1. IsFiniteSet(slots) /\ n \in Nat
  BY EvmAssumption, FS_Subset, FS_CardinalityType
<1>2. slots \subseteq Nat
  BY EvmAssumption
<1>3. ASSUME NEW s \in slots PROVE IsFiniteSet(To(s)) /\ rank[s] \in 1 .. n
  <2>1. IsFiniteSet(To(s)) /\ Cardinality(To(s)) <= n
    BY <1>1, FS_Subset
  <2>2. To(s) # {} /\ Cardinality(To(s)) \in Nat
    BY <1>2, <2>1, FS_CardinalityType
  <2>3. Cardinality(To(s)) # 0
    BY <2>1, <2>2, FS_EmptySet
  <2> QED
    BY <1>1, <2>1, <2>2, <2>3
<1>4. ASSUME NEW s \in slots, NEW t \in slots, rank[s] = rank[t] PROVE s = t
  <2>1. ASSUME NEW a \in slots, NEW b \in slots, rank[a] = rank[b], a < b PROVE FALSE
    <3>1. a \in Nat /\ b \in Nat
      BY <1>2
    <3>2. To(a) \in SUBSET To(b) /\ b \in To(b) /\ b \notin To(a)
      <4>1. b <= b /\ ~(b <= a) /\ \A x \in Nat : x <= a => x <= b
        BY <2>1, <3>1
      <4> HIDE DEF rank
      <4> QED
        BY <1>2, <4>1
    <3>3. Cardinality(To(b)) = Cardinality(To(a))
      BY <2>1
    <3>4. IsFiniteSet(To(b))
      BY <1>3
    <3> HIDE DEF To
    <3>5. To(b) = To(a)
      BY <3>2, <3>3, <3>4, FS_Subset
    <3> QED
      BY <3>2, <3>5
  <2>2. s \in Nat /\ t \in Nat
    BY <1>2
  <2> QED
    BY <1>4, <2>1, <2>2
<1>5. R = 1 .. n
  <2> HIDE DEF rank
  <2>1. rank \in [slots -> R]
    <3>1. DOMAIN rank = slots /\ rank = [s \in slots |-> rank[s]]
      BY DEF rank
    <3> QED
      BY <3>1
  <2>2. rank \in Bijection(slots, R)
    BY <1>4, <2>1 DEF Bijection, Injection, Surjection, IsInjective
  <2>3. Cardinality(R) = n
    BY <1>1, <2>2, FS_Bijection DEF ExistsBijection
  <2>4. R \in SUBSET (1 .. n)
    BY <1>3
  <2>5. IsFiniteSet(1 .. n) /\ Cardinality(1 .. n) = n
    <3> HIDE DEF n
    <3>1. 1 \in Int /\ n \in Int
      BY <1>1
    <3>2. IsFiniteSet(1 .. n) /\ Cardinality(1 .. n) = IF 1 > n THEN 0 ELSE n - 1 + 1
      BY <3>1, FS_Interval
    <3> QED
      BY <1>1, <3>2
  <2> HIDE DEF R, n
  <2> QED
    BY <2>3, <2>4, <2>5, FS_Subset
<1> DEFINE stores == InOrder(slots)
<1>6. /\ DOMAIN stores = 1 .. n
      /\ \A k \in 1 .. n : stores[k] = CHOOSE s \in slots : rank[s] = k
  <2>1. stores = [k \in 1 .. n |-> CHOOSE s \in slots : Cardinality({t \in slots : t <= s}) = k]
    BY DEF InOrder
  <2>2. ASSUME NEW k \in 1 .. n
        PROVE  (CHOOSE s \in slots : Cardinality({t \in slots : t <= s}) = k)
               = CHOOSE s \in slots : rank[s] = k
    OBVIOUS
  <2> HIDE DEF stores, rank
  <2> QED
    BY <2>1, <2>2
<1> HIDE DEF stores, rank
<1>7. ASSUME NEW k \in 1 .. n PROVE stores[k] \in slots /\ rank[stores[k]] = k
  <2>1. \E s \in slots : rank[s] = k
    BY <1>5
  <2> QED
    BY <1>6, <2>1
<1>8. ASSUME NEW s \in slots PROVE rank[s] \in 1 .. n /\ stores[rank[s]] = s
  BY <1>3, <1>4, <1>7
<1> QED
  BY <1>1, <1>6, <1>7, <1>8 DEF stores

-----------------------------------------------------------------------------
(* What the updates of the open frames come to.                             *)

Emits(f) == f.program # {}

\* No journal of the first k frames has slot s of the root.
Untouched(frames, k, s) == \A j \in 1 .. k : s \notin DOMAIN frames[j].journal[Root]

\* The updates so far lead to C, which is the native world `seen` but for the
\* root's slots that await a slice; the view is what they have set.
Clean(frames, k, C, seen) ==
  /\ C \in World /\ seen \in World /\ C.ev = seen.ev
  /\ \A c \in Contract \ {Root} : C.st[c] = seen.st[c]
  /\ \A s \in DOMAIN frames[k].view : s \in Slot /\ frames[k].view[s] = C.st[Root][s]
  /\ \A s \in Slot : Untouched(frames, k, s) => s \notin DOMAIN frames[k].view /\ C.st[Root][s] = 0

\* The frame has called out from the world `seen`, which its view is true of.
Away(frames, k, seen) ==
  /\ seen \in World
  /\ \A s \in DOMAIN frames[k].view : s \in Slot /\ frames[k].view[s] = seen.st[Root][s]
  /\ \A s \in Slot : Untouched(frames, k, s) => s \notin DOMAIN frames[k].view

\* The last update is the call o.emits at log o.start; those before it lead to the
\* world the trace saw there.
Called(out, from, o) ==
  \E q : out = Append(q, UpdateAt(o.emits, o.start)) /\ Runs(q, from, trace[o.start].world)

\* The updates of frame k lead from C[k - 1] to C[k] or into the call o.
Level(C, frames, k, seen, o) ==
  IF o.emits = "none" THEN Runs(frames[k].out, C[k - 1], C[k]) /\ Clean(frames, k, C[k], seen)
  ELSE Called(frames[k].out, C[k - 1], o) /\ Away(frames, k, seen)

Seen(frames, opened, wd, k) == IF k = Len(frames) THEN wd ELSE opened[k + 1].saved
OpenOp(frames, o, k) == IF k = Len(frames) THEN o ELSE frames[k + 1]

Tracked(C, frames, opened, wd, o) ==
  /\ C[0] = Genesis
  /\ \A k \in 1 .. Len(frames) : Emits(frames[k]) =>
       Level(C, frames, k, Seen(frames, opened, wd, k), OpenOp(frames, o, k))

\* g is f, but may have forgotten some of its view.
Trims(f, g) ==
  /\ FrameOK(g) /\ g.program = f.program /\ g.out = f.out /\ g.journal = f.journal /\ g.ctx = f.ctx
  /\ g.emits = f.emits /\ g.start = f.start /\ g.nested = f.nested
  /\ g.first_program = f.first_program
  /\ DOMAIN g.view \subseteq DOMAIN f.view /\ \A s \in DOMAIN g.view : g.view[s] = f.view[s]

LEMMA LevelKept ==
  ASSUME NEW k \in Nat, k >= 1, NEW frames, NEW other, \A j \in 1 .. k : Trims(frames[j], other[j]),
         NEW C, NEW D, D[k] = C[k], D[k - 1] = C[k - 1],
         NEW o, NEW p, p.emits = o.emits, p.start = o.start,
         NEW seen, Level(C, frames, k, seen, o)
  PROVE  Level(D, other, k, seen, p)
<1>1. Trims(frames[k], other[k])
  OBVIOUS
<1>2. ASSUME NEW s, Untouched(other, k, s) PROVE Untouched(frames, k, s)
  BY <1>2 DEF Untouched, Trims
<1> DEFINE f == frames[k]
           g == other[k]
<1>3. /\ g.out = f.out /\ DOMAIN g.view \subseteq DOMAIN f.view
      /\ \A s \in DOMAIN g.view : g.view[s] = f.view[s]
  BY <1>1 DEF Trims
<1>4. CASE o.emits = "none"
  <2>1. Runs(f.out, C[k - 1], C[k]) /\ Clean(frames, k, C[k], seen)
    BY <1>4 DEF Level
  <2>2. Clean(other, k, C[k], seen)
    BY <1>2, <1>3, <2>1 DEF Clean
  <2> QED
    BY <1>3, <1>4, <2>1, <2>2 DEF Level
<1>5. CASE o.emits # "none"
  <2>1. Called(f.out, C[k - 1], o) /\ Away(frames, k, seen)
    BY <1>5 DEF Level
  <2>2. Away(other, k, seen)
    BY <1>2, <1>3, <2>1 DEF Away
  <2>3. Called(g.out, D[k - 1], p)
    BY <1>3, <2>1 DEF Called
  <2> QED
    BY <1>5, <2>2, <2>3 DEF Level
<1> QED
  BY <1>4, <1>5

\* The frames above the mth are gone, and the mth is another.
Shortens(frames, opened, m, other, less) ==
  /\ m \in Nat /\ Len(frames) \in Nat /\ m >= 1 /\ m <= Len(frames) /\ Len(other) = m
  /\ \A k \in 1 .. (m - 1) : Trims(frames[k], other[k])
  /\ other[m].emits = frames[m].emits /\ other[m].start = frames[m].start
  /\ \A k \in 1 .. m : less[k] = opened[k]

LEMMA TrackedTop ==
  ASSUME NEW frames, NEW opened, NEW wd0, NEW o0, NEW C, Tracked(C, frames, opened, wd0, o0),
         NEW m, NEW other, NEW less, Shortens(frames, opened, m, other, less),
         NEW wd, NEW o, NEW D, \A j \in 0 .. (m - 1) : D[j] = C[j],
         Emits(other[m]) => Level(D, other, m, wd, o)
  PROVE  Tracked(D, other, less, wd, o)
<1>0. /\ m \in Nat /\ Len(frames) \in Nat /\ m >= 1 /\ m <= Len(frames) /\ Len(other) = m
      /\ \A k \in 1 .. (m - 1) : Trims(frames[k], other[k])
      /\ other[m].emits = frames[m].emits /\ other[m].start = frames[m].start
      /\ \A k \in 1 .. m : less[k] = opened[k]
  BY DEF Shortens
<1> USE <1>0
<1>1. D[0] = Genesis
  BY DEF Tracked
<1>2. ASSUME NEW k \in 1 .. m, Emits(other[k])
      PROVE  Level(D, other, k, Seen(other, less, wd, k), OpenOp(other, o, k))
  <2>1. CASE k = m
    BY <1>2, <2>1 DEF Seen, OpenOp
  <2>2. CASE k # m
    <3>1. /\ k \in Nat /\ k >= 1 /\ k \in 1 .. (m - 1) /\ k \in 1 .. Len(frames) /\ k # Len(frames)
          /\ k \in 0 .. (m - 1) /\ k - 1 \in 0 .. (m - 1) /\ k + 1 \in 1 .. m
      BY <2>2
    <3>2. \A j \in 1 .. k : Trims(frames[j], other[j])
      BY <3>1
    <3>3. Emits(frames[k])
      BY <1>2, <3>1, <3>2 DEF Trims, Emits
    <3>4. Level(C, frames, k, opened[k + 1].saved, frames[k + 1])
      BY <3>1, <3>3 DEF Tracked, Seen, OpenOp
    <3>5. other[k + 1].emits = frames[k + 1].emits /\ other[k + 1].start = frames[k + 1].start
      <4>1. k + 1 = m \/ k + 1 \in 1 .. (m - 1)
        BY <3>1
      <4> QED
        BY <4>1 DEF Trims
    <3>6. D[k] = C[k] /\ D[k - 1] = C[k - 1]
      BY <3>1
    <3>7. Level(D, other, k, opened[k + 1].saved, other[k + 1])
      <4> DEFINE sv == opened[k + 1].saved
                 a == frames[k + 1]
                 b == other[k + 1]
      <4>1. k \in Nat /\ k >= 1 /\ Level(C, frames, k, sv, a) /\ b.emits = a.emits /\ b.start = a.start
        BY <3>1, <3>4, <3>5
      <4> HIDE DEF sv, a, b
      <4>2. Level(D, other, k, sv, b)
        BY <3>2, <3>6, <4>1, LevelKept
      <4> QED
        BY <4>2 DEF sv, b
    <3>8. Seen(other, less, wd, k) = opened[k + 1].saved /\ OpenOp(other, o, k) = other[k + 1]
      BY <2>2, <3>1 DEF Seen, OpenOp
    <3> QED
      BY <3>7, <3>8
  <2> QED
    BY <2>1, <2>2
<1> QED
  BY <1>1, <1>2 DEF Tracked

\* A frame f is opened by the call o.
Adds(frames, opened, wd, o, f, more) ==
  /\ Frameful(frames) /\ Len(opened) = Len(frames)
  /\ \A k \in 1 .. Len(opened) : more[k] = opened[k]
  /\ more[Len(opened) + 1].saved = wd
  /\ f.emits = o.emits /\ f.start = o.start /\ f.out = <<>>
  /\ \A c \in Contract : DOMAIN f.journal[c] = {}
  /\ Emits(f) =>
       Emits(frames[Len(frames)]) /\ f.emits = "none" /\ f.view = frames[Len(frames)].view

LEMMA TrackedOpened ==
  ASSUME NEW frames, NEW opened, NEW wd, NEW o, NEW C, Tracked(C, frames, opened, wd, o),
         NEW f, NEW more, Adds(frames, opened, wd, o, f, more), NEW q, q.emits = "none"
  PROVE  \E D : Tracked(D, Append(frames, f), more, wd, q)
<1>0. /\ Frameful(frames) /\ Len(opened) = Len(frames)
      /\ \A k \in 1 .. Len(opened) : more[k] = opened[k]
      /\ more[Len(opened) + 1].saved = wd
      /\ f.emits = o.emits /\ f.start = o.start /\ f.out = <<>>
      /\ \A c \in Contract : DOMAIN f.journal[c] = {}
      /\ Emits(f) =>
           Emits(frames[Len(frames)]) /\ f.emits = "none" /\ f.view = frames[Len(frames)].view
  BY DEF Adds
<1> USE <1>0
<1> DEFINE n == Len(frames)
           other == Append(frames, f)
           D == [j \in 0 .. (n + 1) |-> IF j <= n THEN C[j] ELSE C[n]]
<1>1. n \in Nat /\ n >= 1 /\ IsList(frames)
  BY DEF Frameful, IsList
<1>2. /\ Len(other) = n + 1 /\ other[n + 1] = f
      /\ \A k \in 1 .. n : other[k] = frames[k]
  BY <1>1, ListAppend
<1>3. D[n + 1] = C[n] /\ \A j \in 0 .. n : D[j] = C[j]
  BY <1>1
<1> HIDE DEF n, other, D
<1>4. D[0] = Genesis
  BY <1>1, <1>3 DEF Tracked
<1>5. \A k \in 1 .. n : Trims(frames[k], other[k])
  BY <1>2 DEF Trims, Frameful, n
<1>6. ASSUME NEW k \in 1 .. n, Emits(other[k])
      PROVE  Level(D, other, k, Seen(other, more, wd, k), OpenOp(other, q, k))
  <2>1. /\ k \in Nat /\ k >= 1 /\ k # n + 1 /\ k \in 0 .. n /\ k - 1 \in 0 .. n /\ k + 1 \in 1 .. (n + 1)
        /\ \A j \in 1 .. k : j \in 1 .. n
    BY <1>1
  <2>2. Level(C, frames, k, Seen(frames, opened, wd, k), OpenOp(frames, o, k))
    BY <1>2, <1>6 DEF Tracked, n
  <2>3. Seen(other, more, wd, k) = Seen(frames, opened, wd, k)
    <3>1. CASE k = n
      BY <1>2, <2>1, <3>1 DEF Seen, n
    <3>2. CASE k # n
      <4>1. k + 1 \in 1 .. n
        BY <1>1, <3>2
      <4> QED
        BY <1>2, <2>1, <3>2, <4>1 DEF Seen, n
    <3> QED
      BY <3>1, <3>2
  <2>4. /\ OpenOp(other, q, k).emits = OpenOp(frames, o, k).emits
        /\ OpenOp(other, q, k).start = OpenOp(frames, o, k).start
    <3>1. CASE k = n
      BY <1>2, <2>1, <3>1 DEF OpenOp, n
    <3>2. CASE k # n
      <4>1. k + 1 \in 1 .. n
        BY <1>1, <3>2
      <4> QED
        BY <1>2, <2>1, <3>2, <4>1 DEF OpenOp, n
    <3> QED
      BY <3>1, <3>2
  <2>5. D[k] = C[k] /\ D[k - 1] = C[k - 1]
    BY <1>3, <2>1
  <2>6. \A j \in 1 .. k : Trims(frames[j], other[j])
    BY <1>5, <2>1
  <2> QED
    BY <2>1, <2>2, <2>3, <2>4, <2>5, <2>6, LevelKept
<1>7. ASSUME Emits(f) PROVE Level(D, other, n + 1, wd, q)
  <2> DEFINE g == frames[n]
  <2>1. Emits(g) /\ o.emits = "none" /\ f.view = g.view
    BY <1>7 DEF n
  <2>2. Level(C, frames, n, wd, o)
    BY <1>1, <2>1 DEF Tracked, Seen, OpenOp, n
  <2>3. Clean(frames, n, C[n], wd)
    BY <2>1, <2>2 DEF Level
  <2>4. ASSUME NEW s, Untouched(other, n + 1, s) PROVE Untouched(frames, n, s)
    BY <1>1, <1>2, <2>4 DEF Untouched
  <2>5. Clean(other, n + 1, C[n], wd)
    BY <1>2, <2>1, <2>3, <2>4 DEF Clean
  <2>6. D[(n + 1) - 1] = C[n]
    BY <1>1, <1>3
  <2>7. Runs(other[n + 1].out, D[(n + 1) - 1], D[n + 1])
    BY <1>2, <1>3, <2>6, RunsNothing
  <2> QED
    BY <1>3, <2>5, <2>7 DEF Level
<1>8. ASSUME NEW k \in 1 .. (n + 1), Emits(other[k])
      PROVE  Level(D, other, k, Seen(other, more, wd, k), OpenOp(other, q, k))
  <2>1. CASE k = n + 1
    BY <1>2, <1>7, <1>8, <2>1 DEF Seen, OpenOp
  <2>2. CASE k # n + 1
    <3>1. k \in 1 .. n
      BY <1>1, <2>2
    <3> QED
      BY <1>6, <1>8, <3>1
  <2> QED
    BY <2>1, <2>2
<1>9. Tracked(D, other, more, wd, q)
  BY <1>2, <1>4, <1>8 DEF Tracked
<1> QED
  BY <1>9 DEF other

\* Stores to the root's slots in `dirty`, in any order, make C the world wd.
LEMMA StoresRun ==
  ASSUME NEW C \in World, NEW wd \in World, NEW dirty \in SUBSET Slot, NEW value,
         \A s \in dirty : value[s] = wd.st[Root][s], C.ev = wd.ev,
         \A c \in Contract, s \in Slot : ~(c = Root /\ s \in dirty) => C.st[c][s] = wd.st[c][s]
  PROVE  LET stores == InOrder(dirty)
         IN  Runs([k \in DOMAIN stores |-> Store(stores[k], value[stores[k]])], C, wd)
<1> DEFINE stores == InOrder(dirty)
           n == Cardinality(dirty)
           u == [k \in DOMAIN stores |-> Store(stores[k], value[stores[k]])]
           Wd(S) == [st |-> [c \in Contract |-> [s \in Slot |->
                               IF c = Root /\ s \in S THEN wd.st[Root][s] ELSE C.st[c][s]]],
                     ev |-> C.ev]
           Past(j) == {stores[k] : k \in 1 .. j}
           h == [j \in 0 .. n |-> Wd(Past(j))]
<1>1. /\ n \in Nat /\ DOMAIN stores = 1 .. n
      /\ \A k \in 1 .. n : stores[k] \in dirty
      /\ \A s \in dirty : \E k \in 1 .. n : stores[k] = s
  BY OrderedSlots
<1>2. Root \in Contract /\ C.st \in Storage /\ wd.st \in Storage
  BY EvmAssumption DEF World
<1>3. ASSUME NEW S
      PROVE  /\ Wd(S) \in World /\ Wd(S).ev = C.ev
             /\ \A c \in Contract, s \in Slot :
                  Wd(S).st[c][s] = IF c = Root /\ s \in S THEN wd.st[Root][s] ELSE C.st[c][s]
  <2>1. \A c \in Contract, s \in Slot : C.st[c][s] \in Nat /\ wd.st[c][s] \in Nat
    BY <1>2 DEF Storage
  <2>2. Wd(S).st \in Storage
    BY <1>2, <2>1 DEF Storage
  <2>3. Wd(S).ev \in Seq(Ctx \X Nat)
    BY DEF World
  <2> QED
    BY <2>2, <2>3 DEF World
<1> HIDE DEF stores, n, Wd
<1>4. ASSUME NEW S, NEW x \in Slot
      PROVE  Wd(S \cup {x}) = [Wd(S) EXCEPT !.st[Root][x] = wd.st[Root][x]]
  <2> DEFINE a == Wd(S \cup {x})
             b == Wd(S)
             e == [b EXCEPT !.st[Root][x] = wd.st[Root][x]]
  <2>1. a \in World /\ b \in World /\ a.ev = C.ev /\ b.ev = C.ev
    BY <1>3
  <2>2. wd.st[Root][x] \in Nat
    BY <1>2 DEF Storage
  <2>3. /\ e \in World /\ e.ev = C.ev
        /\ \A c \in Contract, s \in Slot :
             e.st[c][s] = IF c = Root /\ s = x THEN wd.st[Root][x] ELSE b.st[c][s]
    <3> HIDE DEF b
    <3> QED
      BY <1>2, <2>1, <2>2 DEF World, Storage
  <2>4. \A c \in Contract, s \in Slot : a.st[c][s] = e.st[c][s]
    BY <1>3, <2>3
  <2> HIDE DEF a, b, e
  <2>5. a = e
    BY <2>1, <2>3, <2>4, WorldSame
  <2> QED
    BY <2>5 DEF a, b, e
<1>5. h[0] = C /\ h[n] = wd
  <2>1. Past(0) = {} /\ Past(n) = dirty
    BY <1>1
  <2>2. Wd({}) = C /\ Wd(dirty) = wd
    <3>1. \A c \in Contract, s \in Slot : Wd({}).st[c][s] = C.st[c][s] /\ Wd(dirty).st[c][s] = wd.st[c][s]
      BY <1>3
    <3>2. Wd({}) \in World /\ Wd(dirty) \in World /\ Wd({}).ev = C.ev /\ Wd(dirty).ev = wd.ev
      BY <1>3
    <3> QED
      BY <3>1, <3>2, WorldSame
  <2>3. h[0] = Wd(Past(0)) /\ h[n] = Wd(Past(n))
    BY <1>1
  <2> QED
    BY <2>1, <2>2, <2>3
<1>6. IsList(u) /\ Len(u) = n
  <2>1. u = [k \in 1 .. n |-> u[k]]
    BY <1>1
  <2> HIDE DEF u
  <2> QED
    BY <1>1, <2>1, FunctionList
<1>7. ASSUME NEW j \in 1 .. n PROVE Effect(u[j], h[j - 1], h[j])
  <2> DEFINE x == stores[j]
  <2>1. /\ x \in dirty /\ x \in Slot /\ u[j] = Store(x, value[x]) /\ value[x] = wd.st[Root][x]
        /\ j - 1 \in 0 .. n /\ j \in 0 .. n
    BY <1>1
  <2>2. Past(j) = Past(j - 1) \cup {x}
    BY <1>1
  <2>3. h[j] = Wd(Past(j)) /\ h[j - 1] = Wd(Past(j - 1))
    BY <2>1
  <2> HIDE DEF h, Past, u, x
  <2>4. h[j] = [h[j - 1] EXCEPT !.st[Root][x] = wd.st[Root][x]]
    BY <1>4, <2>1, <2>2, <2>3
  <2>5. u[j].op = "STORE" /\ u[j].slot = x /\ u[j].value = wd.st[Root][x]
    BY <2>1 DEF Store
  <2> QED
    BY <2>4, <2>5 DEF Effect
<1> HIDE DEF h, u
<1>8. History(h, u, C, wd)
  BY <1>5, <1>6, <1>7 DEF History
<1> QED
  BY <1>6, <1>8 DEF Runs, u, stores

\* What flush_slice makes of the top frame.
LEMMA FlushTop ==
  ASSUME NEW v, DOMAIN v = WalkFields, Frameful(v.frames),
         v.programs[ProgramOf(Last(v.frames))].target = Root,
         NEW opened, NEW wd \in World, Mirrors(v.frames, opened, wd.st),
         NEW from, NEW C, Runs(Last(v.frames).out, from, C), Clean(v.frames, Len(v.frames), C, wd)
  PROVE  LET n == Len(v.frames)
             x == flush_slice(v)
             g == x.frames[n]
         IN  /\ DOMAIN x = WalkFields /\ x.programs = v.programs /\ x.pending = v.pending
             /\ IsList(x.frames) /\ Len(x.frames) = n /\ \A k \in 1 .. (n - 1) : x.frames[k] = v.frames[k]
             /\ DOMAIN g = FrameFields
             /\ \A d \in FrameFields \ {"out", "view"} : g[d] = v.frames[n][d]
             /\ Runs(g.out, from, wd) /\ Away(x.frames, n, wd)
<1> DEFINE n == Len(v.frames)
           cur == Last(v.frames)
           image == visible_image(v.frames, v.programs[ProgramOf(cur)].target)
           dirty == {s \in DOMAIN image : ~(s \in DOMAIN cur.view /\ cur.view[s] = image[s])}
           stores == InOrder(dirty)
           out == [k \in DOMAIN stores |-> Store(stores[k], image[stores[k]])]
           g == [cur EXCEPT !.out = @ \o out, !.view = Extend(@, image)]
<1>1. flush_slice(v) = [v EXCEPT !.frames[n] = g]
  BY DEF flush_slice
<1>2. n \in Nat /\ n >= 1 /\ DOMAIN v.frames = 1 .. n /\ cur = v.frames[n] /\ FrameOK(cur)
  BY ListSeq DEF Frameful, Last
<1>3. image = visible_image(v.frames, Root)
  OBVIOUS
<1>4. DOMAIN image \subseteq Slot /\ \A s \in Slot : s \in DOMAIN image <=> ~Untouched(v.frames, n, s)
  <2> DEFINE W(t) == {k \in DOMAIN v.frames : t \in DOMAIN v.frames[k].journal[Root]}
  <2>1. DOMAIN visible_image(v.frames, Root) = {t \in Slot : W(t) # {}}
    BY DEF visible_image
  <2>2. \A s : W(s) # {} <=> ~Untouched(v.frames, n, s)
    BY <1>2 DEF Untouched
  <2> HIDE DEF image, W
  <2> QED
    BY <1>3, <2>1, <2>2
<1>5. ASSUME NEW s \in Slot
      PROVE  wd.st[Root][s] = IF s \in DOMAIN image THEN image[s] ELSE 0
  <2>1. Shows(v.frames, n, Root, s, wd.st[Root][s]) /\ IsList(v.frames)
    BY EvmAssumption DEF Mirrors
  <2> DEFINE x == wd.st[Root][s]
  <2> HIDE DEF x, image
  <2>2. x = IF s \in DOMAIN visible_image(v.frames, Root) THEN visible_image(v.frames, Root)[s] ELSE 0
    BY <2>1, ImageShown DEF x
  <2> QED
    BY <1>3, <2>2 DEF x
<1> HIDE DEF image
<1>6. /\ C \in World /\ C.ev = wd.ev
      /\ \A c \in Contract \ {Root} : C.st[c] = wd.st[c]
      /\ \A s \in DOMAIN cur.view : s \in Slot /\ cur.view[s] = C.st[Root][s]
      /\ \A s \in Slot : Untouched(v.frames, n, s) => s \notin DOMAIN cur.view /\ C.st[Root][s] = 0
  BY <1>2 DEF Clean
<1>7. Runs(out, C, wd)
  <2>1. dirty \in SUBSET Slot /\ \A s \in dirty : image[s] = wd.st[Root][s]
    BY <1>4, <1>5
  <2>2. ASSUME NEW c \in Contract, NEW s \in Slot, ~(c = Root /\ s \in dirty)
        PROVE  C.st[c][s] = wd.st[c][s]
    <3>1. CASE c # Root
      BY <1>6, <3>1
    <3>2. CASE c = Root /\ s \in DOMAIN image
      BY <1>5, <1>6, <2>2, <3>2
    <3>3. CASE c = Root /\ s \notin DOMAIN image
      BY <1>4, <1>5, <1>6, <3>3
    <3> QED
      BY <3>1, <3>2, <3>3
  <2> HIDE DEF dirty, cur
  <2> QED
    BY <1>6, <2>1, <2>2, StoresRun
<1> HIDE DEF out, dirty, stores
<1>8. DOMAIN cur = FrameFields
  BY <1>2 DEF FrameOK
<1> HIDE DEF cur
<1>9. /\ g.out = cur.out \o out /\ g.view = Extend(cur.view, image) /\ DOMAIN g = FrameFields
      /\ \A d \in FrameFields \ {"out", "view"} : g[d] = cur[d]
  BY <1>8 DEF FrameFields
<1> HIDE DEF g
<1>10. /\ DOMAIN flush_slice(v) = WalkFields
       /\ flush_slice(v).frames = [v.frames EXCEPT ![n] = g]
       /\ flush_slice(v).pending = v.pending /\ flush_slice(v).programs = v.programs
  BY <1>1 DEF WalkFields
<1> DEFINE x == flush_slice(v)
<1>11. /\ IsList(x.frames) /\ Len(x.frames) = n /\ x.frames[n] = g
       /\ \A k \in 1 .. (n - 1) : x.frames[k] = v.frames[k]
  <2> DEFINE other == [v.frames EXCEPT ![n] = g]
  <2>1. /\ IsList(other) /\ Len(other) = n /\ other[n] = g
        /\ \A k \in 1 .. (n - 1) : other[k] = v.frames[k]
    BY TopReplaced
  <2>2. x.frames = other
    BY <1>10
  <2> HIDE DEF other, x
  <2> QED
    BY <2>1, <2>2
<1> HIDE DEF x
<1>12. Runs(g.out, from, wd)
  <2>1. Runs(cur.out, from, C)
    BY DEF cur
  <2> QED
    BY <1>7, <1>9, <2>1, RunsConcat
<1>13. Away(x.frames, n, wd)
  <2>1. ASSUME NEW s, Untouched(x.frames, n, s) PROVE Untouched(v.frames, n, s)
    <3>1. g.journal = cur.journal
      BY <1>9 DEF FrameFields
    <3>2. \A k \in 1 .. n : x.frames[k].journal = v.frames[k].journal
      <4>1. \A k \in 1 .. n : k = n \/ k \in 1 .. (n - 1)
        BY <1>2
      <4> QED
        BY <1>2, <1>11, <3>1, <4>1
    <3> QED
      BY <2>1, <3>2 DEF Untouched
  <2>2. ASSUME NEW s \in DOMAIN g.view PROVE s \in Slot /\ g.view[s] = wd.st[Root][s]
    <3>1. DOMAIN g.view = DOMAIN cur.view \cup DOMAIN image
      BY <1>9 DEF Extend
    <3>2. g.view[s] = IF s \in DOMAIN image THEN image[s] ELSE cur.view[s]
      BY <1>9, <2>2, <3>1 DEF Extend
    <3>3. CASE s \in DOMAIN image
      BY <1>4, <1>5, <3>2, <3>3
    <3>4. CASE s \notin DOMAIN image
      \* A slot in the view is in some journal.
      BY <1>4, <1>6, <2>2, <3>1, <3>4
    <3> QED
      BY <3>3, <3>4
  <2>3. ASSUME NEW s \in Slot, Untouched(v.frames, n, s) PROVE s \notin DOMAIN g.view
    <3>1. DOMAIN g.view = DOMAIN cur.view \cup DOMAIN image
      BY <1>9 DEF Extend
    <3> QED
      BY <1>4, <1>6, <2>3, <3>1
  <2> QED
    BY <1>11, <2>1, <2>2, <2>3 DEF Away
<1> QED
  BY <1>2, <1>9, <1>10, <1>11, <1>12, <1>13 DEF x

-----------------------------------------------------------------------------
(* What the walk's operators do to the levels. *)

AllTrim(frames, other) ==
  Len(other) = Len(frames) /\ \A k \in 1 .. Len(frames) : Trims(frames[k], other[k])

LEMMA TrimsTrans ==
  ASSUME NEW f, NEW g, NEW h, Trims(f, g), Trims(g, h)
  PROVE  Trims(f, h)
BY DEF Trims

LEMMA TrimsSame ==
  ASSUME NEW f, FrameOK(f)
  PROVE  Trims(f, f)
BY DEF Trims

LEMMA ChargeTrims ==
  ASSUME NEW frames, Frameful(frames), NEW emits, NEW gas
  PROVE  AllTrim(frames, Charge(frames, emits, gas))
<1> DEFINE n == Len(frames)
           other == Charge(frames, emits, gas)
<1>1. n \in Nat /\ n >= 1 /\ DOMAIN frames = 1 .. n /\ \A k \in 1 .. n : FrameOK(frames[k])
  BY ListSeq DEF Frameful
<1>2. \A k \in 1 .. (n - 1) : other[k] = frames[k]
  BY <1>1 DEF Charge
<1>3. /\ DOMAIN other[n] = DOMAIN frames[n] /\ other[n].journal = frames[n].journal
      /\ other[n].program = frames[n].program /\ other[n].out = frames[n].out
      /\ other[n].ctx = frames[n].ctx /\ other[n].emits = frames[n].emits
      /\ other[n].start = frames[n].start /\ other[n].nested = frames[n].nested
      /\ other[n].first_program = frames[n].first_program /\ other[n].view = frames[n].view
  BY <1>1 DEF Charge, FrameOK, FrameFields
<1>4. Len(other) = n
  BY ChargeKeeps DEF Keeps
<1> HIDE DEF n, other
<1>5. Trims(frames[n], other[n])
  BY <1>1, <1>3 DEF Trims, FrameOK
<1>6. ASSUME NEW k \in 1 .. n PROVE Trims(frames[k], other[k])
  <2>1. CASE k = n
    BY <1>5, <2>1
  <2>2. CASE k # n
    BY <1>1, <1>2, <2>2, TrimsSame
  <2> QED
    BY <2>1, <2>2
<1> QED
  BY <1>4, <1>6 DEF AllTrim, n, other

\* The root's slots in the journal are in no view any more.
LEMMA ForgetTrims ==
  ASSUME NEW frames, Frameful(frames), NEW programs, programs[1].target = Root, NEW journal
  PROVE  LET other == forget_overwritten(frames, programs, journal)
         IN  /\ AllTrim(frames, other)
             /\ \A k \in 1 .. Len(frames) : frames[k].program = {1} =>
                  \A s \in DOMAIN other[k].view : s \notin DOMAIN journal[Root]
<1> DEFINE n == Len(frames)
           other == forget_overwritten(frames, programs, journal)
           D(k) == DOMAIN journal[programs[ProgramOf(frames[k])].target]
<1>1. n \in Nat /\ n >= 1 /\ DOMAIN frames = 1 .. n /\ \A k \in 1 .. n : FrameOK(frames[k])
  BY ListSeq DEF Frameful
<1>2. other = [k \in 1 .. n |-> IF frames[k].program = {} THEN frames[k] ELSE Forget(frames[k], D(k))]
  BY <1>1 DEF forget_overwritten
<1>3. ASSUME NEW k \in 1 .. n, frames[k].program = {1} PROVE D(k) = DOMAIN journal[Root]
  BY <1>3 DEF ProgramOf
<1>4. Len(other) = n
  BY ForgetKeeps DEF Keeps
<1> HIDE DEF n, other, D
<1>5. ASSUME NEW f, FrameOK(f), NEW slots
      PROVE  Trims(f, Forget(f, slots)) /\ DOMAIN Forget(f, slots).view = DOMAIN f.view \ slots
  <2> DEFINE new == [s \in DOMAIN f.view \ slots |-> f.view[s]]
             g == [f EXCEPT !.view = new]
  <2>1. Forget(f, slots) = g
    BY <1>5 DEF Forget, FrameOK, FrameFields
  <2>2. DOMAIN new \subseteq DOMAIN f.view /\ \A s \in DOMAIN new : new[s] = f.view[s]
    OBVIOUS
  <2>3. DOMAIN new = DOMAIN f.view \ slots
    OBVIOUS
  <2> HIDE DEF new
  <2>4. g.view = new /\ Trims(f, g)
    BY <1>5, <2>2 DEF Trims, FrameOK, FrameFields
  <2> QED
    BY <2>1, <2>3, <2>4
<1>6. \A k \in 1 .. n : Trims(frames[k], other[k])
  BY <1>1, <1>2, <1>5, TrimsSame
<1>7. \A k \in 1 .. n : frames[k].program = {1} =>
        \A s \in DOMAIN other[k].view : s \notin DOMAIN journal[Root]
  <2> SUFFICES ASSUME NEW k \in 1 .. n, frames[k].program = {1}
               PROVE  \A s \in DOMAIN other[k].view : s \notin DOMAIN journal[Root]
    OBVIOUS
  <2>1. other[k] = Forget(frames[k], D(k))
    BY <1>2
  <2>2. DOMAIN other[k].view = DOMAIN frames[k].view \ D(k)
    BY <1>1, <1>5, <2>1
  <2> QED
    BY <1>3, <2>2
<1> QED
  BY <1>4, <1>6, <1>7 DEF AllTrim, n, other

\* A frame returns to its caller, the mth.
Joined(f, child, g) ==
  /\ FrameOK(g) /\ g.program = f.program /\ g.ctx = f.ctx /\ g.emits = f.emits /\ g.start = f.start
  /\ g.nested = f.nested /\ g.first_program = f.first_program /\ g.out = f.out \o child.out
  /\ \A c \in Contract : g.journal[c] = Extend(f.journal[c], child.journal[c])
  /\ child.program # {} => g.view = child.view
  /\ child.program = {} =>
       /\ DOMAIN g.view \subseteq DOMAIN f.view /\ \A s \in DOMAIN g.view : g.view[s] = f.view[s]
       /\ f.program = {1} => \A s \in DOMAIN g.view : s \notin DOMAIN child.journal[Root]

LEMMA PlainJoins ==
  ASSUME NEW v, DOMAIN v = WalkFields, Frameful(v.frames), Len(v.frames) >= 2, NEW i,
         v.programs[1].target = Root
  PROVE  LET other == LeavePlain(v, i).frames
             m == Len(v.frames) - 1
         IN  /\ LeavePlain(v, i).programs = v.programs
             /\ Len(other) = m /\ \A k \in 1 .. (m - 1) : Trims(v.frames[k], other[k])
             /\ Joined(v.frames[m], v.frames[m + 1], other[m])
<1> DEFINE x == LeavePlain(v, i)
           m == Len(v.frames) - 1
           front == Front(v.frames)
           child == Last(v.frames)
           charged == Charge(front, child.emits, i - child.start)
           rest == IF child.program = {}
                   THEN forget_overwritten(charged, v.programs, child.journal) ELSE charged
           done == Commit(rest, child.journal)
           r == Len(rest)
           frames == [done EXCEPT ![r].out        = @ \o child.out,
                                  ![r].call_gas   = @ + child.call_gas,
                                  ![r].create_gas = @ + child.create_gas,
                                  ![r].view       = IF child.program # {} THEN child.view ELSE @]
<1>1. x = [v EXCEPT !.frames = frames]
  BY DEF LeavePlain
<1>2. /\ Len(v.frames) \in Nat /\ m \in Nat /\ m >= 1 /\ Frameful(front) /\ Len(front) = m
      /\ \A k \in 1 .. m : front[k] = v.frames[k]
  <2>1. Len(v.frames) \in Nat
    BY DEF Frameful, IsList
  <2> QED
    BY <2>1, FrontFrameful
<1> HIDE DEF front
<1>3. Frameful(charged) /\ AllTrim(front, charged)
  BY <1>2, ChargeKeeps, KeepsFrameful, ChargeTrims
<1> HIDE DEF charged
<1>4. /\ Frameful(rest) /\ Len(rest) = m /\ \A k \in 1 .. m : Trims(front[k], rest[k])
      /\ child.program = {} /\ front[m].program = {1} =>
           \A s \in DOMAIN rest[m].view : s \notin DOMAIN child.journal[Root]
  <2>1. CASE child.program # {}
    BY <1>2, <1>3, <2>1 DEF AllTrim
  <2>2. CASE child.program = {}
    <3> DEFINE f == forget_overwritten(charged, v.programs, child.journal)
    <3>1. rest = f
      BY <2>2
    <3>2. Frameful(f)
      BY <1>3, ForgetKeeps, KeepsFrameful
    <3>3. /\ AllTrim(charged, f)
          /\ \A k \in 1 .. Len(charged) : charged[k].program = {1} =>
               \A s \in DOMAIN f[k].view : s \notin DOMAIN child.journal[Root]
      BY <1>3, ForgetTrims
    <3> HIDE DEF f, rest, child
    <3>4. Len(f) = m /\ \A k \in 1 .. m : Trims(front[k], f[k])
      BY <1>2, <1>3, <3>3, TrimsTrans DEF AllTrim
    <3>5. m \in 1 .. Len(charged) /\ charged[m].program = front[m].program
      BY <1>2, <1>3 DEF AllTrim, Trims
    <3> QED
      BY <3>1, <3>2, <3>3, <3>4, <3>5
  <2> QED
    BY <2>1, <2>2
<1>5. child = v.frames[m + 1]
  BY <1>2 DEF Last
<1> HIDE DEF rest, child
<1> DEFINE new == [c \in Contract |-> Extend(rest[m].journal[c], child.journal[c])]
           g == [rest[m] EXCEPT !.journal = new]
<1>6. done = [rest EXCEPT ![m] = g]
  <2>1. DOMAIN rest = 1 .. m
    BY <1>4, ListSeq DEF Frameful
  <2> QED
    BY <1>2, <1>4, <2>1 DEF Commit
<1>7. DOMAIN rest[m] = FrameFields /\ FrameOK(rest[m])
  BY <1>2, <1>4 DEF Frameful, FrameOK
<1>8. DOMAIN new = Contract /\ \A c \in Contract : new[c] = Extend(rest[m].journal[c], child.journal[c])
  OBVIOUS
<1> HIDE DEF new
<1>9. /\ DOMAIN g = FrameFields /\ g.journal = new
      /\ \A d \in FrameFields \ {"journal"} : g[d] = rest[m][d]
  BY <1>7 DEF FrameFields
<1> HIDE DEF g
<1>10. /\ IsList(done) /\ Len(done) = m /\ done[m] = g
       /\ \A k \in 1 .. (m - 1) : done[k] = rest[k]
  <2> DEFINE top == [rest EXCEPT ![m] = g]
  <2>1. /\ IsList(top) /\ Len(top) = m /\ top[m] = g
        /\ \A k \in 1 .. (m - 1) : top[k] = rest[k]
    BY <1>4, TopReplaced
  <2> HIDE DEF top, done
  <2> QED
    BY <1>6, <2>1 DEF top
<1>11. DOMAIN done = 1 .. m /\ r = m
  BY <1>4, <1>10, ListSeq
<1> HIDE DEF done, r
<1>12. \A k \in 1 .. (m - 1) : frames[k] = rest[k]
  BY <1>2, <1>10, <1>11
<1>13. frames = [k \in 1 .. m |-> frames[k]]
  BY <1>11
<1>14. /\ DOMAIN frames[m] = FrameFields /\ frames[m].journal = new /\ frames[m].out = rest[m].out \o child.out
       /\ frames[m].view = IF child.program # {} THEN child.view ELSE rest[m].view
       /\ \A d \in {"program", "ctx", "emits", "start", "nested", "first_program"} : frames[m][d] = rest[m][d]
  <2> DEFINE out == done[r].out \o child.out
             call == done[r].call_gas + child.call_gas
             create == done[r].create_gas + child.create_gas
             view == IF child.program # {} THEN child.view ELSE done[r].view
  <2>1. frames = [done EXCEPT ![r].out = out, ![r].call_gas = call, ![r].create_gas = create, ![r].view = view]
    OBVIOUS
  <2>2. out = rest[m].out \o child.out
    BY <1>9, <1>10, <1>11 DEF FrameFields
  <2>3. view = IF child.program # {} THEN child.view ELSE rest[m].view
    BY <1>9, <1>10, <1>11 DEF FrameFields
  <2> HIDE DEF frames, out, call, create, view
  <2>4. r \in DOMAIN done /\ DOMAIN done[r] = FrameFields
    BY <1>2, <1>9, <1>10, <1>11
  <2>5. /\ DOMAIN frames[r] = FrameFields /\ frames[r].out = out /\ frames[r].view = view
        /\ frames[r].journal = done[r].journal
        /\ \A d \in {"program", "ctx", "emits", "start", "nested", "first_program"} : frames[r][d] = done[r][d]
    BY <2>1, <2>4 DEF FrameFields
  <2>6. done[r].journal = new
        /\ \A d \in {"program", "ctx", "emits", "start", "nested", "first_program"} : done[r][d] = rest[m][d]
    BY <1>9, <1>10, <1>11 DEF FrameFields
  <2> QED
    BY <1>11, <2>2, <2>3, <2>5, <2>6
<1> HIDE DEF frames
<1>15. Len(frames) = m
  BY <1>2, <1>13, FunctionList
<1>16. DOMAIN x = WalkFields /\ x.frames = frames /\ x.programs = v.programs
  BY <1>1 DEF WalkFields
<1>17. Trims(v.frames[m], rest[m])
  BY <1>2, <1>4
<1>18. Joined(v.frames[m], child, frames[m])
  <2>1. FrameOK(frames[m])
    BY <1>8, <1>14 DEF FrameOK
  <2>2. \A c \in Contract : frames[m].journal[c] = Extend(v.frames[m].journal[c], child.journal[c])
    BY <1>8, <1>14, <1>17 DEF Trims
  <2>3. front[m] = v.frames[m]
    BY <1>2
  <2> QED
    BY <1>4, <1>14, <1>17, <2>1, <2>2, <2>3 DEF Joined, Trims
<1>19. \A k \in 1 .. (m - 1) : Trims(v.frames[k], frames[k])
  BY <1>2, <1>4, <1>12
<1> QED
  BY <1>5, <1>15, <1>16, <1>18, <1>19 DEF x

-----------------------------------------------------------------------------
(* With no nestable contract the emitting frames are the root's delegated   *)
(* ones, below every other.                                                 *)

Shape(frames, opened) ==
  /\ Emits(frames[1])
  /\ \A k \in 1 .. Len(frames) :
       /\ frames[k].program \in {{}, {1}} /\ frames[k].nested = FALSE
       /\ frames[k].emits \in {"none", "CALL", "CREATE"}
       /\ Emits(frames[k]) => frames[k].ctx = Root /\ frames[k].emits = "none"
       /\ ~Emits(frames[k]) => frames[k].out = <<>>
  /\ \A k \in 2 .. Len(frames) :
       /\ frames[k].first_program = 2
       /\ Emits(frames[k]) \/ frames[k].emits # "none" => Emits(frames[k - 1])
       /\ ~Emits(frames[k]) /\ frames[k].emits = "none" /\ Emits(frames[k - 1]) => opened[k].static

\* Frame k was opened by the call at its start, and has been open since.
Starts(frames, opened, i) ==
  \A k \in 2 .. Len(frames) :
    /\ frames[k].start \in 1 .. i /\ trace[frames[k].start].depth = k - 1
    /\ trace[frames[k].start].world = opened[k].saved
    /\ \A j \in (frames[k].start + 1) .. i : trace[j].depth >= k

Canon(frames, opened, wd, i, o) ==
  /\ Shape(frames, opened) /\ Starts(frames, opened, i)
  /\ \E C : Tracked(C, frames, opened, wd, o)

SameRole(f, g) ==
  /\ g.program = f.program /\ g.nested = f.nested /\ g.emits = f.emits /\ g.ctx = f.ctx
  /\ g.start = f.start /\ g.first_program = f.first_program /\ (~Emits(g) => g.out = <<>>)

\* The first m frames are there still, at log i as at log a.
Remain(frames, opened, a, m, other, less, i) ==
  /\ a \in Nat /\ i \in {a, a + 1} /\ Len(frames) \in Nat
  /\ m \in Nat /\ m >= 1 /\ m <= Len(frames) /\ Len(other) = m
  /\ i = a + 1 => trace[i].depth \in Nat /\ trace[i].depth >= m
  /\ \A k \in 1 .. m : SameRole(frames[k], other[k])
  /\ \A k \in 1 .. m : less[k] = opened[k]

LEMMA RolesKept ==
  ASSUME NEW frames, NEW opened, NEW a, Shape(frames, opened), Starts(frames, opened, a),
         NEW m, NEW other, NEW less, NEW i, Remain(frames, opened, a, m, other, less, i)
  PROVE  Shape(other, less) /\ Starts(other, less, i)
<1>0. /\ a \in Nat /\ i \in {a, a + 1} /\ Len(frames) \in Nat
      /\ m \in Nat /\ m >= 1 /\ m <= Len(frames) /\ Len(other) = m
      /\ i = a + 1 => trace[i].depth \in Nat /\ trace[i].depth >= m
      /\ \A k \in 1 .. m : SameRole(frames[k], other[k])
      /\ \A k \in 1 .. m : less[k] = opened[k]
  BY DEF Remain
<1> USE <1>0
<1>1. Emits(other[1])
  <2>1. Emits(frames[1]) /\ SameRole(frames[1], other[1])
    BY DEF Shape
  <2> QED
    BY <2>1 DEF SameRole, Emits
<1>2. ASSUME NEW k \in 1 .. m
      PROVE  /\ other[k].program \in {{}, {1}} /\ other[k].nested = FALSE
             /\ other[k].emits \in {"none", "CALL", "CREATE"}
             /\ Emits(other[k]) => other[k].ctx = Root /\ other[k].emits = "none"
             /\ ~Emits(other[k]) => other[k].out = <<>>
  <2>1. k \in 1 .. Len(frames) /\ SameRole(frames[k], other[k])
    OBVIOUS
  <2> QED
    BY <2>1 DEF Shape, SameRole, Emits
<1>3. ASSUME NEW k \in 2 .. m
      PROVE  /\ other[k].first_program = 2
             /\ Emits(other[k]) \/ other[k].emits # "none" => Emits(other[k - 1])
             /\ ~Emits(other[k]) /\ other[k].emits = "none" /\ Emits(other[k - 1]) => less[k].static
  <2>1. k \in 2 .. Len(frames) /\ k \in 1 .. m /\ k - 1 \in 1 .. m
    OBVIOUS
  <2>2. SameRole(frames[k], other[k]) /\ SameRole(frames[k - 1], other[k - 1]) /\ less[k] = opened[k]
    BY <2>1
  <2> QED
    BY <2>1, <2>2 DEF Shape, SameRole, Emits
<1>4. ASSUME NEW k \in 2 .. m
      PROVE  /\ other[k].start \in 1 .. i /\ trace[other[k].start].depth = k - 1
             /\ trace[other[k].start].world = less[k].saved
             /\ \A j \in (other[k].start + 1) .. i : trace[j].depth >= k
  <2>1. k \in 2 .. Len(frames) /\ k \in 1 .. m
    OBVIOUS
  <2>2. other[k].start = frames[k].start /\ less[k] = opened[k]
    BY <2>1 DEF SameRole
  <2> DEFINE b == frames[k].start
  <2>3. /\ b \in 1 .. a /\ trace[b].depth = k - 1 /\ trace[b].world = opened[k].saved
        /\ \A j \in (b + 1) .. a : trace[j].depth >= k
    BY <2>1 DEF Starts
  <2> HIDE DEF b
  <2>4. ASSUME NEW j \in (b + 1) .. i PROVE trace[j].depth >= k
    <3>1. (j = a + 1 /\ i = a + 1) \/ j \in (b + 1) .. a
      BY <2>3
    <3>2. CASE j \in (b + 1) .. a
      BY <2>3, <3>2
    <3>3. CASE j = a + 1 /\ i = a + 1
      BY <3>3
    <3> QED
      BY <3>1, <3>2, <3>3
  <2> QED
    BY <2>2, <2>3, <2>4 DEF b
<1> QED
  BY <1>1, <1>2, <1>3, <1>4 DEF Shape, Starts

\* Log i resumes the caller of the call at log a.
LEMMA Resumes ==
  ASSUME Len(trace) \in Nat, NEW a \in Nat, NEW i \in (a + 1) .. Len(trace),
         \A j \in a .. Len(trace) : trace[j].depth \in Nat,
         trace[i].depth <= trace[a].depth,
         \A j \in (a + 1) .. (i - 1) : trace[j].depth > trace[a].depth
  PROVE  Resume(a) = i
<1> DEFINE P(j) == /\ trace[j].depth <= trace[a].depth
                   /\ \A k \in (a + 1) .. (j - 1) : trace[k].depth > trace[a].depth
           r == CHOOSE j \in (a + 1) .. Len(trace) : P(j)
<1>1. r = Resume(a)
  BY DEF Resume
<1>2. P(i)
  OBVIOUS
<1>3. r \in (a + 1) .. Len(trace) /\ P(r)
  <2> HIDE DEF P
  <2> QED
    BY <1>2
<1> HIDE DEF r
<1>4. CASE r < i
  <2>1. r \in (a + 1) .. (i - 1) /\ trace[r].depth \in Nat /\ trace[a].depth \in Nat
    BY <1>3, <1>4
  <2> QED
    BY <1>3, <2>1
<1>5. CASE i < r
  <2>1. i \in (a + 1) .. (r - 1) /\ trace[i].depth \in Nat /\ trace[a].depth \in Nat
    BY <1>3, <1>5
  <2> QED
    BY <1>3, <2>1
<1>6. r = i
  BY <1>3, <1>4, <1>5
<1> QED
  BY <1>1, <1>6

\* After a call the chain is the native world.
LEMMA CleanBack ==
  ASSUME NEW frames, NEW opened, NEW wd, Mirrors(frames, opened, wd.st), Away(frames, Len(frames), wd)
  PROVE  Clean(frames, Len(frames), wd, wd)
<1> DEFINE n == Len(frames)
<1>1. ASSUME NEW s \in Slot, Untouched(frames, n, s) PROVE wd.st[Root][s] = 0
  <2>1. Shows(frames, n, Root, s, wd.st[Root][s])
    BY EvmAssumption DEF Mirrors
  <2> QED
    BY <1>1, <2>1 DEF Shows, Untouched
<1> QED
  BY <1>1 DEF Clean, Away

LEMMA TrackedBack ==
  ASSUME NEW frames, NEW opened, NEW wd0, NEW o0, NEW C, Tracked(C, frames, opened, wd0, o0),
         NEW m, NEW other, NEW less, Shortens(frames, opened, m, other, less),
         NEW wd, Mirrors(other, less, wd.st), Away(other, m, wd),
         NEW o, o.emits \in {"CALL", "CREATE"}, Called(other[m].out, C[m - 1], o),
         trace[Resume(o.start)].world = wd, o.emits = "CREATE" => Succeeded(o.start),
         NEW q, q.emits = "none"
  PROVE  \E D : Tracked(D, other, less, wd, q)
<1>0. m \in Nat /\ m >= 1 /\ Len(other) = m
  BY DEF Shortens
<1> DEFINE D == [j \in 0 .. m |-> IF j = m THEN wd ELSE C[j]]
<1>1. D[m] = wd /\ \A j \in 0 .. (m - 1) : D[j] = C[j]
  BY <1>0
<1>2. D[m - 1] = C[m - 1]
  BY <1>0, <1>1
<1> HIDE DEF D
<1>3. PICK p : /\ other[m].out = Append(p, UpdateAt(o.emits, o.start))
               /\ Runs(p, C[m - 1], trace[o.start].world)
  BY DEF Called
<1>4. Effect(UpdateAt(o.emits, o.start), trace[o.start].world, wd)
  <2> DEFINE u == UpdateAt(o.emits, o.start)
  <2>1. u.op = o.emits /\ u.at = o.start
    BY DEF UpdateAt
  <2> HIDE DEF u
  <2> QED
    BY <2>1 DEF Effect, u
<1>5. Runs(other[m].out, D[m - 1], D[m])
  BY <1>1, <1>2, <1>3, <1>4, RunsAppend
<1>6. Clean(other, m, D[m], wd)
  BY <1>0, <1>1, CleanBack
<1>7. Level(D, other, m, wd, q)
  BY <1>5, <1>6 DEF Level
<1>8. Tracked(D, other, less, wd, q)
  BY <1>1, <1>7, TrackedTop
<1> QED
  BY <1>8

LEMMA TrimsRole ==
  ASSUME NEW f, NEW g, Trims(f, g), ~Emits(f) => f.out = <<>>
  PROVE  SameRole(f, g)
BY DEF Trims, SameRole, Emits

LEMMA AwayTrims ==
  ASSUME NEW k \in Nat, k >= 1, NEW frames, NEW other, \A j \in 1 .. k : Trims(frames[j], other[j]),
         NEW seen, Away(frames, k, seen)
  PROVE  Away(other, k, seen)
<1>1. Trims(frames[k], other[k])
  OBVIOUS
<1>2. ASSUME NEW s, Untouched(other, k, s) PROVE Untouched(frames, k, s)
  BY <1>2 DEF Untouched, Trims
<1>3. /\ DOMAIN other[k].view \subseteq DOMAIN frames[k].view
      /\ \A s \in DOMAIN other[k].view : other[k].view[s] = frames[k].view[s]
  BY <1>1 DEF Trims
<1> QED
  BY <1>2, <1>3 DEF Away

LEMMA LevelNone ==
  ASSUME NEW C, NEW frames, NEW k, NEW seen, NEW o, o.emits = "none", NEW q, q.emits = "none",
         Level(C, frames, k, seen, o)
  PROVE  Level(C, frames, k, seen, q)
BY DEF Level

\* Log i is a or the next one, which leaves none of n frames.
Soon(a, i, n) ==
  a \in Nat /\ i \in {a, a + 1} /\ (i = a + 1 => trace[i].depth \in Nat /\ trace[i].depth >= n)

\* Nothing happens but that some of the views are forgotten.
LEMMA CanonSame ==
  ASSUME NEW frames, Frameful(frames), NEW opened, NEW wd, NEW o, o.emits = "none",
         NEW a, NEW i, Soon(a, i, Len(frames)), Canon(frames, opened, wd, a, o),
         NEW other, AllTrim(frames, other), NEW q, q.emits = "none"
  PROVE  Canon(other, opened, wd, i, q)
<1> DEFINE n == Len(frames)
<1>0. a \in Nat /\ i \in {a, a + 1} /\ (i = a + 1 => trace[i].depth \in Nat /\ trace[i].depth >= n)
  BY DEF Soon
<1>1. n \in Nat /\ n >= 1 /\ Len(other) = n /\ \A k \in 1 .. n : Trims(frames[k], other[k])
  BY DEF Frameful, IsList, AllTrim
<1>2. PICK C : Tracked(C, frames, opened, wd, o)
  BY DEF Canon
<1>3. Shape(frames, opened) /\ Starts(frames, opened, a)
  BY DEF Canon
<1> HIDE DEF n
<1>4. \A k \in 1 .. n : SameRole(frames[k], other[k])
  BY <1>1, <1>3, TrimsRole DEF Shape, n
<1>5. Shape(other, opened) /\ Starts(other, opened, i)
  <2>1. Remain(frames, opened, a, n, other, opened, i)
    BY <1>0, <1>1, <1>4 DEF Remain, n
  <2> QED
    BY <1>3, <2>1, RolesKept
<1>6. ASSUME Emits(other[n]) PROVE Level(C, other, n, wd, q)
  <2>1. Emits(frames[n])
    BY <1>1, <1>6 DEF Trims, Emits
  <2>2. Level(C, frames, n, wd, o)
    BY <1>1, <1>2, <2>1 DEF Tracked, Seen, OpenOp, n
  <2>3. Level(C, frames, n, wd, q)
    BY <2>2, LevelNone
  <2> QED
    BY <1>1, <2>3, LevelKept
<1>7. other[n].emits = frames[n].emits /\ other[n].start = frames[n].start
  BY <1>1 DEF Trims
<1>8. \A k \in 1 .. (n - 1) : Trims(frames[k], other[k])
  BY <1>1
<1>9. Tracked(C, other, opened, wd, q)
  <2>1. Shortens(frames, opened, n, other, opened)
    BY <1>1, <1>7, <1>8 DEF Shortens, n
  <2>2. \A j \in 0 .. (n - 1) : C[j] = C[j]
    OBVIOUS
  <2> QED
    BY <1>2, <1>6, <2>1, <2>2, TrackedTop
<1> QED
  BY <1>5, <1>9 DEF Canon

DepthsOK == Len(trace) \in Nat /\ \A j \in 1 .. Len(trace) : trace[j].depth \in Nat

\* A call of the top frame opens no frame.
LEMMA CanonInline ==
  ASSUME DepthsOK, NEW frames, Frameful(frames), NEW opened, NEW wd, NEW p,
         p.emits \in {"CALL", "CREATE"}, Emits(frames[Len(frames)]),
         NEW a \in 1 .. Len(trace), p.start = a, a + 1 \in 1 .. Len(trace),
         trace[a].depth = Len(frames), trace[a + 1].depth = Len(frames),
         Canon(frames, opened, wd, a, p), trace[a + 1].world = wd,
         p.emits = "CREATE" => trace[a + 1].top = 1,
         NEW other, AllTrim(frames, other), Mirrors(other, opened, wd.st), NEW q, q.emits = "none"
  PROVE  Canon(other, opened, wd, a + 1, q)
<1> DEFINE n == Len(frames)
           i == a + 1
<1>1. n \in Nat /\ n >= 1 /\ Len(other) = n /\ \A k \in 1 .. n : Trims(frames[k], other[k])
  BY DEF Frameful, IsList, AllTrim
<1>2. PICK C : Tracked(C, frames, opened, wd, p)
  BY DEF Canon
<1>3. Shape(frames, opened) /\ Starts(frames, opened, a)
  BY DEF Canon
<1> HIDE DEF n
<1>4. \A k \in 1 .. n : SameRole(frames[k], other[k])
  BY <1>1, <1>3, TrimsRole DEF Shape, n
<1>5. Len(trace) \in Nat /\ a \in Nat /\ i \in Nat /\ trace[i].depth = n
  BY DEF DepthsOK, n
<1>6. Shape(other, opened) /\ Starts(other, opened, i)
  <2>1. Remain(frames, opened, a, n, other, opened, i)
    BY <1>1, <1>4, <1>5 DEF Remain, n
  <2> QED
    BY <1>3, <2>1, RolesKept
<1>7. Level(C, frames, n, wd, p)
  BY <1>1, <1>2 DEF Tracked, Seen, OpenOp, n
<1>8. Called(frames[n].out, C[n - 1], p) /\ Away(frames, n, wd)
  BY <1>7 DEF Level
<1>9. Called(other[n].out, C[n - 1], p) /\ Away(other, n, wd)
  <2>1. other[n].out = frames[n].out
    BY <1>1 DEF Trims
  <2> QED
    BY <1>1, <1>8, <2>1, AwayTrims
<1>10. Resume(p.start) = i
  <2>1. i \in (a + 1) .. Len(trace)
    BY <1>5
  <2>2. \A j \in a .. Len(trace) : trace[j].depth \in Nat
    BY DEF DepthsOK
  <2>3. trace[i].depth <= trace[a].depth
    BY <1>1, <1>5 DEF n
  <2>4. \A j \in (a + 1) .. (i - 1) : trace[j].depth > trace[a].depth
    BY <1>5
  <2> HIDE DEF i
  <2> QED
    BY <1>5, <2>1, <2>2, <2>3, <2>4, Resumes
<1>11. other[n].emits = frames[n].emits /\ other[n].start = frames[n].start
  BY <1>1 DEF Trims
<1>12. \A k \in 1 .. (n - 1) : Trims(frames[k], other[k])
  BY <1>1
<1>13. trace[i].world = wd /\ (p.emits = "CREATE" => trace[i].top = 1)
  OBVIOUS
<1> HIDE DEF i
<1>14. \E D : Tracked(D, other, opened, wd, q)
  <2>1. Shortens(frames, opened, n, other, opened)
    BY <1>1, <1>11, <1>12 DEF Shortens, n
  <2>2. trace[Resume(p.start)].world = wd /\ (p.emits = "CREATE" => Succeeded(p.start))
    BY <1>10, <1>13 DEF Succeeded
  <2> QED
    BY <1>2, <1>9, <2>1, <2>2, TrackedBack
<1> QED
  BY <1>6, <1>14 DEF Canon, i

\* What a frame that is awaited will be.
AwaitOK(p, top) ==
  /\ p.program \in {{}, {1}} /\ p.nested = FALSE /\ p.emits \in {"none", "CALL", "CREATE"}
  /\ p.program # {} => Emits(top) /\ p.ctx = Root /\ p.emits = "none" /\ p.view = top.view
  /\ p.emits # "none" => Emits(top)

\* Log a + 1 is in the frame f that p, the call at log a, has opened.
Begun(frames, opened, wd, a, p, f, more) ==
  /\ Frameful(frames) /\ Len(opened) = Len(frames) /\ AwaitOK(p, frames[Len(frames)])
  /\ a \in 1 .. Len(trace) /\ p.start = a /\ a + 1 \in 1 .. Len(trace)
  /\ trace[a].depth = Len(frames) /\ trace[a].world = wd /\ trace[a + 1].depth = Len(frames) + 1
  /\ \A k \in 1 .. Len(opened) : more[k] = opened[k]
  /\ more[Len(frames) + 1].saved = wd
  /\ p.program = {} /\ p.emits = "none" /\ Emits(frames[Len(frames)]) => more[Len(frames) + 1].static
  /\ f.program = p.program /\ f.nested = p.nested /\ f.emits = p.emits /\ f.start = p.start
  /\ f.ctx = p.ctx /\ f.view = p.view /\ f.out = <<>> /\ f.first_program = 2
  /\ \A c \in Contract : DOMAIN f.journal[c] = {}

LEMMA CanonOpened ==
  ASSUME DepthsOK, NEW frames, NEW opened, NEW wd, NEW a, NEW p, NEW f, NEW more,
         Begun(frames, opened, wd, a, p, f, more), Canon(frames, opened, wd, a, p),
         NEW q, q.emits = "none"
  PROVE  Canon(Append(frames, f), more, wd, a + 1, q)
<1> USE DEF Begun
<1> DEFINE n == Len(frames)
           i == a + 1
           other == Append(frames, f)
<1>1. n \in Nat /\ n >= 1 /\ IsList(frames)
  BY DEF Frameful, IsList
<1>2. Len(other) = n + 1 /\ other[n + 1] = f /\ \A k \in 1 .. n : other[k] = frames[k]
  BY <1>1, ListAppend
<1>3. PICK C : Tracked(C, frames, opened, wd, p)
  BY DEF Canon
<1>4. Shape(frames, opened) /\ Starts(frames, opened, a)
  BY DEF Canon
<1>5. a \in Nat /\ i \in Nat /\ i = a + 1
  BY DEF DepthsOK
<1>6. \E D : Tracked(D, other, more, wd, q)
  <2>1. Adds(frames, opened, wd, p, f, more)
    BY DEF Adds, Emits, AwaitOK
  <2> QED
    BY <1>3, <2>1, TrackedOpened
<1> HIDE DEF other, n, i
<1>7. Shape(other, more)
  <2>1. Emits(other[1])
    BY <1>1, <1>2, <1>4 DEF Shape
  <2>2. ASSUME NEW k \in 1 .. (n + 1)
        PROVE  /\ other[k].program \in {{}, {1}} /\ other[k].nested = FALSE
               /\ other[k].emits \in {"none", "CALL", "CREATE"}
               /\ Emits(other[k]) => other[k].ctx = Root /\ other[k].emits = "none"
               /\ ~Emits(other[k]) => other[k].out = <<>>
    <3>1. CASE k = n + 1
      BY <1>2, <3>1 DEF AwaitOK, Emits
    <3>2. CASE k # n + 1
      <4>1. k \in 1 .. n
        BY <1>1, <3>2
      <4> QED
        BY <1>2, <1>4, <4>1 DEF Shape, n
    <3> QED
      BY <3>1, <3>2
  <2>3. ASSUME NEW k \in 2 .. (n + 1)
        PROVE  /\ other[k].first_program = 2
               /\ Emits(other[k]) \/ other[k].emits # "none" => Emits(other[k - 1])
               /\ ~Emits(other[k]) /\ other[k].emits = "none" /\ Emits(other[k - 1]) => more[k].static
    <3>1. CASE k = n + 1
      <4>1. k - 1 = n /\ other[k] = f /\ other[k - 1] = frames[n]
        BY <1>1, <1>2, <3>1
      <4> QED
        BY <3>1, <4>1 DEF AwaitOK, Emits, n
    <3>2. CASE k # n + 1
      <4>1. k \in 2 .. n /\ k \in 1 .. n /\ k - 1 \in 1 .. n
        BY <1>1, <3>2
      <4>2. other[k] = frames[k] /\ other[k - 1] = frames[k - 1] /\ more[k] = opened[k]
        BY <1>2, <4>1 DEF n
      <4> QED
        BY <1>4, <4>1, <4>2 DEF Shape, n
    <3> QED
      BY <3>1, <3>2
  <2> QED
    BY <1>2, <2>1, <2>2, <2>3 DEF Shape
<1>8. Starts(other, more, i)
  <2>1. ASSUME NEW k \in 2 .. (n + 1)
        PROVE  /\ other[k].start \in 1 .. i /\ trace[other[k].start].depth = k - 1
               /\ trace[other[k].start].world = more[k].saved
               /\ \A j \in (other[k].start + 1) .. i : trace[j].depth >= k
    <3>1. CASE k = n + 1
      <4>1. other[k].start = a /\ k - 1 = n /\ trace[a].depth = n /\ trace[i].depth = n + 1
        BY <1>1, <1>2, <1>5, <3>1 DEF n
      <4>2. a \in 1 .. i
        BY <1>5
      <4>3. \A j \in (a + 1) .. i : j = i
        BY <1>5
      <4>4. trace[i].depth >= k
        BY <1>1, <3>1, <4>1
      <4> QED
        BY <3>1, <4>1, <4>2, <4>3, <4>4 DEF n
    <3>2. CASE k # n + 1
      <4>1. k \in 2 .. n /\ k \in 1 .. n
        BY <1>1, <3>2
      <4> DEFINE b == frames[k].start
      <4>2. /\ b \in 1 .. a /\ trace[b].depth = k - 1 /\ trace[b].world = opened[k].saved
            /\ \A j \in (b + 1) .. a : trace[j].depth >= k
        BY <1>4, <4>1 DEF Starts, n
      <4>3. other[k].start = b /\ more[k] = opened[k]
        BY <1>2, <4>1 DEF n
      <4> HIDE DEF b
      <4>4. b \in 1 .. i /\ \A j \in (b + 1) .. i : j = i \/ j \in (b + 1) .. a
        BY <1>5, <4>2
      <4>5. trace[i].depth = n + 1 /\ trace[i].depth >= k
        BY <1>1, <1>5, <4>1 DEF n
      <4> QED
        BY <4>2, <4>3, <4>4, <4>5
    <3> QED
      BY <3>1, <3>2
  <2> QED
    BY <1>2, <2>1 DEF Starts
<1> QED
  BY <1>6, <1>7, <1>8 DEF Canon, other, i

-----------------------------------------------------------------------------
(* A frame is left. *)

LEMMA ResumesAt ==
  ASSUME DepthsOK, NEW frames, NEW opened, NEW a \in Nat, a + 1 \in 1 .. Len(trace),
         Starts(frames, opened, a),
         NEW m \in Nat, m >= 1, Len(frames) = m + 1, trace[a + 1].depth = m
  PROVE  Resume(frames[m + 1].start) = a + 1
<1> DEFINE b == frames[m + 1].start
           i == a + 1
<1>1. m + 1 \in 2 .. Len(frames) /\ (m + 1) - 1 = m
  OBVIOUS
<1>2. b \in 1 .. a /\ trace[b].depth = m /\ \A j \in (b + 1) .. a : trace[j].depth >= m + 1
  BY <1>1 DEF Starts
<1> HIDE DEF b
<1>3. Len(trace) \in Nat /\ b \in Nat /\ i \in (b + 1) .. Len(trace)
  BY <1>2 DEF DepthsOK
<1>4. \A j \in b .. Len(trace) : trace[j].depth \in Nat
  BY <1>2 DEF DepthsOK
<1>5. trace[i].depth <= trace[b].depth
  BY <1>2
<1>6. ASSUME NEW j \in (b + 1) .. (i - 1) PROVE trace[j].depth > trace[b].depth
  <2>1. j \in (b + 1) .. a /\ j \in b .. Len(trace)
    BY <1>2, <1>3
  <2> QED
    BY <1>2, <1>4, <2>1
<1> HIDE DEF i
<1>7. Resume(b) = i
  BY <1>3, <1>4, <1>5, <1>6, Resumes
<1> QED
  BY <1>7 DEF b, i

\* The top frame has reverted: its caller's updates end with the call, if there is
\* one, and the view is as it was at it.
LEMMA CanonReverted ==
  ASSUME DepthsOK, NEW frames, NEW opened, NEW wd0, NEW o, NEW a \in Nat, a + 1 \in 1 .. Len(trace),
         Canon(frames, opened, wd0, a, o),
         NEW m \in Nat, m >= 1, Len(frames) = m + 1, trace[a + 1].depth = m,
         NEW other, Len(other) = m, \A k \in 1 .. m : Trims(frames[k], other[k]),
         NEW less, \A k \in 1 .. m : less[k] = opened[k],
         NEW wd, opened[m + 1].saved = wd, trace[a + 1].world = wd, Mirrors(other, less, wd.st),
         frames[m + 1].emits # "CREATE", NEW q, q.emits = "none"
  PROVE  Canon(other, less, wd, a + 1, q)
<1> DEFINE i == a + 1
           child == frames[m + 1]
<1>1. Shape(frames, opened) /\ Starts(frames, opened, a)
  BY DEF Canon
<1>2. PICK C : Tracked(C, frames, opened, wd0, o)
  BY DEF Canon
<1>3. m \in 1 .. Len(frames) /\ m # Len(frames) /\ m + 1 \in 1 .. Len(frames) /\ \A k \in 1 .. m : k \in 1 .. Len(frames)
  OBVIOUS
<1>4. \A k \in 1 .. m : SameRole(frames[k], other[k])
  BY <1>1, <1>3, TrimsRole DEF Shape
<1>5. Shape(other, less) /\ Starts(other, less, i)
  <2>1. Remain(frames, opened, a, m, other, less, i)
    BY <1>4 DEF Remain, DepthsOK
  <2> QED
    BY <1>1, <2>1, RolesKept
<1>6. Trims(frames[m], other[m]) /\ \A k \in 1 .. (m - 1) : Trims(frames[k], other[k])
  OBVIOUS
<1>7. Shortens(frames, opened, m, other, less)
  BY <1>6 DEF Shortens, Trims
<1>8. \A j \in 0 .. (m - 1) : C[j] = C[j]
  OBVIOUS
<1>9. ASSUME Emits(frames[m]) PROVE Level(C, frames, m, wd, child)
  <2>1. Seen(frames, opened, wd0, m) = wd /\ OpenOp(frames, o, m) = child
    BY <1>3 DEF Seen, OpenOp
  <2> QED
    BY <1>2, <1>3, <1>9, <2>1 DEF Tracked
<1>10. child.emits \in {"none", "CALL"}
  BY <1>1, <1>3 DEF Shape
<1>11. Resume(child.start) = i
  BY <1>1, ResumesAt
<1> HIDE DEF child
<1>12. CASE ~Emits(frames[m]) \/ child.emits = "none"
  <2>1. ASSUME Emits(other[m]) PROVE Level(C, other, m, wd, q)
    <3>1. Emits(frames[m])
      BY <1>6, <2>1 DEF Trims, Emits
    <3>2. Level(C, frames, m, wd, q)
      BY <1>9, <1>12, <3>1, LevelNone
    <3> QED
      BY <3>2, LevelKept
  <2>2. Tracked(C, other, less, wd, q)
    BY <1>2, <1>7, <1>8, <2>1, TrackedTop
  <2> QED
    BY <1>5, <2>2 DEF Canon
<1>13. CASE Emits(frames[m]) /\ child.emits = "CALL"
  <2>1. Called(frames[m].out, C[m - 1], child) /\ Away(frames, m, wd)
    BY <1>9, <1>13 DEF Level
  <2>2. Called(other[m].out, C[m - 1], child)
    BY <1>6, <2>1 DEF Trims
  <2>3. Away(other, m, wd)
    BY <2>1, AwayTrims
  <2>4. trace[Resume(child.start)].world = wd
    BY <1>11
  <2>5. child.emits \in {"CALL", "CREATE"} /\ (child.emits = "CREATE" => Succeeded(child.start))
    BY <1>13
  <2>6. \E D : Tracked(D, other, less, wd, q)
    BY <1>2, <1>7, <2>2, <2>3, <2>4, <2>5, TrackedBack
  <2> QED
    BY <1>5, <2>6 DEF Canon
<1> QED
  BY <1>10, <1>12, <1>13

LEMMA ShowsSame ==
  ASSUME NEW m \in Nat, NEW frames, NEW c, NEW s, NEW u, NEW v, Shows(frames, m, c, s, u),
         Shows(frames, m + 1, c, s, v), s \notin DOMAIN frames[m + 1].journal[c]
  PROVE  u = v
<1>1. \A k \in 1 .. m : k \in 1 .. (m + 1)
  OBVIOUS
<1>2. CASE \A k \in 1 .. (m + 1) : s \notin DOMAIN frames[k].journal[c]
  BY <1>1, <1>2 DEF Shows
<1>3. CASE \E k \in 1 .. (m + 1) : s \in DOMAIN frames[k].journal[c]
  <2>1. PICK k \in 1 .. (m + 1) :
          /\ s \in DOMAIN frames[k].journal[c] /\ v = frames[k].journal[c][s]
          /\ \A j \in (k + 1) .. (m + 1) : s \notin DOMAIN frames[j].journal[c]
    BY <1>3 DEF Shows
  <2>2. k \in 1 .. m
    BY <2>1
  <2>3. PICK l \in 1 .. m :
          /\ s \in DOMAIN frames[l].journal[c] /\ u = frames[l].journal[c][s]
          /\ \A j \in (l + 1) .. m : s \notin DOMAIN frames[j].journal[c]
    BY <2>1, <2>2 DEF Shows
  <2>4. k = l
    <3>1. ~(k \in (l + 1) .. m)
      BY <2>1, <2>3
    <3>2. ~(l \in (k + 1) .. (m + 1))
      BY <2>1, <2>3
    <3> QED
      BY <2>2, <2>3, <3>1, <3>2
  <2> QED
    BY <2>1, <2>3, <2>4
<1> QED
  BY <1>2, <1>3

LEMMA ConcatNothing ==
  ASSUME NEW s, IsList(s)
  PROVE  s \o <<>> = s
<1> DEFINE t == s \o <<>>
<1>1. IsList(t) /\ Len(t) = Len(s) /\ \A k \in 1 .. Len(s) : t[k] = s[k]
  <2>1. IsList(<<>>) /\ Len(<<>>) = 0 /\ Len(s) \in Nat
    BY EmptyList DEF IsList
  <2> DEFINE e == <<>>
  <2>2. IsList(e) /\ Len(e) = 0 /\ t = s \o e
    BY <2>1
  <2> HIDE DEF e, t
  <2>3. IsList(t) /\ Len(t) = Len(s) + Len(e) /\ \A k \in 1 .. Len(s) : t[k] = s[k]
    BY <2>2, ConcatList
  <2> QED
    BY <2>1, <2>2, <2>3
<1> HIDE DEF t
<1>2. t = [k \in 1 .. Len(s) |-> t[k]] /\ s = [k \in 1 .. Len(s) |-> s[k]]
  BY <1>1 DEF IsList
<1>3. [k \in 1 .. Len(s) |-> t[k]] = [k \in 1 .. Len(s) |-> s[k]]
  BY <1>1
<1>4. t = s
  BY <1>2, <1>3
<1> QED
  BY <1>4 DEF t

\* The top frame has returned.
LEMMA CanonJoined ==
  ASSUME DepthsOK, NEW frames, NEW opened, NEW wd, NEW o, o.emits = "none",
         NEW a \in Nat, a + 1 \in 1 .. Len(trace), Canon(frames, opened, wd, a, o),
         NEW m \in Nat, m >= 1, Len(frames) = m + 1, trace[a + 1].depth = m,
         NEW other, Len(other) = m, \A k \in 1 .. (m - 1) : Trims(frames[k], other[k]),
         Joined(frames[m], frames[m + 1], other[m]),
         NEW less, \A k \in 1 .. m : less[k] = opened[k], Len(opened) = m + 1,
         trace[a + 1].world = wd, trace[a + 1].top = 1,
         wd \in World, Mirrors(frames, opened, wd.st), Mirrors(other, less, wd.st), StaticOK(opened, wd),
         NEW q, q.emits = "none"
  PROVE  Canon(other, less, wd, a + 1, q)
<1> DEFINE i == a + 1
           parent == frames[m]
           child == frames[m + 1]
           saved == opened[m + 1].saved
<1>1. Shape(frames, opened) /\ Starts(frames, opened, a)
  BY DEF Canon
<1>2. PICK C : Tracked(C, frames, opened, wd, o)
  BY DEF Canon
<1>3. /\ m \in 1 .. Len(frames) /\ m # Len(frames) /\ m + 1 \in 1 .. Len(frames) /\ m + 1 \in 2 .. Len(frames)
      /\ (m + 1) - 1 = m /\ \A k \in 1 .. m : k \in 1 .. Len(frames)
  OBVIOUS
<1>4. /\ child.program \in {{}, {1}} /\ parent.program \in {{}, {1}}
      /\ child.emits \in {"none", "CALL", "CREATE"}
      /\ Emits(child) => child.emits = "none" /\ Emits(parent)
      /\ ~Emits(child) => child.out = <<>>
      /\ ~Emits(parent) => parent.out = <<>>
      /\ ~Emits(child) /\ child.emits = "none" /\ Emits(parent) => opened[m + 1].static
  <2>1. /\ frames[m + 1].program \in {{}, {1}} /\ frames[m + 1].emits \in {"none", "CALL", "CREATE"}
        /\ Emits(frames[m + 1]) => frames[m + 1].emits = "none"
        /\ ~Emits(frames[m + 1]) => frames[m + 1].out = <<>>
    BY <1>1, <1>3 DEF Shape
  <2>2. frames[m].program \in {{}, {1}} /\ (~Emits(frames[m]) => frames[m].out = <<>>)
    BY <1>1, <1>3 DEF Shape
  <2>3. /\ Emits(frames[m + 1]) => Emits(frames[(m + 1) - 1])
        /\ ~Emits(frames[m + 1]) /\ frames[m + 1].emits = "none" /\ Emits(frames[(m + 1) - 1]) => opened[m + 1].static
    BY <1>1, <1>3 DEF Shape
  <2> QED
    BY <1>3, <2>1, <2>2, <2>3
<1>5. /\ other[m].program = parent.program /\ other[m].ctx = parent.ctx /\ other[m].emits = parent.emits
      /\ other[m].start = parent.start /\ other[m].nested = parent.nested
      /\ other[m].first_program = parent.first_program /\ other[m].out = parent.out \o child.out
      /\ \A c \in Contract : other[m].journal[c] = Extend(parent.journal[c], child.journal[c])
      /\ child.program # {} => other[m].view = child.view
      /\ child.program = {} =>
           /\ DOMAIN other[m].view \subseteq DOMAIN parent.view
           /\ \A s \in DOMAIN other[m].view : other[m].view[s] = parent.view[s]
           /\ parent.program = {1} => \A s \in DOMAIN other[m].view : s \notin DOMAIN child.journal[Root]
  BY DEF Joined
<1>6. ASSUME ~Emits(child) PROVE other[m].out = parent.out
  <2>1. IsList(parent.out)
    <3>1. CASE Emits(parent)
      <4>1. Seen(frames, opened, wd, m) = saved /\ OpenOp(frames, o, m) = child
        BY <1>3 DEF Seen, OpenOp
      <4>2. Level(C, frames, m, saved, child)
        BY <1>2, <1>3, <3>1, <4>1 DEF Tracked
      <4>3. Runs(parent.out, C[m - 1], C[m]) \/ Called(parent.out, C[m - 1], child)
        BY <4>2 DEF Level
      <4> HIDE DEF parent
      <4>4. ASSUME NEW p, IsList(p), NEW u PROVE IsList(Append(p, u))
        BY <4>4, ListAppend
      <4> QED
        BY <4>3, <4>4 DEF Runs, Called
    <3>2. CASE ~Emits(parent)
      BY <1>4, <3>2, EmptyList
    <3> QED
      BY <3>1, <3>2
  <2>2. other[m].out = parent.out \o <<>>
    BY <1>4, <1>5, <1>6
  <2> HIDE DEF parent
  <2> QED
    BY <2>1, <2>2, ConcatNothing
<1>7. \A k \in 1 .. m : SameRole(frames[k], other[k])
  <2>1. SameRole(parent, other[m])
    BY <1>4, <1>5, <1>6 DEF SameRole, Emits
  <2>2. ASSUME NEW k \in 1 .. m, k # m PROVE SameRole(frames[k], other[k])
    <3>1. k \in 1 .. (m - 1)
      BY <2>2
    <3> QED
      BY <1>1, <1>3, <3>1, TrimsRole DEF Shape
  <2> QED
    BY <2>1, <2>2
<1>8. Shape(other, less) /\ Starts(other, less, i)
  <2>1. Remain(frames, opened, a, m, other, less, i)
    BY <1>7 DEF Remain, DepthsOK
  <2> QED
    BY <1>1, <2>1, RolesKept
<1>9. Shortens(frames, opened, m, other, less)
  BY <1>5 DEF Shortens
<1>10. ASSUME Emits(parent) PROVE Level(C, frames, m, saved, child)
  <2>1. Seen(frames, opened, wd, m) = saved /\ OpenOp(frames, o, m) = child
    BY <1>3 DEF Seen, OpenOp
  <2> QED
    BY <1>2, <1>3, <1>10, <2>1 DEF Tracked
<1>11. Resume(child.start) = i
  BY <1>1, ResumesAt
\* A slot in no journal was in none before.
<1>12. ASSUME NEW s, Untouched(other, m, s) PROVE Untouched(frames, m + 1, s)
  <2>1. s \notin DOMAIN other[m].journal[Root]
    BY <1>12 DEF Untouched
  <2>2. other[m].journal[Root] = Extend(parent.journal[Root], child.journal[Root])
    BY <1>5, EvmAssumption
  <2>3. s \notin DOMAIN parent.journal[Root] /\ s \notin DOMAIN child.journal[Root]
    BY <2>1, <2>2 DEF Extend
  <2>4. ASSUME NEW k \in 1 .. (m - 1) PROVE s \notin DOMAIN frames[k].journal[Root]
    <3>1. k \in 1 .. m /\ Trims(frames[k], other[k])
      OBVIOUS
    <3> QED
      BY <1>12, <3>1 DEF Untouched, Trims
  <2>5. ASSUME NEW k \in 1 .. (m + 1) PROVE s \notin DOMAIN frames[k].journal[Root]
    <3>1. k = m + 1 \/ k = m \/ k \in 1 .. (m - 1)
      OBVIOUS
    <3> QED
      BY <2>3, <2>4, <3>1
  <2> QED
    BY <2>5 DEF Untouched
<1>13. ASSUME NEW s, Untouched(other, m, s) PROVE Untouched(frames, m, s)
  BY <1>12, <1>13 DEF Untouched
<1>14. CASE ~Emits(parent)
  <2>1. ~Emits(other[m])
    BY <1>5, <1>14 DEF Emits
  <2>2. \A j \in 0 .. (m - 1) : C[j] = C[j]
    OBVIOUS
  <2>3. Tracked(C, other, less, wd, q)
    BY <1>2, <1>9, <2>1, <2>2, TrackedTop
  <2> QED
    BY <1>8, <2>3 DEF Canon
<1>15. CASE Emits(child)
  <2> DEFINE D == [j \in 0 .. m |-> IF j = m THEN C[m + 1] ELSE C[j]]
  <2>1. D[m] = C[m + 1] /\ (\A j \in 0 .. (m - 1) : D[j] = C[j]) /\ D[m - 1] = C[m - 1]
    OBVIOUS
  <2> HIDE DEF D
  <2>2. Runs(parent.out, C[m - 1], C[m])
    BY <1>4, <1>10, <1>15 DEF Level
  <2>3. Level(C, frames, m + 1, wd, o)
    <3>1. Seen(frames, opened, wd, m + 1) = wd /\ OpenOp(frames, o, m + 1) = o
      BY DEF Seen, OpenOp
    <3> QED
      BY <1>2, <1>3, <1>15, <3>1 DEF Tracked
  <2>4. Runs(child.out, C[m], C[m + 1]) /\ Clean(frames, m + 1, C[m + 1], wd)
    BY <1>3, <2>3 DEF Level
  <2>5. Runs(other[m].out, D[m - 1], D[m])
    <3> HIDE DEF parent, child
    <3> QED
      BY <1>5, <2>1, <2>2, <2>4, RunsConcat
  <2>6. Clean(other, m, D[m], wd)
    <3>1. other[m].view = frames[m + 1].view
      BY <1>5, <1>15 DEF Emits
    <3> QED
      BY <1>12, <2>1, <2>4, <3>1 DEF Clean
  <2>7. Level(D, other, m, wd, q)
    BY <2>5, <2>6 DEF Level
  <2>8. Tracked(D, other, less, wd, q)
    BY <1>2, <1>9, <2>1, <2>7, TrackedTop
  <2> QED
    BY <1>8, <2>8 DEF Canon
<1>16. CASE Emits(parent) /\ ~Emits(child) /\ child.emits = "none"
  <2>1. saved = wd
    BY <1>4, <1>16 DEF StaticOK
  <2>2. Runs(parent.out, C[m - 1], C[m]) /\ Clean(frames, m, C[m], wd)
    BY <1>10, <1>16, <2>1 DEF Level
  <2>3. Runs(other[m].out, C[m - 1], C[m])
    BY <1>6, <1>16, <2>2
  <2>4. Clean(other, m, C[m], wd)
    BY <1>5, <1>13, <1>16, <2>2 DEF Clean, Emits
  <2>5. Level(C, other, m, wd, q)
    BY <2>3, <2>4 DEF Level
  <2>6. \A j \in 0 .. (m - 1) : C[j] = C[j]
    OBVIOUS
  <2>7. Tracked(C, other, less, wd, q)
    BY <1>2, <1>9, <2>5, <2>6, TrackedTop
  <2> QED
    BY <1>8, <2>7 DEF Canon
<1>17. CASE Emits(parent) /\ ~Emits(child) /\ child.emits # "none"
  <2>1. Called(parent.out, C[m - 1], child) /\ Away(frames, m, saved)
    BY <1>10, <1>17 DEF Level
  <2>2. Called(other[m].out, C[m - 1], child)
    BY <1>6, <1>17, <2>1
  <2>3. parent.program = {1} /\ child.program = {}
    BY <1>4, <1>17 DEF Emits
  <2>4. Away(other, m, wd)
    <3>1. ASSUME NEW s \in DOMAIN other[m].view
          PROVE  s \in Slot /\ other[m].view[s] = wd.st[Root][s]
      <4>1. s \in DOMAIN parent.view /\ other[m].view[s] = parent.view[s] /\ s \notin DOMAIN child.journal[Root]
        BY <1>5, <2>3, <3>1
      <4>2. s \in Slot /\ parent.view[s] = saved.st[Root][s]
        BY <2>1, <4>1 DEF Away
      <4>3. Shows(frames, m, Root, s, saved.st[Root][s]) /\ Shows(frames, m + 1, Root, s, wd.st[Root][s])
        <5>1. Root \in Contract /\ m \in 1 .. (Len(frames) - 1)
          BY EvmAssumption
        <5> QED
          BY <4>2, <5>1 DEF Mirrors
      <4>4. saved.st[Root][s] = wd.st[Root][s]
        <5> HIDE DEF saved
        <5> QED
          BY <4>1, <4>3, ShowsSame
      <4> QED
        BY <4>1, <4>2, <4>4
    <3>2. ASSUME NEW s \in Slot, Untouched(other, m, s) PROVE s \notin DOMAIN other[m].view
      BY <1>5, <1>13, <2>1, <2>3, <3>2 DEF Away
    <3> QED
      BY <3>1, <3>2 DEF Away
  <2>5. trace[Resume(child.start)].world = wd
    BY <1>11
  <2>6. child.emits \in {"CALL", "CREATE"} /\ (child.emits = "CREATE" => Succeeded(child.start))
    BY <1>4, <1>11, <1>17 DEF Succeeded
  <2> HIDE DEF child
  <2>7. \E D : Tracked(D, other, less, wd, q)
    BY <1>2, <1>9, <2>2, <2>4, <2>5, <2>6, TrackedBack
  <2> QED
    BY <1>8, <2>7 DEF Canon
<1> QED
  BY <1>4, <1>14, <1>15, <1>16, <1>17

-----------------------------------------------------------------------------
(* From log to log. *)

\* The world log i leaves behind, unless its frame fails with it.
WorldAfter(i) == [st |-> After(trace[i]), ev |-> EvAfter(i, trace[i])]

LEMMA WorldRecord ==
  ASSUME NEW a \in World
  PROVE  a = [st |-> a.st, ev |-> a.ev]
BY DEF World

LEMMA LogTypes ==
  ASSUME TraceInv
  PROVE  /\ Len(trace) \in Nat /\ DepthsOK
         /\ \A a \in 1 .. Len(trace) :
              /\ trace[a] \in Log /\ trace[a].world \in World /\ trace[a].top \in {0, 1}
              /\ trace[a].stack \in Seq(OpenedFrame)
              /\ trace[a].depth = Len(trace[a].stack) /\ Len(trace[a].stack) \in Nat
              /\ Len(trace[a].stack) >= 1
              /\ Last(trace[a].stack).saved \in World
<1>1. trace \in Seq(Log) /\ Len(trace) \in Nat /\ DOMAIN trace = 1 .. Len(trace)
  BY LenProperties DEF TraceInv, EvmTypeOK
<1>2. ASSUME NEW a \in 1 .. Len(trace)
      PROVE  /\ trace[a] \in Log /\ trace[a].world \in World /\ trace[a].top \in {0, 1}
             /\ trace[a].stack \in Seq(OpenedFrame)
             /\ trace[a].depth = Len(trace[a].stack) /\ Len(trace[a].stack) \in Nat
             /\ Len(trace[a].stack) >= 1 /\ trace[a].depth \in Nat
             /\ Last(trace[a].stack).saved \in World
  <2> DEFINE s == trace[a].stack
  <2>1. trace[a] \in Log
    BY <1>1, ElementOfSeq
  <2>2. /\ trace[a].world \in World /\ trace[a].top \in {0, 1} /\ s \in Seq(OpenedFrame)
        /\ trace[a].depth \in Nat
    BY <2>1 DEF Log
  <2>3. trace[a].depth = Len(s) /\ Len(s) >= 1
    BY <1>1 DEF TraceInv
  <2> HIDE DEF s
  <2>4. Len(s) \in Nat
    BY <2>2, LenProperties
  <2>5. s[Len(s)] \in OpenedFrame
    BY <2>2, <2>3, <2>4, ElementOfSeq
  <2>6. Last(s).saved \in World
    BY <2>5 DEF Last, OpenedFrame
  <2> QED
    BY <2>1, <2>2, <2>3, <2>4, <2>6 DEF s
<1> QED
  BY <1>1, <1>2 DEF DepthsOK

LEMMA NextWorld ==
  ASSUME TraceInv, HistoryInv, NEW a \in 1 .. (Len(trace) - 1)
  PROVE  LET log == trace[a]
             next == trace[a + 1]
         IN  \/ next.stack = log.stack /\ next.world = WorldAfter(a)
             \/ /\ Len(next.stack) = Len(log.stack) + 1
                /\ log.op \in Calls /\ ~log.error
                /\ next.world = log.world /\ WorldAfter(a) = log.world
                /\ \A k \in 1 .. Len(log.stack) : next.stack[k] = log.stack[k]
                /\ Last(next.stack).saved = log.world
                /\ log.op = "STATICCALL" => Last(next.stack).static
             \/ /\ Len(log.stack) = Len(next.stack) + 1
                /\ log.op \notin Calls \/ log.error
                /\ WorldAfter(a) = log.world
                /\ \A k \in 1 .. Len(next.stack) : next.stack[k] = log.stack[k]
                /\ next.world = IF next.top = 0 THEN Last(log.stack).saved ELSE log.world
<1> DEFINE log == trace[a]
           next == trace[a + 1]
<1>1. Len(trace) \in Nat /\ a \in 1 .. Len(trace) /\ a + 1 \in 1 .. Len(trace)
  BY LogTypes
<1>2. /\ log.world \in World /\ next.world \in World /\ Last(next.stack).saved \in World
      /\ Last(log.stack).saved \in World /\ Len(log.stack) \in Nat /\ Len(next.stack) \in Nat
  BY <1>1, LogTypes
<1>3. Follows(log, next.stack, next.world.st, next.top)
  BY DEF TraceInv
<1>4. EventsFollow(a, log, next.stack, next.world.ev, next.top)
  BY DEF HistoryInv
<1>5. WorldAfter(a) = [st |-> After(log), ev |-> EvAfter(a, log)]
  BY DEF WorldAfter
<1> HIDE DEF log, next
<1>6. ASSUME NEW x \in World, NEW y \in World, x.st = y.st, x.ev = y.ev PROVE x = y
  BY <1>6, WorldRecord
<1>7. CASE Stays(log, next.stack, next.world.st)
  <2>1. next.stack = log.stack /\ next.world.st = After(log)
    BY <1>7 DEF Stays
  <2>2. next.world.ev = EvAfter(a, log)
    BY <1>2, <1>4, <2>1 DEF EventsFollow
  <2>3. next.world = WorldAfter(a)
    BY <1>2, <1>5, <2>1, <2>2, WorldRecord
  <2> QED
    BY <2>1, <2>3 DEF log, next
<1>8. CASE Opened(log, next.stack, next.world.st)
  <2>1. /\ log.op \in Calls /\ ~log.error /\ next.world.st = log.world.st
        /\ Len(next.stack) = Len(log.stack) + 1
        /\ \A k \in 1 .. Len(log.stack) : next.stack[k] = log.stack[k]
        /\ Last(next.stack).saved.st = log.world.st
    BY <1>8 DEF Opened, Last
  <2>2. /\ next.world.ev = log.world.ev /\ Last(next.stack).saved.ev = log.world.ev
        /\ log.op = "STATICCALL" => Last(next.stack).static
    BY <1>2, <1>4, <2>1 DEF EventsFollow
  <2>3. After(log) = log.world.st /\ EvAfter(a, log) = log.world.ev
    BY <2>1 DEF After, EvAfter, Calls
  <2>4. WorldAfter(a) = log.world
    BY <1>2, <1>5, <2>3, WorldRecord
  <2>5. next.world = log.world /\ Last(next.stack).saved = log.world
    BY <1>2, <1>6, <2>1, <2>2
  <2> QED
    BY <2>1, <2>2, <2>4, <2>5 DEF log, next
<1>9. CASE Closed(log, next.stack, next.world.st, next.top)
  <2>1. /\ Len(log.stack) = Len(next.stack) + 1
        /\ \A k \in 1 .. Len(next.stack) : next.stack[k] = log.stack[k]
        /\ log.op \notin Calls \cup {"SSTORE"} \/ log.error
        /\ IF next.top = 0 THEN next.world.st = Last(log.stack).saved.st
                           ELSE next.world.st = log.world.st
    BY <1>9 DEF Closed
  <2>2. /\ log.op # "LOG" \/ log.error
        /\ next.world.ev = IF next.top = 0 THEN Last(log.stack).saved.ev ELSE log.world.ev
    BY <1>2, <1>4, <2>1 DEF EventsFollow
  <2>3. After(log) = log.world.st /\ EvAfter(a, log) = log.world.ev
    BY <2>1, <2>2 DEF After, EvAfter
  <2>4. WorldAfter(a) = log.world
    BY <1>2, <1>5, <2>3, WorldRecord
  <2>5. next.world = IF next.top = 0 THEN Last(log.stack).saved ELSE log.world
    <3>1. CASE next.top = 0
      BY <1>2, <1>6, <2>1, <2>2, <3>1
    <3>2. CASE next.top # 0
      BY <1>2, <1>6, <2>1, <2>2, <3>2
    <3> QED
      BY <3>1, <3>2
  <2> QED
    BY <2>1, <2>4, <2>5 DEF log, next
<1> QED
  BY <1>3, <1>7, <1>8, <1>9 DEF Follows

ProgramFields == {"target", "index", "parent", "at", "updates", "children", "dropped", "pruned",
                  "native_gas", "direct_call_gas", "direct_create_gas"}
IsRoot(p) ==
  DOMAIN p = ProgramFields /\ p.target = Root /\ p.parent = 0 /\ p.dropped = FALSE

\* The root's program is the only one.
RootAlone(programs) == \E p : programs = <<p>> /\ IsRoot(p)

LEMMA RootAloneOnly ==
  ASSUME NEW programs, RootAlone(programs)
  PROVE  Len(programs) = 1 /\ programs[1].target = Root /\ DropFrom(programs, 2) = programs
<1>1. PICK p : programs = <<p>> /\ IsRoot(p)
  BY DEF RootAlone
<1>2. p.target = Root
  BY <1>1 DEF IsRoot
<1>3. Len(programs) = 1 /\ programs[1] = p /\ DOMAIN programs = 1 .. 1
  BY <1>1
<1>4. DropFrom(programs, 2) = [id \in 1 .. 1 |-> p]
  BY <1>3 DEF DropFrom
<1>5. [id \in 1 .. 1 |-> p] = <<p>>
  OBVIOUS
<1> QED
  BY <1>1, <1>2, <1>3, <1>4, <1>5

\* p is the frame that awaits its first log.
Awaits(v, p) == DOMAIN v = WalkFields /\ v.pending = {p} /\ p.nested = FALSE

LEMMA EnterTop ==
  ASSUME NEW v, NEW p, Awaits(v, p), NEW i
  PROVE  /\ Enter(v, i).programs = v.programs
         /\ trace[i].depth # p.depth + 1 =>
              Enter(v, i).frames = Charge(v.frames, p.emits, i - p.start)
         /\ trace[i].depth = p.depth + 1 =>
              Enter(v, i).frames = Append(v.frames, NewFrame(trace[i].depth, p, Len(v.programs) + 1))
<1> USE DEF Awaits
<1> DEFINE x == Enter(v, i)
           q == CHOOSE r \in v.pending : TRUE
           first == IF q.nested THEN CHOOSE id \in q.program : TRUE ELSE Len(v.programs) + 1
           frames == IF trace[i].depth = q.depth + 1 THEN Append(v.frames, NewFrame(trace[i].depth, q, first))
                     ELSE Charge(v.frames, q.emits, i - q.start)
<1>1. v.pending # {} /\ q = p
  OBVIOUS
<1>2. x = [v EXCEPT !.pending = {}, !.frames = frames]
  BY <1>1 DEF Enter
<1>3. first = Len(v.programs) + 1
  BY <1>1
<1> HIDE DEF q, first
<1>4. x.programs = v.programs /\ x.frames = frames
  <2> HIDE DEF frames
  <2> QED
    BY <1>2 DEF WalkFields
<1> HIDE DEF x
<1> QED
  BY <1>1, <1>3, <1>4 DEF x

LEMMA RevertedTop ==
  ASSUME NEW v, DOMAIN v = WalkFields, Frameful(v.frames), Len(v.frames) >= 2, NEW i,
         RootAlone(v.programs), Last(v.frames).nested = FALSE, Last(v.frames).first_program = 2
  PROVE  LET x == LeaveReverted(v, i)
         IN  /\ x.programs = v.programs /\ Len(x.frames) = Len(v.frames) - 1
             /\ \A k \in 1 .. (Len(v.frames) - 1) : Trims(v.frames[k], x.frames[k])
<1> DEFINE x == LeaveReverted(v, i)
           n == Len(v.frames)
           front == Front(v.frames)
           child == Last(v.frames)
           rest == Charge(front, child.emits, i - child.start)
           programs == DropFrom(v.programs, child.first_program)
<1>1. programs = v.programs
  BY RootAloneOnly
<1>2. Frameful(front) /\ Len(front) = n - 1 /\ \A k \in 1 .. (n - 1) : front[k] = v.frames[k]
  BY FrontFrameful
<1>3. x = [v EXCEPT !.frames = rest, !.programs = programs]
  BY DEF LeaveReverted
<1> HIDE DEF programs, front, child, n
<1>4. AllTrim(front, rest)
  BY <1>2, ChargeTrims
<1> HIDE DEF rest
<1>5. x.frames = rest /\ x.programs = programs
  BY <1>3 DEF WalkFields
<1> HIDE DEF x
<1>6. n \in Nat /\ Len(x.frames) = n - 1 /\ \A k \in 1 .. (n - 1) : Trims(v.frames[k], x.frames[k])
  BY <1>2, <1>4, <1>5 DEF AllTrim, n, Frameful, IsList
<1> QED
  BY <1>1, <1>5, <1>6 DEF x, n

-----------------------------------------------------------------------------
(* The walk keeps track of the updates. *)

NoOp == [emits |-> "none", start |-> 0]

\* After log a: what is pending and what the updates of the open frames come to.
CanonAfter(v, a) ==
  /\ RootAlone(v.programs)
  /\ v.pending = {} => Canon(v.frames, trace[a].stack, WorldAfter(a), a, NoOp)
  /\ \A p \in v.pending :
       /\ AwaitOK(p, Last(v.frames)) /\ p.start = a
       /\ p.program = {} /\ p.emits = "none" /\ Emits(Last(v.frames)) => trace[a].op = "STATICCALL"
       /\ Canon(v.frames, trace[a].stack, WorldAfter(a), a, p)

LEMMA SettledCanon ==
  ASSUME TraceInv, HistoryInv, NEW v, DOMAIN v = WalkFields, NEW a \in 1 .. (Len(trace) - 1),
         Mirrors(v.frames, trace[a].stack, After(trace[a])), PendingOK(v.pending, trace[a]),
         CanonAfter(v, a), ~EnterFails(v, trace[a + 1]), ~LeaveFails(Enter(v, a + 1), trace[a + 1])
  PROVE  LET x == Leave(Enter(v, a + 1), a + 1)
         IN  /\ x.programs = v.programs
             /\ Canon(x.frames, trace[a + 1].stack, trace[a + 1].world, a + 1, NoOp)
<1> DEFINE log == trace[a]
           i == a + 1
           next == trace[i]
           n == Len(v.frames)
           e == Enter(v, i)
           x == Leave(e, i)
           wd == next.world
           G == x.programs = v.programs /\ Canon(x.frames, next.stack, wd, i, NoOp)
<1> SUFFICES G
  OBVIOUS
<1>1. /\ DepthsOK /\ Len(trace) \in Nat /\ a \in Nat /\ i \in Nat /\ a \in 1 .. Len(trace) /\ i \in 1 .. Len(trace)
      /\ wd \in World /\ next.depth = Len(next.stack) /\ Len(next.stack) \in Nat /\ Len(next.stack) >= 1
      /\ log.depth = Len(log.stack) /\ next.top \in {0, 1} /\ log.world \in World
  <2>1. Len(trace) \in Nat /\ a \in 1 .. Len(trace) /\ i \in 1 .. Len(trace)
    BY LogTypes
  <2> QED
    BY <2>1, LogTypes
<1>2. /\ Frameful(v.frames) /\ n \in Nat /\ n >= 1 /\ n = Len(log.stack) /\ Last(v.frames).depth = n
      /\ Last(v.frames) = v.frames[n] /\ FrameOK(v.frames[n]) /\ NoOp.emits = "none"
  <2>1. Frameful(v.frames) /\ n \in Nat /\ n = Len(log.stack) /\ Last(v.frames).depth = n
    BY MirrorsFrameful
  <2>2. n >= 1 /\ FrameOK(v.frames[n])
    BY <2>1 DEF Mirrors
  <2> QED
    BY <2>1, <2>2 DEF Last, NoOp
<1>3. /\ DOMAIN x = WalkFields /\ x.pending = {}
      /\ Mirrors(x.frames, next.stack, wd.st)
  <2>1. Follows(log, next.stack, next.world.st, next.top)
    BY DEF TraceInv
  <2> HIDE DEF i, log
  <2>2. Mirrors(v.frames, log.stack, After(log)) /\ PendingOK(v.pending, log)
    BY DEF log
  <2> QED
    BY <1>1, <2>1, <2>2, SettledStep
<1>4. RootAlone(v.programs) /\ Len(v.programs) = 1 /\ v.programs[1].target = Root
  BY RootAloneOnly DEF CanonAfter
<1>5. CASE next.stack = log.stack /\ wd = WorldAfter(a)
  <2>1. next.depth = n
    BY <1>1, <1>2, <1>5
  <2>2. CASE v.pending = {}
    <3>1. e = v
      BY <2>2 DEF Enter
    <3>2. ~Leaving(e, next)
      BY <1>2, <2>1, <3>1 DEF Leaving
    <3>3. x = v
      BY <3>1, <3>2 DEF Leave
    <3>4. Canon(v.frames, next.stack, wd, a, NoOp)
      BY <1>5, <2>2 DEF CanonAfter
    <3>5. AllTrim(v.frames, v.frames)
      BY <1>2, TrimsSame DEF AllTrim, Frameful
    <3>6. Soon(a, i, Len(v.frames))
      BY <1>1, <1>2, <2>1 DEF Soon
    <3> HIDE DEF i, wd, x, e
    <3>7. Canon(v.frames, next.stack, wd, i, NoOp)
      BY <1>1, <1>2, <3>4, <3>5, <3>6, CanonSame
    <3> QED
      BY <3>3, <3>7
  <2>3. CASE v.pending # {}
    <3>1. PICK p : v.pending = {p} /\ p.depth = log.depth
      BY <2>3 DEF PendingOK, Awaited
    <3>2. /\ AwaitOK(p, v.frames[n]) /\ p.start = a /\ Canon(v.frames, next.stack, wd, a, p)
          /\ p.nested = FALSE /\ p.emits \in {"none", "CALL", "CREATE"}
      BY <1>2, <1>5, <3>1 DEF CanonAfter, AwaitOK
    <3>3. next.depth # p.depth + 1
      BY <1>1, <1>2, <2>1, <3>1
    <3>4. e.programs = v.programs /\ e.frames = Charge(v.frames, p.emits, i - p.start)
      <4> DEFINE d == trace[i].depth
      <4>1. d # p.depth + 1
        BY <3>3
      <4> HIDE DEF i, d
      <4>2. /\ e.programs = v.programs
            /\ d # p.depth + 1 => e.frames = Charge(v.frames, p.emits, i - p.start)
        <5>1. Awaits(v, p)
          BY <3>1, <3>2 DEF Awaits
        <5> QED
          BY <5>1, EnterTop DEF d
      <4> QED
        BY <4>1, <4>2
    <3>5. AllTrim(v.frames, e.frames)
      BY <1>2, <3>4, ChargeTrims
    <3>6. Last(e.frames).depth = n
      <4>1. Keeps(v.frames, e.frames)
        BY <1>2, <3>4, ChargeKeeps
      <4> HIDE DEF e
      <4> QED
        BY <1>2, <4>1 DEF Keeps, Alike, Last
    <3>7. ~Leaving(e, next)
      BY <1>2, <2>1, <3>6 DEF Leaving
    <3>8. x = e
      BY <3>7 DEF Leave
    <3>9. p.emits = "CREATE" => next.top = 1
      BY <1>1, <3>1, <3>3 DEF EnterFails
    <3>10. Mirrors(e.frames, next.stack, wd.st)
      BY <1>3, <3>8
    <3>11. trace[a].depth = Len(v.frames) /\ trace[a + 1].depth = Len(v.frames)
      BY <1>1, <1>2, <2>1
    <3>12. trace[a + 1].world = wd
      OBVIOUS
    <3> HIDE DEF x, e
    <3>13. CASE p.emits = "none"
      <4>1. Soon(a, i, Len(v.frames))
        BY <1>1, <1>2, <2>1 DEF Soon
      <4> DEFINE stk == next.stack
                 fr == e.frames
                 gr == v.frames
      <4>2. /\ Canon(gr, stk, wd, a, p) /\ AllTrim(gr, fr) /\ Frameful(gr) /\ NoOp.emits = "none"
            /\ Soon(a, i, Len(gr))
        BY <1>2, <3>2, <3>5, <4>1
      <4> HIDE DEF i, wd, stk, fr, gr
      <4>3. Canon(fr, stk, wd, i, NoOp)
        BY <3>13, <4>2, CanonSame
      <4> QED
        BY <3>4, <3>8, <4>3 DEF stk, fr
    <3>14. CASE p.emits # "none"
      <4>1. Emits(v.frames[Len(v.frames)]) /\ p.emits \in {"CALL", "CREATE"}
        BY <3>2, <3>14 DEF AwaitOK
      <4> DEFINE stk == next.stack
                 fr == e.frames
      <4>2. /\ Canon(v.frames, stk, wd, a, p) /\ Mirrors(fr, stk, wd.st) /\ AllTrim(v.frames, fr)
            /\ p.emits = "CREATE" => trace[a + 1].top = 1
            /\ a \in 1 .. Len(trace) /\ a + 1 \in 1 .. Len(trace)
        BY <1>1, <3>2, <3>5, <3>9, <3>10
      <4> HIDE DEF wd, stk, fr
      <4>3. Canon(fr, stk, wd, a + 1, NoOp)
        BY <1>1, <1>2, <3>2, <3>11, <3>12, <4>1, <4>2, CanonInline
      <4> QED
        BY <3>4, <3>8, <4>3 DEF stk, fr
    <3> QED
      BY <3>13, <3>14
  <2> QED
    BY <2>2, <2>3
<1>6. CASE /\ Len(next.stack) = Len(log.stack) + 1
           /\ log.op \in Calls /\ ~log.error
           /\ wd = log.world /\ WorldAfter(a) = log.world
           /\ \A k \in 1 .. Len(log.stack) : next.stack[k] = log.stack[k]
           /\ Last(next.stack).saved = log.world
           /\ log.op = "STATICCALL" => Last(next.stack).static
  <2> DEFINE opened == log.stack
             more == next.stack
  <2>1. PICK p : v.pending = {p} /\ p.depth = log.depth
    BY <1>6 DEF PendingOK, Awaited
  <2>2. /\ AwaitOK(p, v.frames[n]) /\ p.start = a /\ Canon(v.frames, opened, wd, a, p)
        /\ p.nested = FALSE
        /\ p.program = {} /\ p.emits = "none" /\ Emits(v.frames[n]) => log.op = "STATICCALL"
    BY <1>2, <1>6, <2>1 DEF CanonAfter, AwaitOK
  <2>3. next.depth = p.depth + 1 /\ next.depth = n + 1
    BY <1>1, <1>2, <1>6, <2>1
  <2> DEFINE f == NewFrame(next.depth, p, Len(v.programs) + 1)
             fr == Append(v.frames, f)
  <2>4. e.programs = v.programs /\ e.frames = fr
    <3>1. Awaits(v, p)
      BY <2>1, <2>2 DEF Awaits
    <3> QED
      BY <2>3, <3>1, EnterTop
  <2>5. /\ f.program = p.program /\ f.nested = p.nested /\ f.emits = p.emits /\ f.start = p.start
        /\ f.ctx = p.ctx /\ f.view = p.view /\ f.out = <<>> /\ f.first_program = 2
        /\ f.depth = next.depth
        /\ \A c \in Contract : DOMAIN f.journal[c] = {}
    BY <1>4 DEF NewFrame, NoWrites, NoSlots
  <2> HIDE DEF f
  <2>6. Len(fr) = n + 1 /\ fr[n + 1] = f
    BY <1>2, ListAppend DEF Frameful
  <2>7. ~Leaving(e, next)
    BY <1>2, <2>3, <2>4, <2>5, <2>6 DEF Leaving, Last
  <2>8. x = e
    BY <2>7 DEF Leave
  <2>9. /\ more[Len(v.frames) + 1] = Last(more) /\ Len(opened) = Len(v.frames)
        /\ \A k \in 1 .. Len(opened) : more[k] = opened[k]
    BY <1>2, <1>6 DEF Last
  <2>10. /\ more[Len(v.frames) + 1].saved = wd
         /\ p.program = {} /\ p.emits = "none" /\ Emits(v.frames[Len(v.frames)]) => more[Len(v.frames) + 1].static
    BY <1>6, <2>2, <2>9
  <2>11. /\ trace[a].depth = Len(v.frames) /\ trace[a].world = wd
         /\ trace[a + 1].depth = Len(v.frames) + 1 /\ a \in 1 .. Len(trace) /\ a + 1 \in 1 .. Len(trace)
    BY <1>1, <1>2, <1>6, <2>3
  <2>12. AwaitOK(p, v.frames[Len(v.frames)])
    BY <2>2
  <2> DEFINE gr == v.frames
  <2>13. /\ Frameful(gr) /\ Len(opened) = Len(gr) /\ AwaitOK(p, gr[Len(gr)]) /\ p.start = a
         /\ Canon(gr, opened, wd, a, p)
         /\ more[Len(gr) + 1].saved = wd
         /\ p.program = {} /\ p.emits = "none" /\ Emits(gr[Len(gr)]) => more[Len(gr) + 1].static
         /\ trace[a].depth = Len(gr) /\ trace[a].world = wd
         /\ trace[a + 1].depth = Len(gr) + 1 /\ a \in 1 .. Len(trace) /\ a + 1 \in 1 .. Len(trace)
    BY <1>2, <2>2, <2>9, <2>10, <2>11, <2>12
  <2> HIDE DEF opened, more, wd, fr, x, e, gr
  <2>14. Canon(Append(gr, f), more, wd, a + 1, NoOp)
    <3>1. DepthsOK /\ NoOp.emits = "none" /\ \A k \in 1 .. Len(opened) : more[k] = opened[k]
      BY <1>1, <1>2, <2>9
    <3>2. Begun(gr, opened, wd, a, p, f, more)
      BY <2>5, <2>13, <3>1 DEF Begun
    <3> QED
      BY <2>13, <3>1, <3>2, CanonOpened
  <2> QED
    BY <2>4, <2>8, <2>14 DEF more, fr, gr
<1>7. CASE /\ Len(log.stack) = Len(next.stack) + 1
           /\ log.op \notin Calls \/ log.error
           /\ WorldAfter(a) = log.world
           /\ \A k \in 1 .. Len(next.stack) : next.stack[k] = log.stack[k]
           /\ wd = IF next.top = 0 THEN Last(log.stack).saved ELSE log.world
  <2> DEFINE opened == log.stack
             less == next.stack
             m == Len(less)
             fr == v.frames
             fr2 == x.frames
  <2>1. /\ m \in Nat /\ m >= 1 /\ n = m + 1 /\ Len(opened) = m + 1 /\ next.depth = m
        /\ \A k \in 1 .. m : less[k] = opened[k]
        /\ n >= 2 /\ m = n - 1
    BY <1>1, <1>2, <1>7
  <2>2. v.pending = {}
    BY <1>7 DEF PendingOK
  <2>3. e = v
    BY <2>2 DEF Enter
  <2>4. Leaving(v, next)
    BY <1>2, <2>1 DEF Leaving
  <2>5. Canon(fr, opened, log.world, a, NoOp)
    BY <1>7, <2>2 DEF CanonAfter
  <2>6. fr[m + 1].nested = FALSE /\ fr[m + 1].first_program = 2 /\ Last(fr) = fr[m + 1]
    <3>1. Shape(fr, opened)
      BY <2>5 DEF Canon
    <3>2. m + 1 \in 1 .. Len(fr) /\ m + 1 \in 2 .. Len(fr)
      BY <2>1
    <3> QED
      BY <1>2, <2>1, <3>1, <3>2 DEF Shape
  <2>7. Len(opened) = m + 1 /\ Last(opened) = opened[m + 1]
    BY <2>1 DEF Last
  <2>8. CASE next.top = 0
    <3>1. x = LeaveReverted(v, i)
      BY <2>3, <2>4, <2>8 DEF Leave
    <3>2. /\ x.programs = v.programs /\ Len(fr2) = m
          /\ \A k \in 1 .. m : Trims(fr[k], fr2[k])
      <4> DEFINE y == LeaveReverted(v, i)
      <4>1. /\ y.programs = v.programs /\ Len(y.frames) = n - 1
            /\ \A k \in 1 .. (n - 1) : Trims(v.frames[k], y.frames[k])
        <5> HIDE DEF i
        <5> QED
          BY <1>2, <1>4, <2>1, <2>6, RevertedTop
      <4> HIDE DEF y
      <4>2. x = y /\ n - 1 = m
        BY <2>1, <3>1 DEF y
      <4> QED
        BY <4>1, <4>2
    <3>3. fr[m + 1].emits # "CREATE"
      BY <2>3, <2>4, <2>6, <2>8 DEF LeaveFails
    <3>4. opened[m + 1].saved = wd
      BY <1>7, <2>7, <2>8
    <3>5. /\ trace[a + 1].depth = m /\ trace[a + 1].world = wd /\ a + 1 \in 1 .. Len(trace)
          /\ Len(fr) = m + 1 /\ Mirrors(fr2, less, wd.st)
      BY <1>1, <1>3, <2>1
    <3> DEFINE wd0 == log.world
    <3>6. Canon(fr, opened, wd0, a, NoOp)
      BY <2>5
    <3> HIDE DEF wd, wd0, fr, fr2, opened, less, m
    <3>7. Canon(fr2, less, wd, a + 1, NoOp)
      BY <1>1, <1>2, <2>1, <3>2, <3>3, <3>4, <3>5, <3>6, CanonReverted
    <3> QED
      BY <3>2, <3>7 DEF fr2, less, wd
  <2>9. CASE next.top # 0
    <3>1. x = LeavePlain(v, i) /\ next.top = 1
      BY <1>1, <2>3, <2>4, <2>6, <2>9 DEF Leave
    <3>2. /\ x.programs = v.programs /\ Len(fr2) = m
          /\ \A k \in 1 .. (m - 1) : Trims(fr[k], fr2[k])
          /\ Joined(fr[m], fr[m + 1], fr2[m])
      <4> DEFINE y == LeavePlain(v, i)
      <4>1. LET h == n - 1
            IN  /\ y.programs = v.programs /\ Len(y.frames) = h
                /\ \A k \in 1 .. (h - 1) : Trims(v.frames[k], y.frames[k])
                /\ Joined(v.frames[h], v.frames[h + 1], y.frames[h])
        <5> HIDE DEF i
        <5> QED
          BY <1>2, <1>4, <2>1, PlainJoins
      <4> HIDE DEF y
      <4>2. x = y /\ n - 1 = m
        BY <2>1, <3>1 DEF y
      <4> HIDE DEF m
      <4> QED
        BY <4>1, <4>2
    <3>3. wd = log.world
      BY <1>7, <2>9
    <3>4. Canon(fr, opened, wd, a, NoOp)
      BY <2>5, <3>3
    <3>5. /\ trace[a + 1].depth = m /\ trace[a + 1].world = wd /\ a + 1 \in 1 .. Len(trace)
          /\ trace[a + 1].top = 1 /\ Len(fr) = m + 1 /\ Mirrors(fr2, less, wd.st)
      BY <1>1, <1>3, <2>1, <3>1
    <3>6. Mirrors(fr, opened, wd.st)
      <4>1. After(log) = WorldAfter(a).st
        BY DEF WorldAfter
      <4> QED
        BY <1>7, <3>3, <4>1
    <3>7. StaticOK(opened, wd)
      <4>1. a \in DOMAIN trace
        BY <1>1, LenProperties DEF TraceInv, EvmTypeOK
      <4> QED
        BY <3>3, <4>1 DEF HistoryInv
    <3> HIDE DEF wd, fr, fr2, opened, less, m
    <3>8. Canon(fr2, less, wd, a + 1, NoOp)
      BY <1>1, <1>2, <2>1, <2>7, <3>2, <3>4, <3>5, <3>6, <3>7, CanonJoined
    <3> QED
      BY <3>2, <3>8 DEF wd, fr2, less
  <2> QED
    BY <2>8, <2>9
<1> QED
  <2>1. G
    BY <1>5, <1>6, <1>7, NextWorld
  <2> QED
    BY <2>1

-----------------------------------------------------------------------------
(* A log of the top frame. *)

\* The frames are the same but for the top one, which keeps its role.
ChangesTop(frames, other) ==
  /\ Frameful(frames) /\ Len(other) = Len(frames)
  /\ \A k \in 1 .. (Len(frames) - 1) : other[k] = frames[k]
  /\ SameRole(frames[Len(frames)], other[Len(frames)])

\* Whatever world the updates of the top frame led to, they now lead into o, or on
\* to a world that is wd but for what awaits a slice.
LeadsOn(frames, wd0, other, wd, o) ==
  LET n == Len(frames)
  IN  Emits(frames[n]) =>
        \A from, c : Runs(frames[n].out, from, c) /\ Clean(frames, n, c, wd0) =>
          \E d : IF o.emits = "none" THEN Runs(other[n].out, from, d) /\ Clean(other, n, d, wd)
                 ELSE Called(other[n].out, from, o) /\ Away(other, n, wd)

LEMMA CanonTop ==
  ASSUME NEW frames, NEW opened, NEW wd0, NEW a, NEW o0, Canon(frames, opened, wd0, a, o0),
         o0.emits = "none", a \in Nat, NEW other, ChangesTop(frames, other),
         NEW wd, NEW o, LeadsOn(frames, wd0, other, wd, o)
  PROVE  Canon(other, opened, wd, a, o)
<1> DEFINE n == Len(frames)
<1>1. /\ n \in Nat /\ n >= 1 /\ Len(other) = n /\ \A k \in 1 .. n : FrameOK(frames[k])
      /\ \A k \in 1 .. (n - 1) : other[k] = frames[k]
      /\ SameRole(frames[n], other[n])
  BY DEF ChangesTop, Frameful, IsList
<1>2. Shape(frames, opened) /\ Starts(frames, opened, a)
  BY DEF Canon
<1>3. PICK C : Tracked(C, frames, opened, wd0, o0)
  BY DEF Canon
<1> HIDE DEF n
<1>4. \A k \in 1 .. n : SameRole(frames[k], other[k])
  <2>1. ASSUME NEW k \in 1 .. n PROVE SameRole(frames[k], other[k])
    <3>1. CASE k = n
      BY <1>1, <3>1
    <3>2. CASE k # n
      <4>1. k \in 1 .. (n - 1)
        BY <1>1, <3>2
      <4>2. ~Emits(frames[k]) => frames[k].out = <<>>
        BY <1>2 DEF Shape, n
      <4> QED
        BY <1>1, <4>1, <4>2 DEF SameRole
    <3> QED
      BY <3>1, <3>2
  <2> QED
    BY <2>1
<1>5. Shape(other, opened) /\ Starts(other, opened, a)
  <2>1. Remain(frames, opened, a, n, other, opened, a)
    BY <1>1, <1>4 DEF Remain, n
  <2> QED
    BY <1>2, <2>1, RolesKept
<1>6. Shortens(frames, opened, n, other, opened)
  <2>1. \A k \in 1 .. (n - 1) : Trims(frames[k], other[k])
    BY <1>1, TrimsSame
  <2> QED
    BY <1>1, <2>1 DEF Shortens, SameRole, n
<1>7. \E D : Tracked(D, other, opened, wd, o)
  <2>1. CASE ~Emits(frames[n])
    <3>1. ~Emits(other[n])
      BY <1>1, <2>1 DEF SameRole, Emits
    <3>2. Tracked(C, other, opened, wd, o)
      BY <1>3, <1>6, <3>1, TrackedTop
    <3> QED
      BY <3>2
  <2>2. CASE Emits(frames[n])
    <3>1. Level(C, frames, n, wd0, o0)
      BY <1>1, <1>3, <2>2 DEF Tracked, Seen, OpenOp, n
    <3>2. Runs(frames[n].out, C[n - 1], C[n]) /\ Clean(frames, n, C[n], wd0)
      BY <3>1 DEF Level
    <3>3. PICK d : IF o.emits = "none" THEN Runs(other[n].out, C[n - 1], d) /\ Clean(other, n, d, wd)
                   ELSE Called(other[n].out, C[n - 1], o) /\ Away(other, n, wd)
      BY <2>2, <3>2 DEF LeadsOn, n
    <3> DEFINE D == [j \in 0 .. n |-> IF j = n THEN d ELSE C[j]]
    <3>4. D[n] = d /\ D[n - 1] = C[n - 1] /\ \A j \in 0 .. (n - 1) : D[j] = C[j]
      BY <1>1
    <3> HIDE DEF D
    <3>5. Level(D, other, n, wd, o)
      BY <3>3, <3>4 DEF Level
    <3>6. Tracked(D, other, opened, wd, o)
      BY <1>3, <1>6, <3>4, <3>5, TrackedTop
    <3> QED
      BY <3>6
  <2> QED
    BY <2>1, <2>2
<1> QED
  BY <1>5, <1>7 DEF Canon

LEMMA CanonStart ==
  ASSUME NEW opened
  PROVE  Canon(WalkStart.frames, opened, Genesis, 1, NoOp)
<1> DEFINE f == NewFrame(1, Pending(0, Root, {1}, NoSlots, "none", FALSE, 0), 1)
           frames == <<f>>
           C == [k \in 0 .. 1 |-> Genesis]
<1>1. WalkStart.frames = frames
  BY DEF WalkStart
<1>2. /\ f.program = {1} /\ f.nested = FALSE /\ f.emits = "none" /\ f.ctx = Root /\ f.out = <<>>
      /\ DOMAIN f.view = {}
  BY DEF NewFrame, Pending, NoSlots
<1> HIDE DEF f
<1>3. Len(frames) = 1 /\ frames[1] = f
  OBVIOUS
<1> HIDE DEF frames
<1>4. Genesis \in World /\ \A s \in Slot : Genesis.st[Root][s] = 0
  <2>1. [c \in Contract |-> [s \in Slot |-> 0]] \in Storage
    BY DEF Storage
  <2>2. <<>> \in Seq(Ctx \X Nat)
    OBVIOUS
  <2>3. Genesis \in World
    BY <2>1, <2>2 DEF Genesis, World
  <2> QED
    BY <2>3, EvmAssumption DEF Genesis
<1>5. Shape(frames, opened) /\ Starts(frames, opened, 1)
  BY <1>2, <1>3 DEF Shape, Starts, Emits
<1>6. C[0] = Genesis /\ C[1] = Genesis /\ C[1 - 1] = Genesis
  OBVIOUS
<1> HIDE DEF C
<1>7. Clean(frames, 1, Genesis, Genesis)
  BY <1>2, <1>3, <1>4 DEF Clean
<1>8. Runs(frames[1].out, Genesis, Genesis)
  BY <1>2, <1>3, RunsNothing
<1>9. Level(C, frames, 1, Genesis, NoOp)
  BY <1>6, <1>7, <1>8 DEF Level, NoOp
<1>10. Tracked(C, frames, opened, Genesis, NoOp)
  BY <1>3, <1>6, <1>9 DEF Tracked, Seen, OpenOp
<1> QED
  BY <1>1, <1>5, <1>10 DEF Canon

CanonInv ==
  /\ phase \in {"trace", "walk"} => RootAlone(w.programs)
  /\ phase = "walk" /\ pos > 1 => CanonAfter(w, pos - 1)

LEMMA SettledTracked ==
  ASSUME TraceInv, HistoryInv, WalkInv, CanonInv, phase = "walk", pos <= Len(trace), ~Fails
  PROVE  /\ RootAlone(Settled.programs)
         /\ Canon(Settled.frames, trace[pos].stack, trace[pos].world, pos, NoOp)
<1>0. /\ DOMAIN w = WalkFields /\ pos \in Nat /\ pos >= 1 /\ RootAlone(w.programs)
      /\ Len(trace) \in Nat
  BY LogTypes DEF WalkInv, WalkFields, CanonInv
<1>1. CASE pos = 1
  <2>1. w.frames = WalkStart.frames /\ w.pending = {}
    BY <1>1 DEF WalkInv
  <2>2. Mirrors(w.frames, trace[pos].stack, trace[pos].world.st)
    BY <1>1, <2>1, AtLog, MirrorsStart
  <2>3. Enter(w, pos) = w
    BY <2>1 DEF Enter
  <2>4. ~Leaving(w, trace[pos])
    BY <2>2, AtLog, MirrorsFrameful DEF Leaving
  <2>5. Settled = w
    BY <2>3, <2>4 DEF Settled, Leave
  <2>6. trace[1].world = Genesis
    <3>1. trace # <<>>
      BY <1>0, <1>1
    <3> QED
      BY <3>1 DEF HistoryInv
  <2> QED
    BY <1>0, <1>1, <2>1, <2>5, <2>6, CanonStart
<1>2. CASE pos > 1
  <2> DEFINE a == pos - 1
  <2>1. a \in 1 .. (Len(trace) - 1) /\ a + 1 = pos
    BY <1>0, <1>2
  <2>2. /\ Mirrors(w.frames, trace[a].stack, After(trace[a])) /\ PendingOK(w.pending, trace[a])
        /\ CanonAfter(w, a)
    BY <1>2 DEF WalkInv, CanonInv
  <2>3. ~EnterFails(w, trace[a + 1]) /\ ~LeaveFails(Enter(w, a + 1), trace[a + 1])
    BY <2>1 DEF Fails
  <2> HIDE DEF a
  <2>4. LET x == Leave(Enter(w, a + 1), a + 1)
        IN  /\ x.programs = w.programs
            /\ Canon(x.frames, trace[a + 1].stack, trace[a + 1].world, a + 1, NoOp)
    BY <1>0, <2>1, <2>2, <2>3, SettledCanon
  <2> QED
    BY <1>0, <2>1, <2>4 DEF Settled
<1> QED
  BY <1>0, <1>1, <1>2

\* The trace is complete, so what was tracked stays tracked.
LEMMA ResumeKept ==
  ASSUME trace' = trace, NEW i
  PROVE  Resume(i)' = Resume(i)
BY DEF Resume

LEMMA EffectKept ==
  ASSUME trace' = trace, NEW u, NEW b, NEW c
  PROVE  Effect(u, b, c)' = Effect(u, b, c)
BY ResumeKept DEF Effect, Succeeded

LEMMA RunsKept ==
  ASSUME trace' = trace, NEW u, NEW b, NEW c
  PROVE  Runs(u, b, c)' = Runs(u, b, c)
BY EffectKept DEF Runs, History

LEMMA CanonKept ==
  ASSUME trace' = trace, NEW frames, NEW opened, NEW wd, NEW i, NEW o, Canon(frames, opened, wd, i, o)
  PROVE  Canon(frames, opened, wd, i, o)'
<1>1. \A out, from, p : Called(out, from, p)' = Called(out, from, p)
  BY RunsKept DEF Called
<1>2. \A C, k, seen, p : Level(C, frames, k, seen, p)' = Level(C, frames, k, seen, p)
  BY <1>1, RunsKept DEF Level
<1>3. \A C : Tracked(C, frames, opened, wd, o)' = Tracked(C, frames, opened, wd, o)
  BY <1>2 DEF Tracked
<1>4. Starts(frames, opened, i)' = Starts(frames, opened, i)
  BY DEF Starts
<1> QED
  BY <1>3, <1>4 DEF Canon

LEMMA CanonAfterKept ==
  ASSUME trace' = trace, NEW v, NEW a, CanonAfter(v, a)
  PROVE  CanonAfter(v, a)'
<1>1. WorldAfter(a)' = WorldAfter(a)
  BY DEF WorldAfter
<1> QED
  BY <1>1, CanonKept DEF CanonAfter

LEMMA BecomesCanon ==
  ASSUME TraceInv, WalkInv, CanonInv, phase = "walk", NEW v, CanonAfter(v, pos), Becomes(v)
  PROVE  CanonInv'
<1>1. w' = v /\ pos' = pos + 1 /\ phase' = phase /\ trace' = trace /\ pos \in Nat
  BY DEF Becomes, evmVars, WalkInv
<1>2. pos' - 1 = pos
  BY <1>1
<1>3. RootAlone(w'.programs)
  BY <1>1 DEF CanonAfter
<1>4. PICK a : a = pos
  OBVIOUS
<1>5. CanonAfter(v, a)
  BY <1>4
<1>6. CanonAfter(v, a)'
  BY <1>1, <1>5, CanonAfterKept
<1>7. CanonAfter(w, pos - 1)'
  <2>1. w' = v /\ (pos - 1)' = a
    BY <1>1, <1>2, <1>4
  <2> QED
    BY <1>6, <2>1
<1> QED
  BY <1>1, <1>3, <1>7 DEF CanonInv

\* What is known at the log the walk is at.
LEMMA AtCanon ==
  ASSUME TraceInv, HistoryInv, WalkInv, CanonInv, phase = "walk", pos <= Len(trace), ~Fails
  PROVE  LET frames == Settled.frames
             top == frames[Len(frames)]
             log == trace[pos]
         IN  /\ DOMAIN Settled = WalkFields /\ Settled.pending = {} /\ RootAlone(Settled.programs)
             /\ Settled.programs[1].target = Root
             /\ Frameful(frames) /\ Mirrors(frames, log.stack, log.world.st)
             /\ Canon(frames, log.stack, log.world, pos, NoOp)
             /\ Cur = top /\ top.ctx = Last(log.stack).ctx /\ top.program \in {{}, {1}}
             /\ Emits(top) => top.ctx = Root
             /\ (~Emits(top) => top.out = <<>>)
             /\ log.world \in World /\ pos \in Nat /\ log.slot \in Nat /\ log.value \in Nat
<1> DEFINE frames == Settled.frames
           n == Len(frames)
           top == frames[n]
           log == trace[pos]
           G == /\ DOMAIN Settled = WalkFields /\ Settled.pending = {} /\ RootAlone(Settled.programs)
                /\ Settled.programs[1].target = Root
                /\ Frameful(frames) /\ Mirrors(frames, log.stack, log.world.st)
                /\ Canon(frames, log.stack, log.world, pos, NoOp)
                /\ Cur = top /\ top.ctx = Last(log.stack).ctx /\ top.program \in {{}, {1}}
                /\ Emits(top) => top.ctx = Root
                /\ (~Emits(top) => top.out = <<>>)
                /\ log.world \in World /\ pos \in Nat /\ log.slot \in Nat /\ log.value \in Nat
<1> SUFFICES G
  OBVIOUS
<1>1. /\ DOMAIN Settled = WalkFields /\ Settled.pending = {}
      /\ Mirrors(frames, log.stack, log.world.st)
  BY SettledMirrors
<1>2. Frameful(frames) /\ n \in Nat /\ n >= 1 /\ n = Len(log.stack)
  BY <1>1, MirrorsFrameful DEF Frameful
<1>3. RootAlone(Settled.programs) /\ Canon(frames, log.stack, log.world, pos, NoOp)
  BY SettledTracked
<1>4. Settled.programs[1].target = Root
  BY <1>3, RootAloneOnly
<1> HIDE DEF frames, n
<1>5. Shape(frames, log.stack)
  BY <1>3 DEF Canon
<1>6. /\ frames[n].program \in {{}, {1}}
      /\ Emits(frames[n]) => frames[n].ctx = Root
      /\ ~Emits(frames[n]) => frames[n].out = <<>>
  BY <1>2, <1>5 DEF Shape, n
<1>7. frames[n].ctx = Last(log.stack).ctx
  BY <1>1, <1>2 DEF Mirrors, Last, n
<1>8. Cur = frames[n]
  BY DEF Cur, Last, frames, n
<1>9. log \in Log /\ pos \in Nat
  BY AtLog DEF WalkInv
<1>10. log.world \in World /\ log.slot \in Nat /\ log.value \in Nat
  BY <1>9 DEF Log
<1> HIDE DEF log
<1> QED
  BY <1>1, <1>2, <1>3, <1>4, <1>6, <1>7, <1>8, <1>9, <1>10

LEMMA SameWorldAfter ==
  ASSUME NEW a, trace[a].world \in World,
         trace[a].op \notin {"SSTORE", "LOG"} \/ trace[a].error
  PROVE  WorldAfter(a) = trace[a].world
BY WorldRecord DEF WorldAfter, After, EvAfter

\* A log that no program stands for.
LEMMA CanonQuiet ==
  ASSUME NEW v, v.pending = {}, RootAlone(v.programs), NEW a,
         Canon(v.frames, trace[a].stack, WorldAfter(a), a, NoOp)
  PROVE  CanonAfter(v, a)
BY DEF CanonAfter

LEMMA CanonNative ==
  ASSUME NEW frames, Frameful(frames), ~Emits(frames[Len(frames)]), NEW opened, NEW wd0,
         NEW a, a \in Nat, NEW o0, Canon(frames, opened, wd0, a, o0), o0.emits = "none", NEW wd, NEW o
  PROVE  Canon(frames, opened, wd, a, o)
<1>1. Len(frames) \in Nat /\ Len(frames) >= 1
  BY DEF Frameful, IsList
<1>2. frames[Len(frames)].out = <<>>
  BY <1>1 DEF Canon, Shape
<1>3. ChangesTop(frames, frames)
  BY <1>2 DEF ChangesTop, SameRole
<1>4. LeadsOn(frames, wd0, frames, wd, o)
  BY DEF LeadsOn
<1> QED
  BY <1>3, <1>4, CanonTop

\* A call is made: the frame it may open is pending.
LEMMA CanonAwaits ==
  ASSUME NEW v, DOMAIN v = WalkFields, RootAlone(v.programs), NEW a, NEW p,
         AwaitOK(p, Last(v.frames)), p.start = a,
         p.program = {} /\ p.emits = "none" /\ Emits(Last(v.frames)) => trace[a].op = "STATICCALL",
         Canon(v.frames, trace[a].stack, WorldAfter(a), a, p)
  PROVE  CanonAfter([v EXCEPT !.pending = {p}], a)
<1> DEFINE x == [v EXCEPT !.pending = {p}]
<1>1. x.frames = v.frames /\ x.programs = v.programs /\ x.pending = {p}
  BY DEF WalkFields
<1> HIDE DEF x
<1>2. CanonAfter(x, a)
  BY <1>1 DEF CanonAfter
<1> QED
  BY <1>2 DEF x

LEMMA PushTop ==
  ASSUME NEW v, DOMAIN v = WalkFields, Frameful(v.frames), NEW u
  PROVE  LET n == Len(v.frames)
             x == PushOut(v, u)
         IN  /\ DOMAIN x = WalkFields /\ x.programs = v.programs /\ x.pending = v.pending
             /\ IsList(x.frames) /\ Len(x.frames) = n /\ \A k \in 1 .. (n - 1) : x.frames[k] = v.frames[k]
             /\ DOMAIN x.frames[n] = FrameFields /\ x.frames[n].out = Append(v.frames[n].out, u)
             /\ \A d \in FrameFields \ {"out"} : x.frames[n][d] = v.frames[n][d]
<1> DEFINE n == Len(v.frames)
           x == PushOut(v, u)
           g == [v.frames[n] EXCEPT !.out = Append(@, u)]
           other == [v.frames EXCEPT ![n] = g]
<1>1. n \in Nat /\ n >= 1 /\ DOMAIN v.frames = 1 .. n /\ FrameOK(v.frames[n])
  BY ListSeq DEF Frameful
<1>2. /\ DOMAIN g = FrameFields /\ g.out = Append(v.frames[n].out, u)
      /\ \A d \in FrameFields \ {"out"} : g[d] = v.frames[n][d]
  BY <1>1 DEF FrameOK, FrameFields
<1>3. DOMAIN x = WalkFields /\ x.frames = other /\ x.programs = v.programs /\ x.pending = v.pending
  BY <1>1 DEF PushOut, WalkFields
<1> HIDE DEF g, x
<1>4. /\ IsList(other) /\ Len(other) = n
      /\ \A k \in 1 .. (n - 1) : other[k] = v.frames[k]
      /\ other[n] = g
  BY TopReplaced
<1> HIDE DEF other, n
<1> QED
  BY <1>2, <1>3, <1>4 DEF x, n

\* An SSTORE of an emitting frame changes the world as its journal; no update
\* stands for it before the next slice.
LEMMA CanonStore ==
  ASSUME TraceInv, HistoryInv, WalkInv, CanonInv, WalkStore
  PROVE  CanonInv'
<1> DEFINE log == trace[pos]
           frames == Settled.frames
           n == Len(frames)
           a == Cur.ctx
           new == [s \in {log.slot} |-> log.value]
           journal == [frames[n].journal EXCEPT ![a] = Extend(@, new)]
           g == [frames[n] EXCEPT !.journal = journal]
           v == [Settled EXCEPT !.frames[n].journal[a] = Extend(@, new)]
           other == v.frames
           wd == WorldAfter(pos)
<1>1. /\ phase = "walk" /\ pos <= Len(trace) /\ log.op = "SSTORE" /\ ~log.error /\ ~Fails
      /\ Cur.ctx # NoAddress /\ Becomes(v)
  BY DEF WalkStore, Executed, At
<1>2. /\ DOMAIN Settled = WalkFields /\ Settled.pending = {} /\ RootAlone(Settled.programs)
      /\ Frameful(frames) /\ Canon(frames, log.stack, log.world, pos, NoOp)
      /\ Cur = frames[n] /\ frames[n].ctx = Last(log.stack).ctx
      /\ log.world \in World /\ pos \in Nat /\ log.slot \in Nat /\ log.value \in Nat
  BY <1>1, AtCanon
<1>3. (Emits(frames[n]) => a = Root) /\ (~Emits(frames[n]) => frames[n].out = <<>>)
  BY <1>1, AtCanon
<1>4. n \in Nat /\ n >= 1 /\ DOMAIN frames = 1 .. n /\ FrameOK(frames[n])
  BY <1>2, ListSeq DEF Frameful
<1>5. wd = [st |-> [log.world.st EXCEPT ![a][log.slot] = log.value], ev |-> log.world.ev]
  BY <1>1, <1>2 DEF WorldAfter, After, EvAfter
<1> HIDE DEF new, a, wd
<1>6. DOMAIN v = WalkFields /\ v.pending = {} /\ v.programs = Settled.programs
  BY <1>2 DEF WalkFields
<1>7. other = [frames EXCEPT ![n] = g]
  BY <1>2, <1>4 DEF WalkFields
<1>8. \A c \in Contract : journal[c] = IF c = a THEN Extend(frames[n].journal[c], new) ELSE frames[n].journal[c]
  BY <1>4 DEF FrameOK
<1> HIDE DEF journal, v, other
<1>9. g.journal = journal /\ \A d \in FrameFields \ {"journal"} : g[d] = frames[n][d]
  BY <1>4 DEF FrameOK, FrameFields
<1> HIDE DEF g
<1>10. Len(other) = n /\ other[n] = g /\ \A k \in 1 .. (n - 1) : other[k] = frames[k]
  <2> DEFINE top == [frames EXCEPT ![n] = g]
  <2>1. /\ IsList(top) /\ Len(top) = n /\ top[n] = g
        /\ \A k \in 1 .. (n - 1) : top[k] = frames[k]
    BY <1>2, TopReplaced
  <2> HIDE DEF top
  <2> QED
    BY <1>7, <2>1 DEF top
<1>11. /\ g.program = frames[n].program /\ g.nested = frames[n].nested /\ g.emits = frames[n].emits
       /\ g.ctx = frames[n].ctx /\ g.start = frames[n].start /\ g.first_program = frames[n].first_program
       /\ g.out = frames[n].out /\ g.view = frames[n].view
  BY <1>9 DEF FrameFields
<1> HIDE DEF frames, n
<1>12. ChangesTop(frames, other)
  BY <1>2, <1>3, <1>10, <1>11 DEF ChangesTop, SameRole, Emits, n
<1>13. LeadsOn(frames, log.world, other, wd, NoOp)
  <2>1. SUFFICES ASSUME Emits(frames[n]), NEW from, NEW c, Runs(frames[n].out, from, c),
                        Clean(frames, n, c, log.world)
                 PROVE  Runs(other[n].out, from, c) /\ Clean(other, n, c, wd)
    BY DEF LeadsOn, NoOp, n
  <2>2. a = Root
    BY <1>3, <2>1
  <2>3. wd \in World
    <3> DEFINE inner == [log.world.st[Root] EXCEPT ![log.slot] = log.value]
    <3>1. log.world.st \in [Contract -> [Slot -> Nat]] /\ log.world.ev \in Seq(Ctx \X Nat) /\ Root \in Contract
      BY <1>2, EvmAssumption DEF World, Storage
    <3>2. inner \in [Slot -> Nat]
      BY <1>2, <3>1
    <3> HIDE DEF inner
    <3>3. [log.world.st EXCEPT ![Root] = inner] \in [Contract -> [Slot -> Nat]]
      BY <3>1, <3>2
    <3> QED
      BY <1>5, <2>2, <3>1, <3>3 DEF World, Storage, inner
  <2>4. c.ev = wd.ev /\ c \in World
    BY <1>5, <2>1 DEF Clean
  <2>5. \A k \in Contract \ {Root} : c.st[k] = wd.st[k]
    <3>1. DOMAIN log.world.st = Contract
      BY <1>2 DEF World, Storage
    <3> QED
      BY <1>5, <2>1, <2>2, <3>1 DEF Clean
  <2>6. ASSUME NEW s \in Slot, Untouched(other, n, s) PROVE Untouched(frames, n, s)
    <3>1. ASSUME NEW j \in 1 .. n PROVE s \notin DOMAIN frames[j].journal[Root]
      <4>1. s \notin DOMAIN other[j].journal[Root]
        BY <2>6 DEF Untouched
      <4>2. CASE j = n
        BY <1>8, <1>9, <1>10, <2>2, <4>1, <4>2, EvmAssumption DEF Extend
      <4>3. CASE j # n
        <5>1. j \in 1 .. (n - 1)
          BY <1>4, <4>3
        <5> QED
          BY <1>10, <4>1, <5>1
      <4> QED
        BY <4>2, <4>3
    <3> QED
      BY <3>1 DEF Untouched
  <2>7. Clean(other, n, c, wd)
    BY <1>10, <1>11, <2>1, <2>3, <2>4, <2>5, <2>6 DEF Clean
  <2> QED
    BY <1>10, <1>11, <2>1, <2>7
<1>14. Canon(other, log.stack, wd, pos, NoOp)
  <2> DEFINE wd0 == log.world
             opened == log.stack
  <2>1. Canon(frames, opened, wd0, pos, NoOp) /\ LeadsOn(frames, wd0, other, wd, NoOp) /\ NoOp.emits = "none"
    BY <1>2, <1>13 DEF NoOp
  <2> HIDE DEF wd0, opened
  <2>2. Canon(other, opened, wd, pos, NoOp)
    BY <1>2, <1>12, <2>1, CanonTop
  <2> QED
    BY <2>2 DEF opened
<1>15. CanonAfter(v, pos)
  BY <1>2, <1>6, <1>14, CanonQuiet DEF other, wd
<1> QED
  BY <1>1, <1>15, BecomesCanon DEF v

\* A LOG of an emitting frame is an update of its own.
LEMMA CanonLog ==
  ASSUME TraceInv, HistoryInv, WalkInv, CanonInv, WalkLog
  PROVE  CanonInv'
<1> DEFINE log == trace[pos]
           frames == Settled.frames
           n == Len(frames)
           u == UpdateAt("LOG", pos)
           v == PushOut(Settled, u)
           other == v.frames
           wd == WorldAfter(pos)
<1>1. /\ phase = "walk" /\ pos <= Len(trace) /\ log.op = "LOG" /\ ~log.error /\ ~Fails
      /\ Emitting /\ Becomes(v)
  BY DEF WalkLog, Executed, At
<1>2. /\ DOMAIN Settled = WalkFields /\ Settled.pending = {} /\ RootAlone(Settled.programs)
      /\ Frameful(frames) /\ Canon(frames, log.stack, log.world, pos, NoOp)
      /\ Cur = frames[n] /\ frames[n].ctx = Last(log.stack).ctx
      /\ log.world \in World /\ pos \in Nat
  BY <1>1, AtCanon
<1>3. Emits(frames[n]) /\ Last(log.stack).ctx = Root
  <2>1. Emits(frames[n])
    BY <1>1, <1>2 DEF Emitting, Emits
  <2>2. Emits(frames[n]) => frames[n].ctx = Root
    BY <1>1, AtCanon
  <2> QED
    BY <1>2, <2>1, <2>2
<1>4. n \in Nat /\ n >= 1
  BY <1>2, ListSeq DEF Frameful
<1>5. wd = [st |-> log.world.st, ev |-> Append(log.world.ev, <<Root, pos>>)]
  BY <1>1, <1>3 DEF WorldAfter, After, EvAfter
<1>6. /\ v.programs = Settled.programs /\ v.pending = {}
      /\ Len(other) = n /\ \A k \in 1 .. (n - 1) : other[k] = frames[k]
      /\ other[n].out = Append(frames[n].out, u)
      /\ \A d \in FrameFields \ {"out"} : other[n][d] = frames[n][d]
  <2> HIDE DEF u
  <2> QED
    BY <1>2, PushTop
<1>7. u.op = "LOG" /\ u.at = pos
  BY DEF UpdateAt
<1> HIDE DEF frames, n, v, other, u, wd
<1>8. /\ other[n].program = frames[n].program /\ other[n].nested = frames[n].nested
      /\ other[n].emits = frames[n].emits /\ other[n].ctx = frames[n].ctx
      /\ other[n].start = frames[n].start /\ other[n].first_program = frames[n].first_program
      /\ other[n].view = frames[n].view /\ other[n].journal = frames[n].journal
  BY <1>6 DEF FrameFields
<1>9. ChangesTop(frames, other)
  BY <1>2, <1>3, <1>6, <1>8 DEF ChangesTop, SameRole, Emits, n
<1>10. LeadsOn(frames, log.world, other, wd, NoOp)
  <2>1. SUFFICES ASSUME NEW from, NEW c, Runs(frames[n].out, from, c),
                        Clean(frames, n, c, log.world)
                 PROVE  \E d : Runs(other[n].out, from, d) /\ Clean(other, n, d, wd)
    BY DEF LeadsOn, NoOp, n
  <2> DEFINE d == [c EXCEPT !.ev = Append(@, <<Root, pos>>)]
  <2>2. /\ c \in World /\ c.ev = log.world.ev /\ \A k \in Contract \ {Root} : c.st[k] = log.world.st[k]
        /\ c.st \in Storage /\ c.ev \in Seq(Ctx \X Nat) /\ DOMAIN c = {"st", "ev"}
    BY <2>1 DEF Clean, World
  <2>3. d.st = c.st /\ d.ev = Append(log.world.ev, <<Root, pos>>) /\ d = [st |-> d.st, ev |-> d.ev]
    <3> DEFINE e == Append(c.ev, <<Root, pos>>)
               x == [c EXCEPT !.ev = e]
    <3>1. e = Append(log.world.ev, <<Root, pos>>)
      BY <2>2
    <3> HIDE DEF e
    <3>2. c = [st |-> c.st, ev |-> c.ev]
      BY <2>2, WorldRecord
    <3>3. x = [st |-> c.st, ev |-> e]
      BY <3>2
    <3>4. x.st = c.st /\ x.ev = e /\ x = [st |-> x.st, ev |-> x.ev]
      BY <3>3
    <3> HIDE DEF x
    <3>5. x = d
      BY DEF e, x
    <3> QED
      BY <3>1, <3>4, <3>5
  <2>4. Append(log.world.ev, <<Root, pos>>) \in Seq(Ctx \X Nat)
    <3>1. <<Root, pos>> \in Ctx \X Nat
      BY <1>2, EvmAssumption DEF Ctx
    <3> QED
      BY <2>2, <3>1
  <2>5. Effect(u, c, d)
    BY <1>7 DEF Effect
  <2> HIDE DEF d
  <2>6. d \in World
    BY <2>2, <2>3, <2>4 DEF World
  <2>7. wd \in World /\ wd.ev = d.ev /\ wd.st = log.world.st
    BY <1>2, <1>5, <2>3, <2>4 DEF World
  <2>8. ASSUME NEW s, Untouched(other, n, s) PROVE Untouched(frames, n, s)
    <3>1. ASSUME NEW j \in 1 .. n PROVE other[j].journal = frames[j].journal
      <4>1. j = n \/ j \in 1 .. (n - 1)
        BY <1>4
      <4> QED
        BY <1>6, <1>8, <4>1
    <3> QED
      BY <2>8, <3>1 DEF Untouched
  <2>9. Clean(other, n, d, wd)
    BY <1>8, <2>1, <2>2, <2>3, <2>6, <2>7, <2>8 DEF Clean
  <2>10. Runs(other[n].out, from, d)
    BY <1>6, <2>1, <2>5, RunsAppend
  <2> QED
    BY <2>9, <2>10
<1>11. Canon(other, log.stack, wd, pos, NoOp)
  <2> DEFINE wd0 == log.world
             opened == log.stack
  <2>1. Canon(frames, opened, wd0, pos, NoOp) /\ LeadsOn(frames, wd0, other, wd, NoOp) /\ NoOp.emits = "none"
    BY <1>2, <1>10 DEF NoOp
  <2> HIDE DEF wd0, opened
  <2>2. Canon(other, opened, wd, pos, NoOp)
    BY <1>2, <1>9, <2>1, CanonTop
  <2> QED
    BY <2>2 DEF opened
<1>12. CanonAfter(v, pos)
  BY <1>2, <1>6, <1>11, CanonQuiet DEF other, wd
<1> QED
  BY <1>1, <1>12, BecomesCanon DEF v

\* p stands for a call an emitting frame makes: a slice and an update.
Outgoing(p) == p.emits \in {"CALL", "CREATE"} /\ p.start = pos /\ p.program = {} /\ p.nested = FALSE

LEMMA CanonCalls ==
  ASSUME TraceInv, HistoryInv, WalkInv, CanonInv, phase = "walk", pos <= Len(trace), ~Fails,
         Emitting, trace[pos].op \in Calls, NEW p, Outgoing(p),
         Becomes([PushOut(flush_slice(Settled), UpdateAt(p.emits, pos)) EXCEPT !.pending = {p}])
  PROVE  CanonInv'
<1> DEFINE log == trace[pos]
           frames == Settled.frames
           n == Len(frames)
           u == UpdateAt(p.emits, pos)
           x == flush_slice(Settled)
           v == PushOut(x, u)
           other == v.frames
           wd == log.world
           opened == log.stack
<1>1. /\ DOMAIN Settled = WalkFields /\ RootAlone(Settled.programs)
      /\ Frameful(frames) /\ Canon(frames, opened, wd, pos, NoOp)
      /\ Mirrors(frames, opened, wd.st)
      /\ Cur = frames[n] /\ wd \in World /\ pos \in Nat
      /\ Settled.programs[1].target = Root /\ frames[n].program \in {{}, {1}}
  BY AtCanon
<1>2. /\ n \in Nat /\ n >= 1 /\ FrameOK(frames[n]) /\ Last(frames) = frames[n]
      /\ IsList(frames) /\ \A k \in 1 .. n : FrameOK(frames[k])
  BY <1>1, ListSeq DEF Frameful, Last
<1>3. Emits(frames[n]) /\ frames[n].program = {1}
  BY <1>1 DEF Emitting, Emits
<1>4. Settled.programs[ProgramOf(Last(frames))].target = Root
  <2>1. ProgramOf(frames[n]) = 1
    BY <1>3 DEF ProgramOf
  <2> QED
    BY <1>1, <1>2, <2>1
<1>5. WorldAfter(pos) = wd
  BY <1>1, SameWorldAfter DEF Calls
<1> HIDE DEF wd, opened, u
<1>6. ASSUME NEW from, NEW c, Runs(frames[n].out, from, c), Clean(frames, n, c, wd)
      PROVE  /\ DOMAIN x = WalkFields /\ x.programs = Settled.programs
             /\ IsList(x.frames) /\ Len(x.frames) = n /\ \A k \in 1 .. (n - 1) : x.frames[k] = frames[k]
             /\ DOMAIN x.frames[n] = FrameFields
             /\ \A d \in FrameFields \ {"out", "view"} : x.frames[n][d] = frames[n][d]
             /\ Runs(x.frames[n].out, from, wd) /\ Away(x.frames, n, wd)
  <2>1. Runs(Last(frames).out, from, c) /\ Clean(frames, Len(frames), c, wd)
    BY <1>2, <1>6
  <2> HIDE DEF n, x
  <2>2. LET m == Len(Settled.frames)
            g == flush_slice(Settled).frames[m]
        IN  /\ DOMAIN flush_slice(Settled) = WalkFields /\ flush_slice(Settled).programs = Settled.programs
            /\ IsList(flush_slice(Settled).frames) /\ Len(flush_slice(Settled).frames) = m
            /\ \A k \in 1 .. (m - 1) : flush_slice(Settled).frames[k] = Settled.frames[k]
            /\ DOMAIN g = FrameFields
            /\ \A d \in FrameFields \ {"out", "view"} : g[d] = Settled.frames[m][d]
            /\ Runs(g.out, from, wd) /\ Away(flush_slice(Settled).frames, m, wd)
    BY <1>1, <1>4, <2>1, FlushTop
  <2> QED
    BY <2>2 DEF n, x
<1>7. \E from, c : Runs(frames[n].out, from, c) /\ Clean(frames, n, c, wd)
  <2>1. PICK C : Tracked(C, frames, opened, wd, NoOp)
    BY <1>1 DEF Canon
  <2>2. Level(C, frames, n, wd, NoOp)
    BY <1>2, <1>3, <2>1 DEF Tracked, Seen, OpenOp
  <2> QED
    BY <2>2 DEF Level, NoOp
<1> HIDE DEF n, x, frames
<1>8. /\ DOMAIN x = WalkFields /\ x.programs = Settled.programs
      /\ IsList(x.frames) /\ Len(x.frames) = n /\ \A k \in 1 .. (n - 1) : x.frames[k] = frames[k]
      /\ DOMAIN x.frames[n] = FrameFields
      /\ \A d \in FrameFields \ {"out", "view"} : x.frames[n][d] = frames[n][d]
  BY <1>6, <1>7
<1>9. Frameful(x.frames)
  <2>1. x.frames[n].journal = frames[n].journal
    BY <1>8 DEF FrameFields
  <2>2. FrameOK(x.frames[n])
    BY <1>2, <1>8, <2>1 DEF FrameOK
  <2>3. ASSUME NEW k \in 1 .. n PROVE FrameOK(x.frames[k])
    <3>1. k = n \/ k \in 1 .. (n - 1)
      BY <1>2
    <3> QED
      BY <1>2, <1>8, <2>2, <3>1
  <2> QED
    BY <1>2, <1>8, <2>3 DEF Frameful
<1>10. /\ DOMAIN v = WalkFields /\ v.programs = Settled.programs
       /\ Len(other) = n /\ \A k \in 1 .. (n - 1) : other[k] = x.frames[k]
       /\ other[n].out = Append(x.frames[n].out, u)
       /\ \A d \in FrameFields \ {"out"} : other[n][d] = x.frames[n][d]
  <2>1. LET m == Len(x.frames)
            y == PushOut(x, u)
        IN  /\ DOMAIN y = WalkFields /\ y.programs = x.programs
            /\ Len(y.frames) = m /\ \A k \in 1 .. (m - 1) : y.frames[k] = x.frames[k]
            /\ y.frames[m].out = Append(x.frames[m].out, u)
            /\ \A d \in FrameFields \ {"out"} : y.frames[m][d] = x.frames[m][d]
    <3>1. DOMAIN x = WalkFields /\ Frameful(x.frames)
      BY <1>8, <1>9
    <3> HIDE DEF v, other
    <3> QED
      BY <3>1, PushTop
  <2> HIDE DEF v
  <2>2. PushOut(x, u) = v /\ Len(x.frames) = n /\ x.programs = Settled.programs
    BY <1>8 DEF v
  <2> QED
    BY <2>1, <2>2
<1> HIDE DEF v, other
<1>11. /\ other[n].program = frames[n].program /\ other[n].nested = frames[n].nested
       /\ other[n].emits = frames[n].emits /\ other[n].ctx = frames[n].ctx
       /\ other[n].start = frames[n].start /\ other[n].first_program = frames[n].first_program
       /\ other[n].view = x.frames[n].view /\ other[n].journal = x.frames[n].journal
  BY <1>8, <1>10 DEF FrameFields
<1>12. ChangesTop(frames, other)
  BY <1>1, <1>3, <1>8, <1>10, <1>11 DEF ChangesTop, SameRole, Emits, n
<1>13. LeadsOn(frames, wd, other, wd, p)
  <2>1. SUFFICES ASSUME NEW from, NEW c, Runs(frames[n].out, from, c), Clean(frames, n, c, wd)
                 PROVE  Called(other[n].out, from, p) /\ Away(other, n, wd)
    BY DEF LeadsOn, Outgoing, n
  <2>2. Runs(x.frames[n].out, from, wd) /\ Away(x.frames, n, wd)
    BY <1>6, <2>1
  <2>3. Called(other[n].out, from, p)
    BY <1>10, <2>2 DEF Called, Outgoing, u, wd
  <2>4. ASSUME NEW s, Untouched(other, n, s) PROVE Untouched(x.frames, n, s)
    <3>1. ASSUME NEW j \in 1 .. n PROVE other[j].journal = x.frames[j].journal
      <4>1. j = n \/ j \in 1 .. (n - 1)
        BY <1>2
      <4> QED
        BY <1>10, <1>11, <4>1
    <3> QED
      BY <2>4, <3>1 DEF Untouched
  <2>5. Away(other, n, wd)
    BY <1>11, <2>2, <2>4 DEF Away
  <2> QED
    BY <2>3, <2>5
<1>14. Canon(other, opened, wd, pos, p)
  <2>1. NoOp.emits = "none"
    BY DEF NoOp
  <2> QED
    BY <1>1, <1>12, <1>13, <2>1, CanonTop
<1>15. AwaitOK(p, Last(other)) /\ p.start = pos /\ p.emits # "none"
  <2>1. Last(other) = other[n]
    BY <1>10 DEF Last
  <2> QED
    BY <1>3, <1>11, <2>1 DEF Outgoing, AwaitOK, Emits
<1>16. CanonAfter([v EXCEPT !.pending = {p}], pos)
  <2>1. Canon(v.frames, trace[pos].stack, WorldAfter(pos), pos, p) /\ AwaitOK(p, Last(v.frames))
    BY <1>5, <1>14, <1>15 DEF other, opened
  <2>2. RootAlone(v.programs)
    BY <1>1, <1>10
  <2> QED
    BY <1>10, <1>15, <2>1, <2>2, CanonAwaits
<1> QED
  BY <1>16, BecomesCanon DEF v, x, u

\* p stands for a call without an update of its own.
Passing(p) ==
  /\ p.emits = "none" /\ p.start = pos /\ AwaitOK(p, Cur)
  /\ p.program = {} /\ Emits(Cur) => trace[pos].op = "STATICCALL"

LEMMA CanonPasses ==
  ASSUME TraceInv, HistoryInv, WalkInv, CanonInv, phase = "walk", pos <= Len(trace), ~Fails,
         trace[pos].op \in Calls, NEW p, Passing(p), Becomes([Settled EXCEPT !.pending = {p}])
  PROVE  CanonInv'
<1> DEFINE frames == Settled.frames
           wd == trace[pos].world
           opened == trace[pos].stack
<1>1. /\ DOMAIN Settled = WalkFields /\ RootAlone(Settled.programs)
      /\ Frameful(frames) /\ Canon(frames, opened, wd, pos, NoOp)
      /\ Cur = Last(frames) /\ wd \in World /\ pos \in Nat
  BY AtCanon DEF Cur
<1>2. WorldAfter(pos) = wd
  BY <1>1, SameWorldAfter DEF Calls
<1>3. AllTrim(frames, frames)
  BY <1>1, TrimsSame DEF AllTrim, Frameful
<1>4. Soon(pos, pos, Len(frames)) /\ NoOp.emits = "none" /\ p.emits = "none"
  BY <1>1 DEF Soon, NoOp, Passing
<1> HIDE DEF frames, wd, opened
<1>5. Canon(frames, opened, wd, pos, p)
  BY <1>1, <1>3, <1>4, CanonSame
<1>6. CanonAfter([Settled EXCEPT !.pending = {p}], pos)
  <2>1. Canon(Settled.frames, trace[pos].stack, WorldAfter(pos), pos, p) /\ AwaitOK(p, Last(Settled.frames))
    BY <1>1, <1>2, <1>5 DEF Passing, frames, opened
  <2>2. p.program = {} /\ p.emits = "none" /\ Emits(Last(Settled.frames)) => trace[pos].op = "STATICCALL"
    BY <1>1 DEF Passing, frames
  <2> QED
    BY <1>1, <2>1, <2>2, CanonAwaits DEF Passing
<1> QED
  BY <1>6, BecomesCanon

LEMMA CanonStays ==
  ASSUME TraceInv, HistoryInv, WalkInv, CanonInv, phase = "walk", pos <= Len(trace), ~Fails,
         WorldAfter(pos) = trace[pos].world \/ ~Emitting, Becomes(Settled)
  PROVE  CanonInv'
<1> DEFINE frames == Settled.frames
           wd == trace[pos].world
           opened == trace[pos].stack
<1>1. /\ Settled.pending = {} /\ RootAlone(Settled.programs)
      /\ Frameful(frames) /\ Canon(frames, opened, wd, pos, NoOp)
      /\ Cur = frames[Len(frames)] /\ pos \in Nat
  BY AtCanon
<1> HIDE DEF frames, wd, opened
<1>2. Canon(frames, opened, WorldAfter(pos), pos, NoOp)
  <2>1. CASE WorldAfter(pos) = trace[pos].world
    BY <1>1, <2>1 DEF wd
  <2>2. CASE ~Emitting
    <3>1. ~Emits(frames[Len(frames)]) /\ NoOp.emits = "none"
      BY <1>1, <2>2 DEF Emitting, Emits, NoOp
    <3> QED
      BY <1>1, <3>1, CanonNative
  <2> QED
    BY <2>1, <2>2
<1>3. CanonAfter(Settled, pos)
  BY <1>1, <1>2, CanonQuiet DEF frames, opened
<1> QED
  BY <1>3, BecomesCanon

LEMMA CanonActions ==
  ASSUME Nestable = {}, TraceInv, HistoryInv, WalkInv, CanonInv, Walk
  PROVE  CanonInv'
<1> DEFINE log == trace[pos]
<1>0. ASSUME phase = "walk", pos <= Len(trace), ~Fails
      PROVE  /\ log.world \in World /\ Cur.ctx = Last(log.stack).ctx /\ Cur.program \in {{}, {1}}
             /\ Emits(Cur) => Cur.ctx = Root
             /\ Emitting <=> Emits(Cur)
  BY <1>0, AtCanon DEF Emitting, Emits
<1>1. CASE WalkErrored
  <2>1. phase = "walk" /\ pos <= Len(trace) /\ log.error /\ ~Fails /\ Becomes(Settled)
    BY <1>1 DEF WalkErrored, At
  <2>2. WorldAfter(pos) = log.world
    BY <1>0, <2>1, SameWorldAfter
  <2> QED
    BY <2>1, <2>2, CanonStays
<1>2. CASE WalkNothing
  <2>1. /\ phase = "walk" /\ pos <= Len(trace) /\ ~Fails /\ Becomes(Settled)
        /\ \/ log.op \in {"STOP", "REVERT"}
           \/ ~Emitting
           \/ log.op = "SSTORE" /\ Cur.ctx = NoAddress
    BY <1>2 DEF WalkNothing, Executed, At
  <2>2. WorldAfter(pos) = log.world \/ ~Emitting
    <3>1. CASE log.op \in {"STOP", "REVERT"}
      BY <1>0, <2>1, <3>1, SameWorldAfter
    <3>2. CASE log.op = "SSTORE" /\ Cur.ctx = NoAddress
      <4>1. After(log) = log.world.st /\ EvAfter(pos, log) = log.world.ev
        BY <1>0, <2>1, <3>2 DEF After, EvAfter
      <4> QED
        BY <1>0, <2>1, <4>1, WorldRecord DEF WorldAfter
    <3> QED
      BY <2>1, <3>1, <3>2
  <2> QED
    BY <2>1, <2>2, CanonStays
<1>3. CASE WalkStore
  BY <1>3, CanonStore
<1>4. CASE WalkUnsupported
  <2>1. phase = "walk" /\ pos <= Len(trace) /\ log.op = "TSTORE" /\ ~Fails /\ Becomes(Settled)
    BY <1>4 DEF WalkUnsupported, At
  <2>2. WorldAfter(pos) = log.world
    BY <1>0, <2>1, SameWorldAfter
  <2> QED
    BY <2>1, <2>2, CanonStays
<1>5. CASE WalkLog
  BY <1>5, CanonLog
<1>6. CASE WalkDelegate
  <2> DEFINE p == Pending(log.depth, Cur.ctx, Cur.program, IF Emitting THEN Cur.view ELSE NoSlots,
                          "none", FALSE, pos)
  <2>1. /\ phase = "walk" /\ pos <= Len(trace) /\ log.op \in Calls /\ ~Fails
        /\ Becomes([Settled EXCEPT !.pending = {p}])
    BY <1>6 DEF WalkDelegate, Executed, At, Await, Calls
  <2>2. /\ p.emits = "none" /\ p.start = pos /\ p.nested = FALSE /\ p.program = Cur.program
        /\ p.ctx = Cur.ctx /\ (Emitting => p.view = Cur.view)
    BY DEF Pending
  <2> HIDE DEF p
  <2>3. Passing(p)
    BY <1>0, <2>1, <2>2 DEF Passing, AwaitOK, Emits, Emitting
  <2> QED
    BY <2>1, <2>3, CanonPasses
<1>7. CASE WalkStatic \/ WalkNative
  <2> DEFINE p == Pending(log.depth, log.to, {}, NoSlots, "none", FALSE, pos)
  <2>1. /\ phase = "walk" /\ pos <= Len(trace) /\ log.op \in Calls /\ ~Fails
        /\ Becomes([Settled EXCEPT !.pending = {p}])
        /\ log.op = "STATICCALL" \/ ~Emitting
    BY <1>7 DEF WalkStatic, WalkNative, Executed, At, Calls, Await
  <2>2. p.emits = "none" /\ p.start = pos /\ p.nested = FALSE /\ p.program = {}
    BY DEF Pending
  <2> HIDE DEF p
  <2>3. Passing(p)
    BY <1>0, <2>1, <2>2 DEF Passing, AwaitOK
  <2> QED
    BY <2>1, <2>3, CanonPasses
<1>8. CASE WalkCreate
  <2> DEFINE p == Pending(log.depth, NoAddress, {}, NoSlots, "CREATE", FALSE, pos)
  <2>1. /\ phase = "walk" /\ pos <= Len(trace) /\ log.op \in Calls /\ ~Fails /\ Emitting
        /\ Becomes([PushOut(flush_slice(Settled), UpdateAt("CREATE", pos)) EXCEPT !.pending = {p}])
    BY <1>8 DEF WalkCreate, Executed, At, Await, Calls
  <2>2. Outgoing(p) /\ p.emits = "CREATE"
    BY DEF Pending, Outgoing
  <2> HIDE DEF p
  <2> QED
    BY <2>1, <2>2, CanonCalls
<1>9. CASE WalkCall
  <2> DEFINE p == Pending(log.depth, log.to, {}, NoSlots, "CALL", FALSE, pos)
  <2>1. /\ phase = "walk" /\ pos <= Len(trace) /\ log.op \in Calls /\ ~Fails /\ Emitting
        /\ Becomes([PushOut(flush_slice(Settled), UpdateAt("CALL", pos)) EXCEPT !.pending = {p}])
    BY <1>9 DEF WalkCall, Executed, At, Await, Calls
  <2>2. Outgoing(p) /\ p.emits = "CALL"
    BY DEF Pending, Outgoing
  <2> HIDE DEF p
  <2> QED
    BY <2>1, <2>2, CanonCalls
<1>10. CASE WalkNested
  BY <1>10 DEF WalkNested, Eligible
<1>11. CASE WalkFails
  BY <1>11 DEF WalkFails, CanonInv
<1> QED
  BY <1>1, <1>2, <1>3, <1>4, <1>5, <1>6, <1>7, <1>8, <1>9, <1>10, <1>11 DEF Walk

LEMMA CanonStarts == Init => CanonInv
<1> DEFINE p == NewProgram(Root, NoIndex, 0, 0)
<1>1. IsRoot(p)
  BY DEF NewProgram, IsRoot, ProgramFields
<1>2. Init => w.programs = <<p>> /\ phase = "trace"
  BY DEF Init, WalkStart
<1> HIDE DEF p
<1> QED
  BY <1>1, <1>2 DEF CanonInv, RootAlone

LEMMA CanonStep ==
  ASSUME Nestable = {}
  PROVE  TraceInv /\ HistoryInv /\ WalkInv /\ CanonInv /\ [Next]_vars => CanonInv'
<1> SUFFICES ASSUME TraceInv, HistoryInv, WalkInv, CanonInv, [Next]_vars PROVE CanonInv'
  OBVIOUS
<1>1. CASE Execute /\ UNCHANGED walkVars
  <2>1. phase = "trace"
    BY <1>1 DEF Execute, Sstore, Increment, Emit, Tstore, OpenFrame, Open, Inline, Revert, Halt,
       Return, Finish, Executes, WalkInv
  <2> QED
    BY <1>1, <2>1 DEF CanonInv, walkVars
<1>2. CASE Scan
  <2> DEFINE x == scan'.root_index
             v == [w EXCEPT !.programs[1].index = x]
  <2>1. phase = "trace" /\ phase' = "walk" /\ pos' = pos /\ w' = v /\ pos = 1
    BY <1>2 DEF Scan, WalkInv
  <2>2. DOMAIN w = WalkFields /\ RootAlone(w.programs)
    BY <2>1 DEF WalkInv, WalkFields, CanonInv
  <2>3. PICK p : w.programs = <<p>> /\ IsRoot(p)
    BY <2>2 DEF RootAlone
  <2> DEFINE q == [p EXCEPT !.index = x]
  <2> HIDE DEF x
  <2>4. v.programs = [w.programs EXCEPT ![1].index = x]
    BY <2>2 DEF WalkFields
  <2>5. IsRoot(q)
    BY <2>3 DEF IsRoot, ProgramFields
  <2>6. [<<p>> EXCEPT ![1].index = x] = <<q>>
    OBVIOUS
  <2> HIDE DEF q
  <2>7. v.programs = <<q>>
    BY <2>3, <2>4, <2>6
  <2>8. RootAlone(w'.programs)
    BY <2>1, <2>5, <2>7 DEF RootAlone
  <2> QED
    BY <2>1, <2>8 DEF CanonInv
<1>3. CASE Walk
  BY <1>3, CanonActions
<1>4. CASE Split
  BY <1>4 DEF Split, CanonInv
<1>5. CASE UNCHANGED <<evmVars, walkVars>>
  <2>1. phase' = phase /\ w' = w /\ pos' = pos /\ trace' = trace
    BY <1>5 DEF evmVars, walkVars
  <2>2. ASSUME phase = "walk", pos > 1 PROVE CanonAfter(w, pos - 1)'
    <3>1. PICK v, a : v = w /\ a = pos - 1
      OBVIOUS
    <3>2. CanonAfter(v, a)
      BY <2>2, <3>1 DEF CanonInv
    <3>3. CanonAfter(v, a)'
      BY <2>1, <3>2, CanonAfterKept
    <3>4. w' = v /\ (pos - 1)' = a
      BY <2>1, <3>1
    <3> QED
      BY <3>3, <3>4
  <2> QED
    BY <2>1, <2>2 DEF CanonInv
<1> QED
  BY <1>1, <1>2, <1>3, <1>4, <1>5 DEF Next, vars, Apply, Done

-----------------------------------------------------------------------------
(* After the last log: with one program there is nothing to drop or to prune. *)

LEMMA OneOfOne ==
  /\ \A s \in SUBSET (1 .. 1) : s = {} \/ s = 1 .. 1
  /\ Max(1 .. 1) = 1 /\ (1 .. 1) \ {1} = {} /\ 1 .. 1 # {}
<1>1. 1 .. 1 = {1}
  OBVIOUS
<1>2. \A s \in SUBSET {1} : s = {} \/ s = {1}
  OBVIOUS
<1>3. Max(1 .. 1) = 1
  <2>1. 1 .. 1 \in SUBSET (1 .. 1) /\ 1 \in 1 .. 1
    OBVIOUS
  <2> QED
    BY <2>1, MaxTop
<1> QED
  BY <1>1, <1>2, <1>3

LEMMA NothingDropped ==
  ASSUME NEW p
  PROVE  drop_descendants_of_dropped(<<p>>) = <<p>>
<1> DEFINE programs == <<p>>
           seq == Ids(programs)
           S == 1 .. 1
           V(ps, id) == IF id > 1 /\ ps[ps[id].parent].dropped THEN [ps EXCEPT ![id].dropped = TRUE] ELSE ps
           IsFold(g) == g = [s \in SUBSET DOMAIN seq |->
             IF s = {} THEN programs ELSE V(g[s \ {Max(s)}], seq[Max(s)])]
           h == [s \in SUBSET S |-> programs]
<1>1. drop_descendants_of_dropped(programs) = (CHOOSE g : IsFold(g))[DOMAIN seq]
  BY DEF drop_descendants_of_dropped, FoldLeft, MapThenFoldSet
<1>2. DOMAIN seq = S /\ seq[1] = 1
  BY DEF Ids
<1>3. \A ps : V(ps, 1) = ps
  OBVIOUS
<1>4. (\A s \in SUBSET S : s = {} \/ s = S) /\ Max(S) = 1 /\ S \ {1} = {} /\ S # {}
  BY OneOfOne
<1> HIDE DEF seq, V, programs, S
<1>5. IsFold(h)
  <2>1. ASSUME NEW s \in SUBSET S
        PROVE  h[s] = IF s = {} THEN programs ELSE V(h[s \ {Max(s)}], seq[Max(s)])
    <3>1. h[s] = programs /\ h[{}] = programs
      OBVIOUS
    <3>2. s = S => s \ {Max(s)} = {} /\ seq[Max(s)] = 1 /\ s # {}
      BY <1>2, <1>4
    <3> HIDE DEF h
    <3>3. CASE s = {}
      BY <3>1, <3>3
    <3>4. CASE s = S
      <4>1. V(h[s \ {Max(s)}], seq[Max(s)]) = V(programs, 1)
        BY <3>1, <3>2, <3>4
      <4>2. V(programs, 1) = programs
        BY <1>3
      <4> QED
        BY <3>1, <3>2, <3>4, <4>1, <4>2, Zenon
    <3> QED
      BY <1>4, <3>3, <3>4
  <2>2. h = [s \in SUBSET S |-> h[s]]
    OBVIOUS
  <2> HIDE DEF h
  <2> QED
    BY <1>2, <2>1, <2>2
<1> DEFINE g == CHOOSE f : IsFold(f)
<1>6. IsFold(g)
  <2> HIDE DEF IsFold, h
  <2> QED
    BY <1>5
<1> HIDE DEF g
<1>7. \A s \in SUBSET S : g[s] = IF s = {} THEN programs ELSE V(g[s \ {Max(s)}], seq[Max(s)])
  BY <1>2, <1>6
<1>8. g[{}] = programs
  BY <1>7
<1>9. g[S] = V(g[{}], 1)
  BY <1>2, <1>4, <1>7
<1> QED
  BY <1>1, <1>2, <1>3, <1>8, <1>9 DEF g, programs

LEMMA NothingPruned ==
  ASSUME NEW p, NEW paying
  PROVE  prune_unprofitable(<<p>>, paying) = <<p>>
<1> DEFINE programs == <<p>>
           seq == Reverse(Ids(programs))
           S == 1 .. 1
           V(ps, id) == IF id = 1 \/ ps[id].dropped \/ id \in paying THEN ps
                        ELSE drop_descendants_of_dropped(TurnBack(ps, id))
           IsFold(g) == g = [s \in SUBSET DOMAIN seq |->
             IF s = {} THEN programs ELSE V(g[s \ {Max(s)}], seq[Max(s)])]
           h == [s \in SUBSET S |-> programs]
<1>1. prune_unprofitable(programs, paying) = (CHOOSE g : IsFold(g))[DOMAIN seq]
  BY DEF prune_unprofitable, FoldLeft, MapThenFoldSet
<1>2. DOMAIN seq = S /\ seq[1] = 1
  <2> DEFINE ids == Ids(programs)
  <2>1. ids = [i \in 1 .. 1 |-> i]
    BY DEF Ids
  <2>2. Len(ids) = 1 /\ ids[1] = 1
    <3>1. [i \in 1 .. 1 |-> i] = <<1>>
      OBVIOUS
    <3> QED
      BY <2>1, <3>1
  <2> HIDE DEF ids
  <2>3. Reverse(ids) = [j \in 1 .. 1 |-> ids[1 - j + 1]]
    BY <2>2 DEF Reverse
  <2> QED
    BY <2>2, <2>3 DEF ids
<1>3. \A ps : V(ps, 1) = ps
  OBVIOUS
<1>4. (\A s \in SUBSET S : s = {} \/ s = S) /\ Max(S) = 1 /\ S \ {1} = {} /\ S # {}
  BY OneOfOne
<1> HIDE DEF seq, V, programs, S
<1>5. IsFold(h)
  <2>1. ASSUME NEW s \in SUBSET S
        PROVE  h[s] = IF s = {} THEN programs ELSE V(h[s \ {Max(s)}], seq[Max(s)])
    <3>1. h[s] = programs /\ h[{}] = programs
      OBVIOUS
    <3>2. s = S => s \ {Max(s)} = {} /\ seq[Max(s)] = 1 /\ s # {}
      BY <1>2, <1>4
    <3> HIDE DEF h
    <3>3. CASE s = {}
      BY <3>1, <3>3
    <3>4. CASE s = S
      <4>1. V(h[s \ {Max(s)}], seq[Max(s)]) = V(programs, 1)
        BY <3>1, <3>2, <3>4
      <4>2. V(programs, 1) = programs
        BY <1>3
      <4> QED
        BY <3>1, <3>2, <3>4, <4>1, <4>2, Zenon
    <3> QED
      BY <1>4, <3>3, <3>4
  <2>2. h = [s \in SUBSET S |-> h[s]]
    OBVIOUS
  <2> HIDE DEF h
  <2> QED
    BY <1>2, <2>1, <2>2
<1> DEFINE g == CHOOSE f : IsFold(f)
<1>6. IsFold(g)
  <2> HIDE DEF IsFold, h
  <2> QED
    BY <1>5
<1> HIDE DEF g
<1>7. \A s \in SUBSET S : g[s] = IF s = {} THEN programs ELSE V(g[s \ {Max(s)}], seq[Max(s)])
  BY <1>2, <1>6
<1>8. g[{}] = programs
  BY <1>7
<1>9. g[S] = V(g[{}], 1)
  BY <1>2, <1>4, <1>7
<1> QED
  BY <1>1, <1>2, <1>3, <1>8, <1>9 DEF g, programs

LEMMA CompactOne ==
  ASSUME NEW p, p.dropped = FALSE
  PROVE  \E f : compact(<<p>>) = <<f>> /\ f.target = p.target /\ f.updates = p.updates
<1> DEFINE seq == <<p>>
           kept == {id \in DOMAIN seq : ~seq[id].dropped}
           remap(id) == Cardinality({k \in kept : k <= id})
           F(q) == [target |-> q.target, index |-> q.index, updates |-> q.updates,
                    caller |-> IF q.parent = 0 THEN NoCaller ELSE seq[q.parent].target,
                    calldata_hash |-> q.at,
                    children |-> [c \in DOMAIN q.children |-> remap(q.children[c])]]
           S == 1 .. 1
           V(frames, q) == IF q.dropped THEN frames ELSE Append(frames, F(q))
           IsFold(g) == g = [s \in SUBSET DOMAIN seq |->
             IF s = {} THEN <<>> ELSE V(g[s \ {Max(s)}], seq[Max(s)])]
           h == [s \in SUBSET S |-> IF s = {} THEN <<>> ELSE V(<<>>, p)]
<1>1. compact(seq) = (CHOOSE g : IsFold(g))[DOMAIN seq]
  BY DEF compact, FoldLeft, MapThenFoldSet
<1>2. DOMAIN seq = S /\ seq[1] = p
  OBVIOUS
<1>3. F(p).target = p.target /\ F(p).updates = p.updates
  OBVIOUS
<1> HIDE DEF F
<1>4. V(<<>>, p) = <<F(p)>>
  OBVIOUS
<1>5. (\A s \in SUBSET S : s = {} \/ s = S) /\ Max(S) = 1 /\ S \ {1} = {} /\ S # {}
  BY OneOfOne
<1> HIDE DEF seq, V, S
<1>6. IsFold(h)
  <2>1. ASSUME NEW s \in SUBSET S
        PROVE  h[s] = IF s = {} THEN <<>> ELSE V(h[s \ {Max(s)}], seq[Max(s)])
    <3>1. h[s] = (IF s = {} THEN <<>> ELSE V(<<>>, p)) /\ h[{}] = <<>>
      OBVIOUS
    <3>2. s = S => s \ {Max(s)} = {} /\ seq[Max(s)] = p /\ s # {}
      BY <1>2, <1>5
    <3> HIDE DEF h
    <3>3. CASE s = {}
      BY <3>1, <3>3
    <3>4. CASE s = S
      <4>1. V(h[s \ {Max(s)}], seq[Max(s)]) = V(<<>>, p)
        BY <3>1, <3>2, <3>4
      <4> QED
        BY <3>1, <3>2, <3>4, <4>1, Zenon
    <3> QED
      BY <1>5, <3>3, <3>4
  <2>2. h = [s \in SUBSET S |-> h[s]]
    OBVIOUS
  <2> HIDE DEF h
  <2> QED
    BY <1>2, <2>1, <2>2
<1> DEFINE g == CHOOSE f : IsFold(f)
<1>7. IsFold(g)
  <2> HIDE DEF IsFold, h
  <2> QED
    BY <1>6
<1> HIDE DEF g
<1>8. \A s \in SUBSET S : g[s] = IF s = {} THEN <<>> ELSE V(g[s \ {Max(s)}], seq[Max(s)])
  BY <1>2, <1>7
<1>9. g[{}] = <<>>
  BY <1>8
<1>10. g[S] = V(g[{}], p)
  BY <1>2, <1>5, <1>8
<1>11. compact(seq) = <<F(p)>>
  BY <1>1, <1>2, <1>4, <1>9, <1>10 DEF g
<1> QED
  BY <1>3, <1>11 DEF seq

\* The tree is the root's program alone.
LEMMA SplitOne ==
  ASSUME NEW p, IsRoot(p), NEW paying
  PROVE  \E f : /\ compact(prune_unprofitable(RetainChildren(drop_descendants_of_dropped(<<p>>)), paying)) = <<f>>
                /\ f.target = Root /\ f.updates = p.updates
<1> DEFINE children == SelectSeq(p.children, LAMBDA c : ~<<p>>[c].dropped)
           q == [p EXCEPT !.children = children]
<1>1. RetainChildren(<<p>>) = <<q>>
  <2>1. RetainChildren(<<p>>) = [id \in 1 .. 1 |-> q]
    BY DEF RetainChildren
  <2> HIDE DEF q
  <2>2. [id \in 1 .. 1 |-> q] = <<q>>
    OBVIOUS
  <2> QED
    BY <2>1, <2>2
<1> HIDE DEF children
<1>2. q.dropped = FALSE /\ q.target = Root /\ q.updates = p.updates
  BY DEF IsRoot, ProgramFields
<1> HIDE DEF q
<1>3. prune_unprofitable(<<q>>, paying) = <<q>>
  BY NothingPruned
<1>4. PICK f : compact(<<q>>) = <<f>> /\ f.target = q.target /\ f.updates = q.updates
  BY <1>2, CompactOne
<1> QED
  BY <1>1, <1>2, <1>3, <1>4, NothingDropped

-----------------------------------------------------------------------------
(* The settlement. *)

At1(p) == <<[frame |-> 1, pos |-> p]>>

\* The updates of the root lead from the initial to the final world by way of h,
\* and the chain is where the cursor says.
Settling(h) ==
  LET updates == tree[1].updates
  IN  /\ tree[1].target = Root /\ IsList(updates) /\ History(h, updates, Genesis, Final)
      /\ \/ /\ outcome = "applying"
            /\ \E p \in 1 .. (Len(updates) + 1) : cursor = At1(p) /\ chain = h[p - 1]
         \/ /\ outcome = "aborted"
            /\ \E p \in 1 .. Len(updates) : cursor = At1(p) /\ updates[p].op = "CALL"
         \/ outcome = "applied" /\ chain = Final

SettleInv ==
  /\ phase # "settle" => outcome = "none"
  /\ phase = "settle" => \E h : Settling(h)

LEMMA CursorAt ==
  ASSUME NEW p, cursor = At1(p)
  PROVE  /\ Len(cursor) = 1 /\ Applying.frame = 1 /\ Applying.pos = p /\ Program = tree[1]
         /\ Update = tree[1].updates[p]
BY DEF At1, Applying, Program, Update

LEMMA HistoryKept ==
  ASSUME trace' = trace, NEW h, NEW u, NEW b, NEW c, History(h, u, b, c)
  PROVE  History(h, u, b, c)'
BY EffectKept DEF History

\* At the end of the walk the updates of the root, with the last slice, lead to
\* the final world.
LEMMA SplitRuns ==
  ASSUME TraceInv, HistoryInv, WalkInv, CanonInv, phase = "walk", pos > Len(trace)
  PROVE  Runs(Last(flush_slice(w).frames).out, Genesis, Final)
<1> DEFINE a == Len(trace)
           frames == w.frames
           opened == trace[a].stack
           x == flush_slice(w)
<1>1. a \in Nat /\ pos \in Nat /\ pos >= 1 /\ pos <= a + 1 /\ halted
  BY LogTypes DEF WalkInv
<1>2. trace # <<>> /\ trace[a].op = "STOP" /\ Len(opened) = 1
  BY <1>1 DEF HistoryInv
<1>3. a >= 1 /\ pos - 1 = a /\ pos > 1
  <2>1. trace \in Seq(Log)
    BY DEF TraceInv, EvmTypeOK
  <2>2. a # 0
    BY <1>2, <2>1, EmptySeq
  <2> QED
    BY <1>1, <2>2
<1>4. /\ Mirrors(frames, opened, After(trace[a])) /\ PendingOK(w.pending, trace[a]) /\ CanonAfter(w, a)
      /\ DOMAIN w = WalkFields
  BY <1>3 DEF WalkInv, CanonInv, WalkFields
<1>5. trace[a].world \in World
  BY <1>1, <1>3, LogTypes
<1>6. WorldAfter(a) = Final /\ Final \in World /\ After(trace[a]) = Final.st
  <2>1. WorldAfter(a) = trace[a].world
    BY <1>2, <1>5, SameWorldAfter
  <2> QED
    BY <1>2, <1>5, <2>1 DEF Final, After
<1>7. w.pending = {}
  BY <1>2, <1>4 DEF PendingOK, Calls
<1>8. Canon(frames, opened, Final, a, NoOp) /\ RootAlone(w.programs) /\ w.programs[1].target = Root
  BY <1>4, <1>6, <1>7, RootAloneOnly DEF CanonAfter
<1>9. Frameful(frames) /\ Len(frames) = 1 /\ Last(frames) = frames[1]
  BY <1>2, <1>4, MirrorsFrameful DEF Last
<1>10. Emits(frames[1]) /\ frames[1].program = {1}
  BY <1>8, <1>9 DEF Canon, Shape, Emits
<1>11. w.programs[ProgramOf(Last(frames))].target = Root
  <2>1. ProgramOf(frames[1]) = 1
    BY <1>10 DEF ProgramOf
  <2> QED
    BY <1>8, <1>9, <2>1
<1>12. PICK C : Tracked(C, frames, opened, Final, NoOp)
  BY <1>8 DEF Canon
<1>13. Level(C, frames, 1, Final, NoOp) /\ C[0] = Genesis
  BY <1>9, <1>10, <1>12 DEF Tracked, Seen, OpenOp
<1>14. Runs(frames[1].out, Genesis, C[1]) /\ Clean(frames, 1, C[1], Final)
  BY <1>13 DEF Level, NoOp
<1> DEFINE wd == Final
<1>15. /\ Frameful(frames) /\ w.programs[ProgramOf(Last(frames))].target = Root /\ wd \in World
       /\ Mirrors(frames, opened, wd.st)
       /\ Runs(Last(frames).out, Genesis, C[1]) /\ Clean(frames, Len(frames), C[1], wd)
  BY <1>4, <1>6, <1>9, <1>11, <1>14
<1> HIDE DEF wd, opened, x
<1>16. LET n == Len(w.frames)
           y == flush_slice(w)
       IN  IsList(y.frames) /\ Len(y.frames) = n /\ Runs(y.frames[n].out, Genesis, wd)
  BY <1>4, <1>15, FlushTop
<1>17. Last(flush_slice(w).frames) = flush_slice(w).frames[1]
  BY <1>9, <1>16 DEF Last
<1> QED
  BY <1>9, <1>16, <1>17 DEF wd

LEMMA SettleSplits ==
  ASSUME TraceInv, HistoryInv, WalkInv, CanonInv, Split
  PROVE  SettleInv'
<1> DEFINE root == Last(flush_slice(w).frames)
           out == root.out
           cg == root.call_gas
           eg == root.create_gas
           whole == [w.programs EXCEPT ![1] =
                      [@ EXCEPT !.updates = out, !.direct_call_gas = cg, !.direct_create_gas = eg]]
<1>1. /\ phase = "walk" /\ pos > Len(trace) /\ phase' = "settle" /\ trace' = trace
      /\ \E paying :
           Submit(compact(prune_unprofitable(RetainChildren(drop_descendants_of_dropped(whole)), paying)))
  BY DEF Split, evmVars
<1>2. Runs(out, Genesis, Final)
  BY <1>1, SplitRuns
<1>3. PICK p : w.programs = <<p>> /\ IsRoot(p)
  BY <1>1 DEF CanonInv, RootAlone
<1> HIDE DEF out, cg, eg, root
<1> DEFINE q == [p EXCEPT !.updates = out, !.direct_call_gas = cg, !.direct_create_gas = eg]
<1>4. IsRoot(q) /\ q.updates = out
  BY <1>3 DEF IsRoot, ProgramFields
<1>5. whole = <<q>>
  <2> HIDE DEF q
  <2>1. [<<p>> EXCEPT ![1] = q] = <<q>>
    OBVIOUS
  <2>2. whole = [<<p>> EXCEPT ![1] = q]
    BY <1>3 DEF q
  <2> QED
    BY <2>1, <2>2
<1> HIDE DEF q, whole
<1>6. PICK paying :
        Submit(compact(prune_unprofitable(RetainChildren(drop_descendants_of_dropped(<<q>>)), paying)))
  BY <1>1, <1>5
<1>7. PICK f : /\ compact(prune_unprofitable(RetainChildren(drop_descendants_of_dropped(<<q>>)), paying)) = <<f>>
               /\ f.target = Root /\ f.updates = out
  BY <1>4, SplitOne
<1>8. Submit(<<f>>)
  BY <1>6, <1>7
<1>9. tree' = <<f>> /\ chain' = Genesis /\ cursor' = At1(1) /\ outcome' = "applying"
  BY <1>8 DEF Submit, At1
<1>10. tree'[1].target = Root /\ tree'[1].updates = out
  BY <1>7, <1>9
<1>11. PICK h : IsList(out) /\ History(h, out, Genesis, Final)
  BY <1>2 DEF Runs
<1>12. PICK u, e : u = out /\ e = Final
  OBVIOUS
<1>13. Final' = e
  BY <1>1, <1>12 DEF Final
<1>14. (History(h, tree[1].updates, Genesis, Final))'
  <2>1. History(h, u, Genesis, e)
    BY <1>11, <1>12
  <2>2. History(h, u, Genesis, e)'
    BY <1>1, <2>1, HistoryKept
  <2>3. (tree[1].updates)' = u
    BY <1>10, <1>12
  <2> QED
    BY <1>13, <2>2, <2>3
<1>15. h[1 - 1] = Genesis /\ 1 \in 1 .. (Len(out) + 1)
  BY <1>11 DEF History, IsList
<1>16. Settling(h)'
  BY <1>9, <1>10, <1>11, <1>14, <1>15 DEF Settling
<1> QED
  BY <1>1, <1>16 DEF SettleInv

\* The cursor moves over an update that has taken the chain one world on.
LEMMA SettleAdvances ==
  ASSUME NEW h, Settling(h), outcome = "applying", trace' = trace, tree' = tree, outcome' = outcome,
         NEW p, cursor = At1(p), p \in 1 .. Len(tree[1].updates), Advance, chain' = h[p]
  PROVE  Settling(h)'
<1> DEFINE u == tree[1].updates
<1>1. /\ tree[1].target = Root /\ IsList(u) /\ History(h, u, Genesis, Final)
      /\ Len(u) \in Nat
  BY DEF Settling, IsList
<1>2. cursor' = At1(p + 1)
  <2> DEFINE c == [frame |-> 1, pos |-> p]
             d == [frame |-> 1, pos |-> p + 1]
  <2>1. [c EXCEPT !.pos = @ + 1] = d
    OBVIOUS
  <2>2. cursor = <<c>> /\ Len(cursor) = 1
    BY DEF At1
  <2> HIDE DEF c, d
  <2>3. cursor' = [<<c>> EXCEPT ![1] = [c EXCEPT !.pos = @ + 1]]
    BY <2>2 DEF Advance
  <2>4. cursor' = <<d>>
    BY <2>1, <2>3
  <2> QED
    BY <2>4 DEF d, At1
<1>3. p + 1 \in 1 .. (Len(u) + 1) /\ (p + 1) - 1 = p
  BY <1>1
<1>4. PICK v, e : v = u /\ e = Final
  OBVIOUS
<1>5. History(h, v, Genesis, e)'
  <2>1. History(h, v, Genesis, e)
    BY <1>1, <1>4
  <2> QED
    BY <2>1, HistoryKept
<1>6. u' = v /\ Final' = e
  BY <1>4 DEF Final
<1>7. (History(h, tree[1].updates, Genesis, Final))'
  BY <1>5, <1>6
<1>8. tree'[1].target = Root /\ IsList(tree'[1].updates) /\ outcome' = "applying"
  BY <1>1
<1>9. \E r \in 1 .. (Len(tree'[1].updates) + 1) : cursor' = At1(r) /\ chain' = h[r - 1]
  BY <1>2, <1>3
<1> QED
  BY <1>7, <1>8, <1>9 DEF Settling

LEMMA SettleApplies ==
  ASSUME Divergent = FALSE, TraceInv, phase = "settle", NEW h, Settling(h), Apply
  PROVE  Settling(h)'
<1> DEFINE u == tree[1].updates
<1>0. trace' = trace
  BY DEF Apply, evmVars
<1>1. /\ tree[1].target = Root /\ IsList(u) /\ Len(u) \in Nat /\ History(h, u, Genesis, Final)
      /\ outcome = "applying"
  BY DEF Settling, IsList, Apply, ApplyStore, ApplyLog, ApplyCall, ApplyNested, Abort, FrameApplied, AtOp
<1>2. PICK p \in 1 .. (Len(u) + 1) : cursor = At1(p) /\ chain = h[p - 1]
  BY <1>1 DEF Settling
<1>3. Len(cursor) = 1 /\ Applying.pos = p /\ Program = tree[1] /\ Update = u[p]
  BY <1>2, CursorAt
<1>4. ASSUME p \in 1 .. Len(u)
      PROVE  Effect(u[p], chain, h[p])
  BY <1>1, <1>2, <1>4 DEF History
<1>5. CASE ApplyStore
  <2>1. /\ p \in 1 .. Len(u) /\ u[p].op = "STORE" /\ Advance /\ tree' = tree /\ outcome' = outcome
        /\ chain' = [chain EXCEPT !.st[Root][u[p].slot] = u[p].value]
    BY <1>1, <1>2, <1>3, <1>5 DEF ApplyStore, AtOp
  <2>2. chain' = h[p]
    BY <1>4, <2>1 DEF Effect
  <2> QED
    BY <1>0, <1>1, <1>2, <2>1, <2>2, SettleAdvances
<1>6. CASE ApplyLog
  <2>1. /\ p \in 1 .. Len(u) /\ u[p].op = "LOG" /\ Advance /\ tree' = tree /\ outcome' = outcome
        /\ chain' = [chain EXCEPT !.ev = Append(@, <<Root, u[p].at>>)]
    BY <1>1, <1>2, <1>3, <1>6 DEF ApplyLog, AtOp
  <2>2. chain' = h[p]
    BY <1>4, <2>1 DEF Effect
  <2> QED
    BY <1>0, <1>1, <1>2, <2>1, <2>2, SettleAdvances
<1>7. CASE ApplyCall
  <2>1. /\ p \in 1 .. Len(u) /\ u[p].op \in {"CALL", "CREATE"} /\ Advance /\ tree' = tree /\ outcome' = outcome
        /\ chain' \in Replayed(u[p].at)
    BY <1>1, <1>2, <1>3, <1>7 DEF ApplyCall, AtOp
  <2>2. chain' = trace[Resume(u[p].at)].world
    BY <2>1 DEF Replayed
  <2>3. chain' = h[p]
    BY <1>4, <2>1, <2>2 DEF Effect
  <2> QED
    BY <1>0, <1>1, <1>2, <2>1, <2>3, SettleAdvances
<1>8. CASE ApplyNested
  <2>1. p \in 1 .. Len(u) /\ u[p].op = "NESTED"
    BY <1>1, <1>2, <1>3, <1>8 DEF ApplyNested, AtOp
  <2> QED
    BY <1>4, <2>1 DEF Effect
<1>9. CASE Abort
  <2>1. /\ p \in 1 .. Len(u) /\ u[p].op \in {"CALL", "CREATE", "NESTED"}
        /\ u[p].op # "NESTED" => ~Succeeded(u[p].at)
        /\ tree' = tree /\ cursor' = cursor /\ outcome' = "aborted"
    BY <1>1, <1>2, <1>3, <1>9 DEF Abort, AtOp
  <2>2. u[p].op = "CALL"
    BY <1>4, <2>1 DEF Effect
  <2>3. PICK v, e : v = u /\ e = Final
    OBVIOUS
  <2>4. History(h, v, Genesis, e)'
    <3>1. History(h, v, Genesis, e)
      BY <1>1, <2>3
    <3> QED
      BY <1>0, <3>1, HistoryKept
  <2>5. u' = v /\ Final' = e
    BY <1>0, <2>1, <2>3 DEF Final
  <2>6. (History(h, tree[1].updates, Genesis, Final))'
    BY <2>4, <2>5
  <2> QED
    BY <1>1, <1>2, <2>1, <2>2, <2>6 DEF Settling
<1>10. CASE FrameApplied
  <2>1. p > Len(u) /\ outcome' = "applied" /\ tree' = tree /\ chain' = chain
    BY <1>3, <1>10 DEF FrameApplied
  <2>2. p - 1 = Len(u)
    BY <1>1, <1>2, <2>1
  <2>3. PICK v, e : v = u /\ e = Final
    OBVIOUS
  <2>4. History(h, v, Genesis, e)'
    <3>1. History(h, v, Genesis, e)
      BY <1>1, <2>3
    <3> QED
      BY <1>0, <3>1, HistoryKept
  <2>5. u' = v /\ Final' = e
    BY <1>0, <2>1, <2>3 DEF Final
  <2>6. (History(h, tree[1].updates, Genesis, Final))'
    BY <2>4, <2>5
  <2>7. chain' = Final'
    BY <1>1, <1>2, <2>1, <2>2, <2>3, <2>5 DEF History
  <2> QED
    BY <1>1, <2>1, <2>6, <2>7 DEF Settling
<1> QED
  BY <1>5, <1>6, <1>7, <1>8, <1>9, <1>10 DEF Apply

LEMMA SettleStarts == Init => SettleInv
BY DEF Init, SettlementInit, SettleInv

LEMMA SettleStep ==
  ASSUME Divergent = FALSE
  PROVE  TraceInv /\ HistoryInv /\ WalkInv /\ CanonInv /\ SettleInv /\ [Next]_vars => SettleInv'
<1> SUFFICES ASSUME TraceInv, HistoryInv, WalkInv, CanonInv, SettleInv, [Next]_vars PROVE SettleInv'
  OBVIOUS
<1>1. CASE Execute /\ UNCHANGED <<settlementVars, walkVars>>
  <2>1. phase = "trace"
    BY <1>1 DEF Execute, Sstore, Increment, Emit, Tstore, OpenFrame, Open, Inline, Revert, Halt,
       Return, Finish, Executes, WalkInv
  <2> QED
    BY <1>1, <2>1 DEF SettleInv, walkVars, settlementVars
<1>2. CASE Scan
  BY <1>2 DEF Scan, SettleInv, settlementVars
<1>3. CASE Walk
  <2>1. phase = "walk" /\ phase' \in {"walk", "failed"} /\ outcome' = outcome
    BY <1>3 DEF Walk, WalkErrored, WalkNothing, WalkStore, WalkUnsupported, WalkDelegate, WalkStatic,
       WalkLog, WalkNative, WalkCreate, WalkCall, WalkNested, WalkFails, Executed, At, Becomes,
       settlementVars
  <2> QED
    BY <2>1 DEF SettleInv
<1>4. CASE Split
  BY <1>4, SettleSplits
<1>5. CASE Apply /\ UNCHANGED walkVars
  <2>1. phase' = phase
    BY <1>5 DEF walkVars
  <2>2. outcome = "applying"
    BY <1>5 DEF Apply, ApplyStore, ApplyLog, ApplyCall, ApplyNested, Abort, FrameApplied, AtOp
  <2>3. phase = "settle"
    BY <2>2 DEF SettleInv
  <2>4. PICK h : Settling(h)
    BY <2>3 DEF SettleInv
  <2>5. Settling(h)'
    BY <1>5, <2>3, <2>4, SettleApplies
  <2> QED
    BY <2>1, <2>3, <2>5 DEF SettleInv
<1>6. CASE UNCHANGED vars
  <2>1. /\ phase' = phase /\ outcome' = outcome /\ trace' = trace /\ tree' = tree /\ chain' = chain
        /\ cursor' = cursor
    BY <1>6 DEF vars, evmVars, settlementVars, walkVars
  <2>2. ASSUME phase = "settle" PROVE \E h : Settling(h)'
    <3>1. PICK h : Settling(h)
      BY <2>2 DEF SettleInv
    <3>2. PICK v, e : v = tree[1].updates /\ e = Final
      OBVIOUS
    <3>3. History(h, v, Genesis, e)'
      <4>1. History(h, v, Genesis, e)
        BY <3>1, <3>2 DEF Settling
      <4> QED
        BY <2>1, <4>1, HistoryKept
    <3>4. (tree[1].updates)' = v /\ Final' = e
      BY <2>1, <3>2 DEF Final
    <3>5. (History(h, tree[1].updates, Genesis, Final))'
      BY <3>3, <3>4
    <3>6. Settling(h)'
      BY <2>1, <3>1, <3>2, <3>4, <3>5 DEF Settling
    <3> QED
      BY <3>6
  <2> QED
    BY <2>1, <2>2 DEF SettleInv
<1> QED
  BY <1>1, <1>2, <1>3, <1>4, <1>5, <1>6 DEF Next, Done

LEMMA SettlesRight ==
  ASSUME SettleInv
  PROVE  BoundaryInSync /\ ReachesTracedWorld /\ AbortsOnlyOnFailedCall
<1>1. ASSUME AtOp({"CALL", "CREATE", "NESTED"}) PROVE chain = trace[Update.at].world
  <2>1. outcome = "applying" /\ Applying.pos <= Len(Program.updates) /\ Update.op \in {"CALL", "CREATE", "NESTED"}
    BY <1>1 DEF AtOp, Update
  <2>2. PICK h : Settling(h)
    BY <2>1 DEF SettleInv
  <2> DEFINE u == tree[1].updates
  <2>3. IsList(u) /\ Len(u) \in Nat /\ History(h, u, Genesis, Final)
    BY <2>2 DEF Settling, IsList
  <2>4. PICK p \in 1 .. (Len(u) + 1) : cursor = At1(p) /\ chain = h[p - 1]
    BY <2>1, <2>2 DEF Settling
  <2>5. Applying.pos = p /\ Program = tree[1] /\ Update = u[p]
    BY <2>4, CursorAt
  <2>6. p \in 1 .. Len(u)
    BY <2>1, <2>3, <2>4, <2>5
  <2>7. Effect(u[p], h[p - 1], h[p])
    BY <2>3, <2>6 DEF History
  <2> QED
    BY <2>1, <2>4, <2>5, <2>7 DEF Effect
<1>2. ASSUME outcome = "applied" PROVE chain = Final
  BY <1>2 DEF SettleInv, Settling
<1>3. ASSUME outcome = "aborted" PROVE Update.op = "CALL"
  <2>1. PICK h : Settling(h)
    BY <1>3 DEF SettleInv
  <2>2. PICK p : cursor = At1(p) /\ tree[1].updates[p].op = "CALL"
    BY <1>3, <2>1 DEF Settling
  <2> QED
    BY <2>2, CursorAt
<1> QED
  BY <1>1, <1>2, <1>3 DEF BoundaryInSync, ReachesTracedWorld, AbortsOnlyOnFailedCall

\* With no contract nestable, split_frame_tree is compute_state_updates_canonical;
\* the calls of the settlement do as they did in the trace.
CanonicalPromise == BoundaryInSync /\ ReachesTracedWorld /\ AbortsOnlyOnFailedCall

LEMMA CanonicalSettles ==
  ASSUME Nestable = {}, Divergent = FALSE
  PROVE  Spec => []CanonicalPromise
<1> DEFINE Inv == TraceInv /\ HistoryInv /\ WalkInv /\ CanonInv /\ SettleInv
<1>1. Init => Inv
  BY TraceStarts, HistoryStarts, WalkStarts, CanonStarts, SettleStarts
<1>2. Inv /\ [Next]_vars => Inv'
  BY TraceStep, HistoryStep, WalkStep, CanonStep, SettleStep
<1>3. Inv => CanonicalPromise
  BY SettlesRight DEF CanonicalPromise
<1> QED
  BY <1>1, <1>2, <1>3, PTL DEF Spec

\* Canonical checkpointing, for every trace: the settlement of the program that
\* compute_state_updates_canonical emits hands control over, at a CALL or a CREATE,
\* only in the world the trace saw there, so that re-entrant code reads natively.
THEOREM CanonicalInSync ==
  ASSUME Nestable = {}, Divergent = FALSE
  PROVE  Spec => [](BoundaryInSync /\ SettlesInSync)
<1>1. CanonicalPromise => BoundaryInSync /\ SettlesInSync
  BY DEF CanonicalPromise, SettlesInSync
<1> QED
  BY <1>1, CanonicalSettles, PTL

\* Canonical extraction, for every trace: a settlement that goes through leaves the
\* storage of every contract and the sequence of events as the transaction left them.
THEOREM CanonicalAsTraced ==
  ASSUME Nestable = {}, Divergent = FALSE
  PROVE  Spec => [](ReachesTracedWorld /\ SettlesAsTraced)
<1>1. CanonicalPromise => ReachesTracedWorld /\ SettlesAsTraced
  BY DEF CanonicalPromise, SettlesAsTraced
<1> QED
  BY <1>1, CanonicalSettles, PTL

\* Canonical extraction, for every trace: the settlement stops at nothing but a CALL,
\* one that failed in the trace and whose caller carried on.
THEOREM CanonicalAborts ==
  ASSUME Nestable = {}, Divergent = FALSE
  PROVE  Spec => [](AbortsOnlyOnFailedCall /\ SettlesUnlessCallFails)
<1>1. CanonicalPromise => AbortsOnlyOnFailedCall /\ SettlesUnlessCallFails
  BY DEF CanonicalPromise, SettlesUnlessCallFails
<1> QED
  BY <1>1, CanonicalSettles, PTL
=============================================================================
