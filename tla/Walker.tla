------------------------------- MODULE Walker -------------------------------
(***************************************************************************)
(* nested.rs split_frame_tree: one pass over a struct-log trace that splits *)
(* it into the update programs of the root and of the nested frames, with a *)
(* canonical state slice before every boundary and at the end.  With no     *)
(* nestable contract it is trace.rs compute_state_updates_canonical.        *)
(*                                                                         *)
(* One log is one step.  Gas is one unit per log, so the gas a call uses is *)
(* the distance to the log that resumes its caller.  What a frame saves is  *)
(* data the split does not look at otherwise: prune_unprofitable may keep   *)
(* or turn back any frame.                                                  *)
(***************************************************************************)
EXTENDS Candidates

CONSTANT Nestable   \* the contracts is_nestable accepts

VARIABLES
  phase,      \* "trace", "walk", "split", "failed" or "settle"
  pos,        \* the log the walk is at
  scan,       \* what scan_candidates found
  w,          \* the walk: [frames, programs, pending]
  skipped,    \* skipped_opcodes
  totals      \* [call_gas_total, create_gas_total, counter_moves]

walkVars == <<phase, pos, scan, w, skipped, totals>>
vars == <<evmVars, settlementVars, walkVars>>

NoSlots == [s \in {} |-> 0]
NoWrites == [c \in Contract |-> NoSlots]

\* BTreeMap::extend.
Extend(old, new) ==
  [s \in DOMAIN old \cup DOMAIN new |-> IF s \in DOMAIN new THEN new[s] ELSE old[s]]

Store(s, v) == [op |-> "STORE", slot |-> s, value |-> v, at |-> 0]
UpdateAt(op, i) == [op |-> op, slot |-> 0, value |-> 0, at |-> i]

\* ProgramState; `at` is the CALL the frame replaces.
NewProgram(target, index, parent, i) ==
  [target |-> target, index |-> index, parent |-> parent, at |-> i,
   updates |-> <<>>, children |-> <<>>, dropped |-> FALSE, pruned |-> FALSE,
   native_gas |-> 0, direct_call_gas |-> 0, direct_create_gas |-> 0]

\* WalkFrame; `program` is empty for frames that replay natively, `emits` says
\* which update of the caller measures its gas from log `start`.
NewFrame(depth, p, first_program) ==
  [depth |-> depth, ctx |-> p.ctx, program |-> p.program, view |-> p.view,
   emits |-> p.emits, nested |-> p.nested, start |-> p.start,
   journal |-> NoWrites, out |-> <<>>, call_gas |-> 0, create_gas |-> 0,
   first_program |-> first_program]

Pending(depth, ctx, program, view, emits, nested, start) ==
  [depth |-> depth, ctx |-> ctx, program |-> program, view |-> view,
   emits |-> emits, nested |-> nested, start |-> start]

WalkStart ==
  [frames   |-> <<NewFrame(1, Pending(0, Root, {1}, NoSlots, "none", FALSE, 0), 1)>>,
   programs |-> <<NewProgram(Root, NoIndex, 0, 0)>>,
   pending  |-> {}]

Init ==
  /\ EvmInit /\ SettlementInit
  /\ phase = "trace" /\ pos = 1 /\ scan = ScanStart /\ w = WalkStart
  /\ skipped = {}
  /\ totals = [call_gas |-> 0, create_gas |-> 0, counter_moves |-> {}]

(***************************************************************************)
(* State slices                                                            *)
(***************************************************************************)

\* The image of target: every open frame's journal, merged bottom-up.
visible_image(frames, target) ==
  LET writers(s) == {k \in DOMAIN frames : s \in DOMAIN frames[k].journal[target]}
  IN  [s \in {t \in Slot : writers(t) # {}} |->
         frames[CHOOSE k \in writers(s) : \A j \in writers(s) : j <= k].journal[target][s]]

ProgramOf(frame) == CHOOSE id \in frame.program : TRUE

\* Variant: slots the trace shows at their emitted value are always left out,
\* whatever code has run since.
forget_nothing(frames, programs, journal) == frames

Forget(frame, slots) == [frame EXCEPT !.view = [s \in DOMAIN @ \ slots |-> @[s]]]

\* Forget what each open frame emitted for the slots of its target in journal.
forget_overwritten(frames, programs, journal) ==
  [k \in DOMAIN frames |->
     IF frames[k].program = {} THEN frames[k]
     ELSE Forget(frames[k], DOMAIN journal[programs[ProgramOf(frames[k])].target])]

\* Slots as a BTreeMap iterates them.
InOrder(slots) ==
  [k \in 1 .. Cardinality(slots) |-> CHOOSE s \in slots : Cardinality({t \in slots : t <= s}) = k]

\* Variant: the slice is taken from the frame's own writes only.
flush_slice_own(v) ==
  LET cur    == Last(v.frames)
      image  == cur.journal[v.programs[ProgramOf(cur)].target]
      dirty  == {s \in DOMAIN image : ~(s \in DOMAIN cur.view /\ cur.view[s] = image[s])}
      stores == InOrder(dirty)
  IN  [v EXCEPT !.frames[Len(v.frames)] =
         [cur EXCEPT !.out  = @ \o [k \in DOMAIN stores |-> Store(stores[k], image[stores[k]])],
                     !.view = Extend(@, image)]]

\* Emit, in slot order, every slot whose visible value the program has not set.
flush_slice(v) ==
  LET cur    == Last(v.frames)
      image  == visible_image(v.frames, v.programs[ProgramOf(cur)].target)
      dirty  == {s \in DOMAIN image : ~(s \in DOMAIN cur.view /\ cur.view[s] = image[s])}
      stores == InOrder(dirty)
  IN  [v EXCEPT !.frames[Len(v.frames)] =
         [cur EXCEPT !.out  = @ \o [k \in DOMAIN stores |-> Store(stores[k], image[stores[k]])],
                     !.view = Extend(@, image)]]

(***************************************************************************)
(* Before a log is looked at: the frame the previous one opened is entered, *)
(* the frames it leaves are closed.                                         *)
(***************************************************************************)

\* The top frame's update of kind `emits` used gas units of gas.
Charge(frames, emits, gas) ==
  [frames EXCEPT ![Len(frames)].call_gas   = IF emits = "CALL"   THEN @ + gas ELSE @,
                 ![Len(frames)].create_gas = IF emits = "CREATE" THEN @ + gas ELSE @]

\* A call that opened no frame has completed inline.
EnterFails(v, log) ==
  \E p \in v.pending :
    /\ log.depth # p.depth + 1
    /\ p.nested \/ (p.emits = "CREATE" /\ log.top = 0)

Enter(v, i) ==
  IF v.pending = {} THEN v
  ELSE LET p == CHOOSE q \in v.pending : TRUE
           first == IF p.nested THEN CHOOSE id \in p.program : TRUE ELSE Len(v.programs) + 1
       IN  [v EXCEPT
             !.pending = {},
             !.frames = IF trace[i].depth = p.depth + 1
                        THEN Append(@, NewFrame(trace[i].depth, p, first))
                        ELSE Charge(@, p.emits, i - p.start)]

Leaving(v, log) == Last(v.frames).depth > log.depth

\* Variant: a reverted nested frame stops the walk.
LeaveFailsOnRevert(v, log) ==
  /\ Leaving(v, log)
  /\ \/ Last(v.frames).depth # log.depth + 1
     \/ log.top = 0 /\ (Last(v.frames).emits = "CREATE" \/ Last(v.frames).nested)

\* A jump of two depths has no flag for the frame in between; a failed create
\* would abort the settlement; a reverted nested frame takes its op along.
LeaveFails(v, log) ==
  /\ Leaving(v, log)
  /\ \/ Last(v.frames).depth # log.depth + 1
     \/ log.top = 0 /\ Last(v.frames).emits = "CREATE"
     \/ /\ log.top = 0 /\ Last(v.frames).nested
        /\ LET out == v.frames[Len(v.frames) - 1].out
           IN  out = <<>> \/ Last(out).op # "NESTED"

\* The writes of a committed child become its parent's.
Commit(frames, journal) ==
  [frames EXCEPT ![Len(frames)].journal =
     [c \in Contract |-> Extend(@[c], journal[c])]]

\* A nested frame returns: its program is complete.
LeaveNested(v, i) ==
  LET flushed == flush_slice(v)
      child   == Last(flushed.frames)
      rest    == forget_overwritten(Front(flushed.frames), v.programs, child.journal)
  IN  [v EXCEPT
        !.frames = Commit(rest, child.journal),
        !.programs[ProgramOf(child)] =
           [@ EXCEPT !.updates = child.out, !.native_gas = i - child.start,
                     !.direct_call_gas = child.call_gas, !.direct_create_gas = child.create_gas]]

\* Any other frame returns: a delegated one hands its updates and its view to
\* its caller, a native one has overwritten what the callers had emitted.
LeavePlain(v, i) ==
  LET child   == Last(v.frames)
      charged == Charge(Front(v.frames), child.emits, i - child.start)
      rest    == IF child.program = {}
                 THEN forget_overwritten(charged, v.programs, child.journal) ELSE charged
  IN  [v EXCEPT !.frames =
        [Commit(rest, child.journal) EXCEPT
           ![Len(rest)].out        = @ \o child.out,
           ![Len(rest)].call_gas   = @ + child.call_gas,
           ![Len(rest)].create_gas = @ + child.create_gas,
           ![Len(rest)].view       = IF child.program # {} THEN child.view ELSE @]]

\* The programs opened inside a frame that reverts.
DropFrom(programs, first) ==
  [id \in DOMAIN programs |->
     IF id >= first THEN [programs[id] EXCEPT !.dropped = TRUE] ELSE programs[id]]

\* Variant: the writes of a reverted frame are committed all the same.
LeaveRevertedCommits(v, i) ==
  LET child == Last(v.frames)
      rest  == Commit(Charge(Front(v.frames), child.emits, i - child.start), child.journal)
  IN  [v EXCEPT
        !.frames = IF child.nested THEN [rest EXCEPT ![Len(rest)].out = Front(@)] ELSE rest,
        !.programs = DropFrom(@, child.first_program)]

\* Variant: the gas of a reverted call is not charged, although its update stays.
LeaveRevertedUncharged(v, i) ==
  LET child == Last(v.frames)
      rest  == Front(v.frames)
  IN  [v EXCEPT
        !.frames = IF child.nested THEN [rest EXCEPT ![Len(rest)].out = Front(@)] ELSE rest,
        !.programs = DropFrom(@, child.first_program)]

\* A frame reverts: journal, updates and view go, and so do the programs opened
\* inside it and, for a nested frame, the NESTED op.
LeaveReverted(v, i) ==
  LET child == Last(v.frames)
      rest  == Charge(Front(v.frames), child.emits, i - child.start)
  IN  [v EXCEPT
        !.frames = IF child.nested THEN [rest EXCEPT ![Len(rest)].out = Front(@)] ELSE rest,
        !.programs = DropFrom(@, child.first_program)]

Leave(v, i) ==
  IF ~Leaving(v, trace[i]) THEN v
  ELSE IF trace[i].top = 0 THEN LeaveReverted(v, i)
  ELSE IF Last(v.frames).nested THEN LeaveNested(v, i)
  ELSE LeavePlain(v, i)

\* The walk when log `pos` is about to be looked at.
Settled == Leave(Enter(w, pos), pos)

Fails == EnterFails(w, trace[pos]) \/ LeaveFails(Enter(w, pos), trace[pos])
(***************************************************************************)
(* The walk over one log                                                   *)
(***************************************************************************)

Cur == Last(Settled.frames)
Emitting == Cur.program # {}

\* The walk is at a log of kind `ops`; the step leaves it in state v.
At(ops) ==
  /\ phase = "walk" /\ pos <= Len(trace)
  /\ trace[pos].op \in ops
  /\ ~Fails

Becomes(v) ==
  /\ w' = v
  /\ pos' = pos + 1
  /\ UNCHANGED <<phase, scan, totals, evmVars, settlementVars>>

PushOut(v, update) == [v EXCEPT !.frames[Len(v.frames)].out = Append(@, update)]

Await(v, ctx, program, view, emits, nested) ==
  [v EXCEPT !.pending = {Pending(trace[pos].depth, ctx, program, view, emits, nested, pos)}]

Executed(ops) == At(ops) /\ ~trace[pos].error

\* An instruction that failed changes nothing; its frame is left at the next log.
WalkErrored ==
  /\ At(menu.ops \ {"TSTORE"}) /\ trace[pos].error
  /\ Becomes(Settled)
  /\ UNCHANGED skipped

\* STOP, REVERT and the other instructions without an effect of their own, logs
\* of native frames and writes of initcode.
WalkNothing ==
  /\ \/ Executed({"STOP", "REVERT"})
     \/ Executed({"LOG"}) /\ ~Emitting
     \/ Executed({"SSTORE"}) /\ Cur.ctx = NoAddress
  /\ Becomes(Settled)
  /\ UNCHANGED skipped

WalkStore ==
  /\ Executed({"SSTORE"}) /\ Cur.ctx # NoAddress
  /\ Becomes([Settled EXCEPT !.frames[Len(Settled.frames)].journal[Cur.ctx] =
                Extend(@, [s \in {trace[pos].slot} |-> trace[pos].value])])
  /\ UNCHANGED skipped

\* The one arm that does not look at the log's error.
WalkUnsupported ==
  /\ At({"TSTORE"})
  /\ Becomes(Settled)
  /\ skipped' = IF Emitting THEN skipped \cup {"TSTORE"} ELSE skipped

WalkDelegate ==
  /\ Executed({"DELEGATECALL"})
  /\ Becomes(Await(Settled, Cur.ctx, Cur.program,
                   IF Emitting THEN Cur.view ELSE NoSlots, "none", FALSE))
  /\ UNCHANGED skipped

WalkStatic ==
  /\ Executed({"STATICCALL"})
  /\ Becomes(Await(Settled, trace[pos].to, {}, NoSlots, "none", FALSE))
  /\ UNCHANGED skipped

WalkLog ==
  /\ Executed({"LOG"}) /\ Emitting
  /\ Becomes(PushOut(Settled, UpdateAt("LOG", pos)))
  /\ UNCHANGED skipped

\* A call or create of a frame that replays natively.
WalkNative ==
  /\ Executed({"CALL", "CREATE"}) /\ ~Emitting
  /\ Becomes(Await(Settled, trace[pos].to, {}, NoSlots, "none", FALSE))
  /\ UNCHANGED skipped

\* Variant: initcode is not treated as a boundary.
WalkCreateUnflushed ==
  /\ Executed({"CREATE"}) /\ Emitting
  /\ Becomes(Await(PushOut(Settled, UpdateAt("CREATE", pos)),
                   NoAddress, {}, NoSlots, "CREATE", FALSE))
  /\ UNCHANGED skipped

\* Initcode may call back into the target: a boundary.
WalkCreate ==
  /\ Executed({"CREATE"}) /\ Emitting
  /\ Becomes(Await(PushOut(flush_slice(Settled), UpdateAt("CREATE", pos)),
                   NoAddress, {}, NoSlots, "CREATE", FALSE))
  /\ UNCHANGED skipped

\* Eligibility::frame_index for deployed consumers.
Eligible(i) ==
  /\ i \in DOMAIN scan.candidates
  /\ ~scan.candidates[i].unsupported_op
  /\ scan.candidates[i].bump = "first"
  /\ trace[i].to \in Nestable

\* A CALL of an emitting frame that stays one: a boundary and an update.
WalkCall ==
  /\ Executed({"CALL"}) /\ Emitting /\ ~Eligible(pos)
  /\ Becomes(Await(PushOut(flush_slice(Settled), UpdateAt("CALL", pos)),
                   trace[pos].to, {}, NoSlots, "CALL", FALSE))
  /\ UNCHANGED skipped

\* A program more, the last of its parent's children.
AddProgram(programs, program) ==
  Append([programs EXCEPT ![program.parent].children = Append(@, Len(programs) + 1)], program)

\* A CALL that becomes a NESTED op: the callee gets a program of its own.
WalkNested ==
  /\ Executed({"CALL"}) /\ Emitting /\ Eligible(pos)
  /\ LET v       == PushOut(flush_slice(Settled), UpdateAt("NESTED", pos))
         program == NewProgram(trace[pos].to, scan.candidates[pos].index, ProgramOf(Cur), pos)
     IN  Becomes(Await([v EXCEPT !.programs = AddProgram(@, program)],
                       trace[pos].to, {Len(v.programs) + 1}, NoSlots, "none", TRUE))
  /\ UNCHANGED skipped

\* bail!: the trace has no program.
WalkFails ==
  /\ phase = "walk" /\ pos <= Len(trace) /\ Fails
  /\ phase' = "failed"
  /\ UNCHANGED <<pos, scan, w, skipped, totals, evmVars, settlementVars>>

(***************************************************************************)
(* After the last log                                                      *)
(***************************************************************************)

Ids(programs) == [i \in DOMAIN programs |-> i]

\* Parents come before their children, so one forward pass reaches a subtree.
drop_descendants_of_dropped(programs) ==
  FoldLeft(LAMBDA ps, id :
             IF id > 1 /\ ps[ps[id].parent].dropped THEN [ps EXCEPT ![id].dropped = TRUE] ELSE ps,
           programs, Ids(programs))

\* Variant: dropped programs stay among their parent's children.
RetainChildrenAll(programs) == programs

\* The children that were not dropped.
RetainChildren(programs) ==
  [id \in DOMAIN programs |->
     [programs[id] EXCEPT !.children = SelectSeq(@, LAMBDA c : ~programs[c].dropped)]]

\* The frame becomes its CALL again: the NESTED op at its position among its
\* parent's children is replaced.
TurnBack(programs, id) ==
  LET p        == programs[id].parent
      position == SelectInSeq(programs[p].children, LAMBDA c : c = id)
      ops      == {k \in DOMAIN programs[p].updates : programs[p].updates[k].op = "NESTED"}
      k == CHOOSE k \in ops : Cardinality({j \in ops : j <= k}) = position
  IN  [programs EXCEPT ![p].updates[k] = UpdateAt("CALL", programs[id].at),
                       ![p].children   = RemoveAt(@, position),
                       ![id].dropped = TRUE, ![id].pruned = TRUE]

\* Children first; the frames in `paying` save more than they cost.
prune_unprofitable(programs, paying) ==
  FoldLeft(LAMBDA ps, id :
             IF id = 1 \/ ps[id].dropped \/ id \in paying THEN ps
             ELSE drop_descendants_of_dropped(TurnBack(ps, id)),
           programs, Reverse(Ids(programs)))

\* Variant: a pruned frame is counted even inside a pruned parent.
native_call_gas_twice(programs, direct, native) ==
  FoldLeft(LAMBDA sum, id :
             sum + (IF ~programs[id].dropped THEN direct[id]
                    ELSE IF programs[id].pruned THEN native[id] ELSE 0),
           0, Ids(programs))

\* The kept programs' own calls, plus each pruned frame under a kept parent.
native_call_gas(programs, direct, native) ==
  FoldLeft(LAMBDA sum, id :
             sum + (IF ~programs[id].dropped THEN direct[id]
                    ELSE IF programs[id].pruned /\ ~programs[programs[id].parent].dropped
                    THEN native[id] ELSE 0),
           0, Ids(programs))

\* The root frame is called by anyone.
NoCaller == 0

\* The kept programs, renumbered; the calldata is known by the CALL it was of.
compact(programs) ==
  LET kept == {id \in DOMAIN programs : ~programs[id].dropped}
      remap(id) == Cardinality({k \in kept : k <= id})
  IN  FoldLeft(LAMBDA frames, p :
                 IF p.dropped THEN frames
                 ELSE Append(frames, [target |-> p.target, index |-> p.index, updates |-> p.updates,
                                      caller |-> IF p.parent = 0 THEN NoCaller ELSE programs[p.parent].target,
                                      calldata_hash |-> p.at,
                                      children |-> [c \in DOMAIN p.children |-> remap(p.children[c])]]),
               <<>>, programs)

\* The final slice, the drops and the pruning; the result goes to settlement.
Split ==
  /\ phase = "walk" /\ pos > Len(trace)
  /\ LET root  == Last(flush_slice(w).frames)
         whole == [w.programs EXCEPT ![1] =
                     [@ EXCEPT !.updates = root.out, !.direct_call_gas = root.call_gas,
                               !.direct_create_gas = root.create_gas]]
     IN  \E paying \in SUBSET (2 .. Len(w.programs)) :
           LET programs == prune_unprofitable(
                             RetainChildren(drop_descendants_of_dropped(whole)), paying)
           IN  /\ Submit(compact(programs))
               /\ totals' =
                    [call_gas |-> native_call_gas(programs,
                        [id \in DOMAIN programs |-> programs[id].direct_call_gas],
                        [id \in DOMAIN programs |-> programs[id].native_gas]),
                     create_gas |-> native_call_gas(programs,
                        [id \in DOMAIN programs |-> programs[id].direct_create_gas],
                        [id \in DOMAIN programs |-> 0]),
                     counter_moves |-> {c \in Contract : Ctr \in DOMAIN root.journal[c]}]
  /\ phase' = "settle"
  /\ UNCHANGED <<pos, scan, w, skipped, evmVars>>

\* The whole trace is scanned before the walk begins.
Scan ==
  /\ phase = "trace" /\ halted
  /\ scan' = scan_candidates(trace)
  /\ w' = [w EXCEPT !.programs[1].index = scan'.root_index]
  /\ phase' = "walk"
  /\ UNCHANGED <<pos, skipped, totals, evmVars, settlementVars>>

Walk ==
  \/ WalkErrored \/ WalkNothing \/ WalkStore \/ WalkUnsupported \/ WalkDelegate
  \/ WalkStatic \/ WalkLog \/ WalkNative \/ WalkCreate \/ WalkCall \/ WalkNested
  \/ WalkFails

\* The extraction failed or the settlement is over.
Done ==
  /\ phase = "failed" \/ outcome \in {"applied", "aborted"}
  /\ UNCHANGED vars

Next ==
  \/ Execute /\ UNCHANGED <<settlementVars, walkVars>>
  \/ Scan
  \/ Walk
  \/ Split
  \/ Apply /\ UNCHANGED walkVars
  \/ Done

Spec == Init /\ [][Next]_vars

-----------------------------------------------------------------------------
(***************************************************************************)
(* Properties                                                              *)
(***************************************************************************)

\* The journals of the open frames, merged bottom-up over the initial storage,
\* are every contract's storage at the log the walk is at, whatever calls have
\* returned, reverted or failed on the way.
ImageIsNative ==
  phase = "walk" /\ pos <= Len(trace) /\ ~Fails =>
    LET frames == Settled.frames
    IN  \A c \in Contract :
          LET image == visible_image(frames, c)
          IN  \A s \in Slot :
                trace[pos].world.st[c][s] = IF s \in DOMAIN image THEN image[s] ELSE 0

\* The walk gives up on a well-formed trace only for a failed create of an
\* emitting frame: candidates that open no frame, reverted nested frames and
\* resume logs never stop it.
FailsOnlyOnCreate ==
  phase = "failed" =>
    /\ trace[pos].top = 0
    /\ \/ \E p \in w.pending : p.emits = "CREATE"
       \/ Last(w.frames).emits = "CREATE"

Frames == DOMAIN tree
CallsIn(f) == {k \in DOMAIN tree[f].updates : tree[f].updates[k].op = "CALL"}
NestedIn(f) == {k \in DOMAIN tree[f].updates : tree[f].updates[k].op = "NESTED"}

\* encode_frame_tree accepts every split whose root incremented its counter, and
\* the contract accepts what it makes of it: the root and the expiry leaf are in
\* the signed tree; every NESTED op is handed the witness whose leaf it names,
\* whichever frames reverted, were dropped or turned back around it; every other
\* frame is applied once; and no proof verifies the leaf of another frame.
TreeVerifies ==
  (phase = "settle" /\ cursor = <<[frame |-> 1, pos |-> 1]>> /\ tree[1].index # NoIndex) =>
    /\ Encodes(tree)
    /\ LET encoded == encode_frame_tree(tree)
           OpOf(f, n) == CHOOSE k \in NestedIn(f) : NestedUpTo(tree[f], k) = n
       IN /\ verify(encoded.root_proof, encoded.root, encoded.frame_leaves[1])
          /\ verify(encoded.expiry_proof, encoded.root, encoded.leaves[1])
          /\ \A f \in Frames : \A n \in DOMAIN tree[f].children :
               Applies(encoded, tree[tree[f].children[n]], tree[f].target,
                       encoded.programs[f][OpOf(f, n)].childLeaf, encoded.witnesses[f].children[n])
          /\ \A f, g \in Frames :
               verify(encoded.witnesses[f].proof, encoded.root, encoded.frame_leaves[g]) => f = g
    /\ \A g \in Frames \ {1} :
         Cardinality({x \in Frames \X (1 .. Len(tree)) :
                        x[2] \in DOMAIN tree[x[1]].children /\ tree[x[1]].children[x[2]] = g}) = 1

\* call_gas_total is the gas of exactly the CALLs the kept programs replay: calls
\* of reverted frames are not counted, a pruned subtree is counted once.
CallGasExact ==
  phase = "settle" =>
    totals.call_gas =
      FoldLeft(LAMBDA sum, f :
                 sum + FoldLeft(LAMBDA n, u : IF u.op = "CALL" THEN n + GasOf(u.at) ELSE n,
                                0, tree[f].updates),
               0, [f \in Frames |-> f])

\* The increment that made a nested frame eligible, the first counter write of
\* the call, is not rolled back while the call lasts.
IncrementsKept ==
  \A id \in DOMAIN w.programs :
    id > 1 /\ ~w.programs[id].dropped =>
      LET i     == w.programs[id].at
          count(j) == trace[j].world.st[trace[i].to][Ctr]
          first == Min({k \in (i + 1) .. Resume(i) :
                          trace[k].op = "SSTORE" /\ trace[k].slot = Ctr /\ ~trace[k].error})
      IN  \A j \in (first + 1) .. Resume(i) : count(i) < count(j)

\* What a settlement of the split promises, for frames that keep their increment.
SettlesInSync == IncrementsKept => BoundaryInSync
SettlesAsTraced == IncrementsKept => ReachesTracedWorld
SettlesUnlessCallFails == IncrementsKept => AbortsOnlyOnFailedCall

\* counter_moves, "the contracts a settlement pins, whether they are nested frames
\* or run natively", names the target of every nested frame.
NestedFramesPinned ==
  phase = "settle" => \A f \in Frames \ {1} : tree[f].target \in totals.counter_moves
=============================================================================
