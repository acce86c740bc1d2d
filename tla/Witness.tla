------------------------------ MODULE Witness ------------------------------
(***************************************************************************)
(* A frame tree hashed and packaged for verifyAndUpdateTree.  Hashes are   *)
(* free terms: a leaf is the record of what it binds, the hash of a pair   *)
(* is the set of the two.  What every leaf of a tree shares (the chain id, *)
(* the selector and the value of the root, the expiry block) is left out.  *)
(*                                                                         *)
(* A frame is [target, caller, index, calldata_hash, updates, children].   *)
(***************************************************************************)
EXTENDS Integers, Sequences, SequencesExt, FiniteSets

CONSTANT NoIndex   \* a frame whose transition index the trace does not show

program_leaf(frame, program) == [index |-> frame.index, target |-> frame.target, program |-> program]
root_leaf(frame, program) == [tag |-> "root"] @@ program_leaf(frame, program)
nested_leaf(frame, caller, calldata_hash, program) ==
  [tag |-> "nested", caller |-> caller, calldata_hash |-> calldata_hash] @@ program_leaf(frame, program)
expiry_leaf(target) == [tag |-> "expiry", target |-> target]

hash_pair(a, b) == [tag |-> "pair", nodes |-> {a, b}]

\* Adjacent nodes are paired; an odd last one moves up as it is.
up(level) ==
  [k \in 1..((Len(level) + 1) \div 2) |->
     IF 2 * k <= Len(level) THEN hash_pair(level[2 * k - 1], level[2 * k]) ELSE level[2 * k - 1]]

\* Level after level, from the leaves; the last one is the root alone.
Levels(leaves) ==
  LET L[k \in 0..Len(leaves)] == IF k = 0 THEN leaves ELSE up(L[k - 1]) IN L

merkle_root(leaves) == Levels(leaves)[Len(leaves)][1]

\* Mutant: the sibling is always the next node.
SiblingAfter(level, at) == IF at + 1 < Len(level) THEN <<level[at + 2]>> ELSE <<>>

\* level.get(index ^ 1): the odd last node has none.
Sibling(level, at) ==
  LET k == IF at % 2 = 0 THEN at + 1 ELSE at - 1
  IN IF k < Len(level) THEN <<level[k + 1]>> ELSE <<>>

\* Leaves are counted from 0.
merkle_proof(leaves, index) ==
  LET L == Levels(leaves)
  IN FoldLeft(LAMBDA proof, k :
                IF Len(L[k]) > 1 THEN proof \o Sibling(L[k], index \div 2 ^ k) ELSE proof,
              <<>>, [k \in 1..Len(leaves) |-> k - 1])

-----------------------------------------------------------------------------
(* encode_frame_tree. *)

NestedUpTo(frame, k) == Cardinality({j \in 1..k : frame.updates[j].op = "NESTED"})

\* One NESTED op for each child, children after their parent, every index known.
Encodes(frames) ==
  /\ frames # <<>>
  /\ \A i \in DOMAIN frames :
       /\ NestedUpTo(frames[i], Len(frames[i].updates)) = Len(frames[i].children)
       /\ \A c \in Range(frames[i].children) : c > i /\ c <= Len(frames)
       /\ frames[i].index # NoIndex

\* Bottom-up: a NESTED op names its child's leaf, and a leaf its program.
Named(frame, leaf) ==
  [k \in DOMAIN frame.updates |->
     IF frame.updates[k].op = "NESTED"
     THEN [childLeaf |-> leaf[frame.children[NestedUpTo(frame, k)]]] @@ frame.updates[k]
     ELSE frame.updates[k]]

LeafOf(frames, i, program) ==
  IF i = 1 THEN root_leaf(frames[1], program)
  ELSE nested_leaf(frames[i], frames[i].caller, frames[i].calldata_hash, program)

FrameLeaves(frames) ==
  LET leaf[i \in DOMAIN frames] == LeafOf(frames, i, Named(frames[i], leaf)) IN leaf

encode_frame_tree(frames) ==
  LET frame_leaves == FrameLeaves(frames)
      programs == [i \in DOMAIN frames |-> frame_leaves[i].program]
      leaves == <<expiry_leaf(frames[1].target)>> \o frame_leaves
      witness[i \in DOMAIN frames] ==
        [calldataHash |-> frames[i].calldata_hash, storageUpdates |-> programs[i],
         proof |-> merkle_proof(leaves, i),
         children |-> [c \in DOMAIN frames[i].children |-> witness[frames[i].children[c]]]]
  IN [root |-> merkle_root(leaves), leaves |-> leaves, frame_leaves |-> frame_leaves,
      programs |-> programs, witnesses |-> witness, root_children |-> witness[1].children,
      root_proof |-> witness[1].proof, expiry_proof |-> merkle_proof(leaves, 0)]

-----------------------------------------------------------------------------
(* What the contract does with it. *)

verify(proof, root, leaf) == FoldLeft(LAMBDA node, sibling : hash_pair(node, sibling), leaf, proof) = root

\* The child a parent's NESTED op applies makes its leaf of its own address and
\* counter, of its caller and of the witness it is handed: it must be the leaf
\* the parent's program names, and a leaf of the signed tree.
Applies(tree, child, caller, named, witness) ==
  LET leaf == nested_leaf(child, caller, witness.calldataHash, witness.storageUpdates)
  IN leaf = named /\ verify(witness.proof, tree.root, leaf)
=============================================================================
