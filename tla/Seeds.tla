-------------------------------- MODULE Seeds --------------------------------
(***************************************************************************)
(* wasm frame_tree_seeds: what an empty state is given before a frame tree  *)
(* is priced in it, so that a write costs what it cost on chain and a call  *)
(* pays for a new account only where there was none.  All there is to go by *)
(* is the transaction's prestate diff, which leaves out what ended as it    *)
(* began, the tree, and the struct logs.                                    *)
(*                                                                         *)
(* Every contract begins with 0 in every slot; which value of the model is  *)
(* the EVM's zero is a parameter, so that slots begin set as well as unset. *)
(***************************************************************************)
EXTENDS Walker

Changed(c) == {s \in Slot : Final.st[c][s] # Genesis.st[c][s]}

\* diffMode, as the node answers it: the changed slots, in pre and in post
\* unless they are zero there.
pre(c, zero) == {s \in Changed(c) : Genesis.st[c][s] # zero}
post(c, zero) == {s \in Changed(c) : Final.st[c][s] # zero}

\* Mutant: the order in which the frames are called.
call_order == [id \in DOMAIN tree |-> id]

\* Frame ids in the order the frames return.
return_order ==
  LET order[id \in DOMAIN tree] ==
        FlattenSeq([n \in DOMAIN tree[id].children |-> order[tree[id].children[n]]]) \o <<id>>
  IN  order[1]

\* The updates of the frames of c, the last write last.
UpdatesOf(c) ==
  FlattenSeq([n \in DOMAIN tree |->
    LET frame == tree[return_order[n]] IN IF frame.target = c THEN frame.updates ELSE <<>>])

\* A slot of pre began there; one only in post began at zero; one in neither
\* ended where it began, at the value last stored to it.
original_storage(c, updates, zero) ==
  LET stores(s) == {k \in DOMAIN updates : updates[k].op = "STORE" /\ updates[k].slot = s}
      last(s) == updates[Max(stores(s))].value
  IN  [s \in {t \in Slot : stores(t) # {}} |->
         IF s \in pre(c, zero) THEN Genesis.st[c][s]
         ELSE IF s \in post(c, zero) THEN zero
         ELSE last(s)]

\* Only code runs a frame.
callees_with_code ==
  {trace[i].to : i \in {j \in 1 .. Len(trace) - 1 :
     /\ trace[j].op = "CALL" /\ ~trace[j].error
     /\ trace[j + 1].depth = trace[j].depth + 1}}

Called == {trace[u.at].to : u \in UNION {{v \in Range(tree[f].updates) : v.op = "CALL"} : f \in DOMAIN tree}}

\* The called accounts that were not empty, as [nonce, balance]; listed is what
\* the diff says of those whose balance or nonce changed.
called_accounts(listed) ==
  LET has_code(c) == c \in callees_with_code \/ (c \in DOMAIN listed /\ listed[c].code)
      exists(c) == has_code(c) \/ (c \in DOMAIN listed /\ listed[c].nonce + listed[c].balance > 0)
  IN  [c \in {d \in Called : exists(d)} |->
         IF c \notin DOMAIN listed THEN [nonce |-> 1, balance |-> 0]
         ELSE [nonce |-> IF has_code(c) THEN Max({listed[c].nonce, 1}) ELSE listed[c].nonce,
               balance |-> listed[c].balance]]

-----------------------------------------------------------------------------
Returned(f) == IF f = 1 THEN Len(trace) ELSE Resume(tree[f].calldata_hash)

\* The storage of c does not move after its last frame has returned.
ClosedBy(c) ==
  LET last == Max({Returned(f) : f \in {g \in DOMAIN tree : tree[g].target = c}})
  IN  trace[last].world.st[c] = Final.st[c]

\* What the diff may say of a contract it lists: its nonce may be 0, and a node
\* may leave its code out.
Listings == [D \in SUBSET Contract |-> [D -> [nonce: {0, 2}, balance: {0}, code: BOOLEAN]]]

\* Whichever frames are siblings, re-enter their contract or were turned back,
\* and whatever native calls wrote between them, every slot a tree stores to
\* starts where the transaction found it, set or not, written back or not;
\* the exception is a contract written natively after its last frame.  And a
\* callee that ran code is never an empty account, whatever the diff lists.
SeedsOriginal ==
  (phase = "settle" /\ cursor = <<[frame |-> 1, pos |-> 1]>>) =>
    /\ \A c \in {tree[f].target : f \in DOMAIN tree} : ClosedBy(c) =>
         \A zero \in Value :
           LET seeds == original_storage(c, UpdatesOf(c), zero)
           IN  \A s \in DOMAIN seeds : seeds[s] = Genesis.st[c][s]
    /\ \A D \in SUBSET (Called \cap Contract) : \A listed \in Listings[D] :
         LET accounts == called_accounts(listed)
         IN  \A c \in Called \cap callees_with_code : c \in DOMAIN accounts /\ accounts[c].nonce > 0
=============================================================================
