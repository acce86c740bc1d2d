-------------------------------- MODULE Names --------------------------------
(***************************************************************************)
(* What the label sources say of a contract and of a selector, and the     *)
(* dictionary that turns a contract's name into a project's slug.          *)
(*                                                                         *)
(* A name is the sequence of its dash-separated words after normalisation  *)
(* (UniswapV2Router02 is <<"uniswap", "v2", "router02">>); the blank name  *)
(* is the empty sequence.                                                  *)
(***************************************************************************)
EXTENDS Integers, Sequences, FiniteSetsExt

Failed == [status |-> "error"]
Unverified == [status |-> "unverified"]
Verified(name) == [status |-> "verified", name |-> name]

\* Etherscan answers with a message, which is an error, or with rows.
etherscan_get_contract_name(answer) ==
  CASE answer.shape = "message" -> Failed
    [] answer.shape = "rows" /\ (answer.names = <<>> \/ Head(answer.names) = <<>>) -> Unverified
    [] OTHER -> Verified(Head(answer.names))

\* Blockscout's name fields, each absent (<<>>) or one name, in the order they
\* are asked: the first one present decides, even when it is blank.
blockscout_get_contract_name(answer) ==
  LET present == answer.smart_contract \o answer.name \o answer.implementation IN
  IF present = <<>> \/ Head(present) = <<>> THEN Unverified ELSE Verified(Head(present))

\* Blockscout is asked when Etherscan fails or has no verified source.  It
\* replaces a failure whatever it says, and the other only by a name.
ContractMeta(etherscan, blockscout) ==
  IF \/ etherscan.status = "error"
     \/ etherscan.status = "unverified" /\ blockscout.status = "verified"
  THEN blockscout ELSE etherscan

Suffixes == {"router02", "routerv2", "router", "implementation", "proxy", "token",
             "v4", "v3", "v2", "v1"}
MaxStrips == 4

\* The name and its forms with up to four role or version words cut off.
Stripped(name) ==
  {k \in 0..MaxStrips :
     /\ k < Len(name) \/ k = 0
     /\ \A i \in (Len(name) - k + 1)..Len(name) : name[i] \in Suffixes}

Form(name, k) == SubSeq(name, 1, Len(name) - k)

\* The slugs of the longest form the dictionary has: one, or none.
lookup(dict, name) ==
  LET hits == {k \in Stripped(name) : Form(name, k) \in DOMAIN dict}
  IN {dict[Form(name, k)] : k \in {j \in hits : \A i \in hits : j <= i}}

\* 4byte's answer is a set of [id, sig]: the lowest id is the canonical one.
fourbyte_lookup(results) == {r.sig : r \in {q \in results : \A p \in results : q.id <= p.id}}
=============================================================================
