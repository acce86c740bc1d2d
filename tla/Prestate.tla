------------------------------ MODULE Prestate ------------------------------
(***************************************************************************)
(* prestate.rs: the net form of a program, built from the net storage diff  *)
(* of prestateTracer and the call tree of callTracer.  Both tracers are     *)
(* external; what they answer is read off the execution: a frame per call,  *)
(* inline calls included, with its type, its failure and its logs.          *)
(***************************************************************************)
EXTENDS Settlement, SequencesExt

\* The frames of callTracer are named by the logs that open them.
CallFrames ==
  {i \in DOMAIN trace : /\ trace[i].op \in {"CALL", "STATICCALL", "DELEGATECALL", "CREATE"}
                        /\ ~trace[i].error}

Encloses(i, k) == i < k /\ k < Resume(i)

\* Log or frame k is at target depth: in the root or in frames it delegates to.
AtTargetDepth(k) ==
  \A i \in CallFrames : Encloses(i, k) => trace[i].op = "DELEGATECALL"

account_storage_changed(c) == \E s \in Slot : Final.st[c][s] # 0

\* classify_prestate_eligibility: no other account's storage changes, and only
\* delegated and static calls at target depth.
PrestateEligible ==
  /\ \A c \in Contract \ {Root} : ~account_storage_changed(c)
  /\ \A i \in CallFrames : AtTargetDepth(i) => trace[i].op \in {"DELEGATECALL", "STATICCALL"}

\* Variant: the events of failed frames are kept, as some tracers report them.
ordered_target_depth_logs_all ==
  SetToSortSeq({k \in DOMAIN trace : trace[k].op = "LOG" /\ ~trace[k].error /\ AtTargetDepth(k)},
               LAMBDA a, b : a < b)

\* The events at target depth in emission order, those of failed frames left out.
ordered_target_depth_logs ==
  SetToSortSeq({k \in DOMAIN trace :
                  /\ trace[k].op = "LOG" /\ ~trace[k].error /\ AtTargetDepth(k)
                  /\ \A i \in CallFrames : Encloses(i, k) => Succeeded(i)},
               LAMBDA a, b : a < b)

\* One store per changed slot, in slot order, then the events.
build_state_updates_from_prestate ==
  LET changed == SetToSortSeq({s \in Slot : Final.st[Root][s] # 0}, LAMBDA a, b : a < b)
  IN  [k \in DOMAIN changed |->
         [op |-> "STORE", slot |-> changed[k], value |-> Final.st[Root][changed[k]], at |-> 0]]
      \o [k \in DOMAIN ordered_target_depth_logs |->
         [op |-> "LOG", slot |-> 0, value |-> 0, at |-> ordered_target_depth_logs[k]]]
=============================================================================
