------------------------------- MODULE Hybrid -------------------------------
(***************************************************************************)
(* evmsketch extract_state_updates_hybrid: one traced call, encoded under   *)
(* the deployment's StateEncoding.  PrestateNet falls back to the canonical *)
(* encoder when the call has no net form.                                   *)
(***************************************************************************)
EXTENDS Walker, Legacy, Prestate

CONSTANT Encodings   \* the StateEncodings considered

VARIABLE encoding    \* the StateEncoding the call is encoded under, once it is traced

hybridVars == <<vars, encoding>>

HybridInit == Init /\ encoding = "none"

Choose ==
  /\ halted /\ encoding = "none"
  /\ encoding' \in Encodings
  /\ UNCHANGED vars

Single(updates) == <<[target |-> Root, index |-> NoIndex, updates |-> updates, children |-> <<>>]>>

ExtractLegacy ==
  /\ phase = "trace" /\ halted /\ encoding = "Legacy"
  /\ LET result == compute_state_updates
     IN  \/ /\ LegacyFails(result) \/ LegacyPanics(result)
            /\ phase' = IF LegacyFails(result) THEN "failed" ELSE "panicked"
            /\ UNCHANGED <<settlementVars, totals, skipped>>
         \/ /\ ~LegacyFails(result) /\ ~LegacyPanics(result)
            /\ Submit(Single(result.updates))
            /\ totals' = [totals EXCEPT !.call_gas = result.call_gas,
                                        !.create_gas = result.create_gas]
            /\ skipped' = result.skipped_opcodes
            /\ phase' = "settle"
  /\ UNCHANGED <<pos, scan, w, evmVars, encoding>>

ExtractNet ==
  /\ phase = "trace" /\ halted /\ encoding = "PrestateNet"
  /\ PrestateEligible
  /\ Submit(Single(build_state_updates_from_prestate))
  /\ phase' = "settle"
  /\ UNCHANGED <<pos, scan, w, skipped, totals, evmVars, encoding>>

\* The canonical encoder, chosen or fallen back to.
ExtractCanonical ==
  /\ \/ encoding = "Canonical"
     \/ encoding = "PrestateNet" /\ halted /\ ~PrestateEligible
  /\ Scan \/ Walk \/ Split
  /\ UNCHANGED encoding

HybridNext ==
  \/ Execute /\ UNCHANGED <<settlementVars, walkVars, encoding>>
  \/ Choose
  \/ ExtractLegacy
  \/ ExtractNet
  \/ ExtractCanonical
  \/ Apply /\ UNCHANGED <<walkVars, encoding>>
  \/ Done /\ UNCHANGED encoding

HybridSpec == HybridInit /\ [][HybridNext]_hybridVars

-----------------------------------------------------------------------------
\* What StateEncoding::Legacy does not look at: a delegated frame of the root's
\* scope that failed, whose updates leak into the program.
Leaks ==
  \E i \in CallFrames : trace[i].op = "DELEGATECALL" /\ AtTargetDepth(i) /\ ~Succeeded(i)

Exact == phase = "settle" /\ (encoding = "Legacy" => ~Leaks)

\* Whatever the encoding, external code run by the settlement finds the traced
\* world, re-entrant writes included (legacy: unless a delegated frame failed).
EncodingsInSync == Exact => BoundaryInSync

\* Whatever the encoding, a settlement that goes through reaches the traced
\* storage and emits the traced events (legacy: unless a delegated frame failed).
EncodingsReachTracedWorld == Exact => ReachesTracedWorld

\* An extraction fails only for a create of the root's scope that failed, and the
\* depth counting of the legacy encoder never loses a call (its panic).
RejectsOnlyCreates ==
  /\ phase # "panicked"
  /\ phase = "failed" =>
       \E i \in DOMAIN trace :
         /\ trace[i].op = "CREATE" /\ AtTargetDepth(i)
         /\ IF trace[i].error THEN encoding = "Legacy" ELSE ~Succeeded(i)
=============================================================================
