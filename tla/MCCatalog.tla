------------------------------ MODULE MCCatalog ------------------------------
(***************************************************************************)
(* Small instances of what the indexer's loops write beside the analyses:  *)
(* Labels, Selectors and Prices.  Their state is disjoint, so a behaviour  *)
(* follows one of them: focus says which.                                  *)
(***************************************************************************)
EXTENDS Labels, Selectors, Prices, TLC

CONSTANTS
  a1, a2, s1, s2, f1, f2

VARIABLE focus

catalogVars == <<labelVars, selVars, priceVars, focus>>

-----------------------------------------------------------------------------
\* The overlay lists a1 twice; DefiLlama lists it under another project, and a2
\* on another chain.
MCOverlay == <<[addr |-> a1, slug |-> s2], [addr |-> a1, slug |-> s1]>>
MCLlama == <<[prefix |-> "ethereum", addr |-> a1, slug |-> s2],
             [prefix |-> "other", addr |-> a2, slug |-> s1]>>

\* The worker read the overlay before it listed a1.
MCWorkerFile == <<>>

\* a1's name is in no dictionary; a2's, known to Blockscout alone, is, once its
\* last word is cut off.
MCDict == <<"uniswap", "v2">> :> s2
MCEtherscan ==
  a1 :> [shape |-> "rows", names |-> <<<<"vault">>>>] @@ a2 :> [shape |-> "rows", names |-> <<>>]
MCBlockscout ==
  a1 :> [smart_contract |-> <<>>, name |-> <<>>, implementation |-> <<>>]
  @@ a2 :> [smart_contract |-> <<>>, name |-> <<<<"uniswap", "v2", "router02">>>>,
            implementation |-> <<>>]

MCFourByte ==
  f1 :> {[id |-> 2, sig |-> "b"], [id |-> 1, sig |-> "a"]} @@ f2 :> {}

-----------------------------------------------------------------------------
CatalogInit ==
  /\ LabelsInit /\ SelectorsInit /\ PricesInit
  /\ focus \in {"labels", "selectors", "prices"}

OnLabels    == focus = "labels" /\ LabelsNext /\ UNCHANGED <<selVars, priceVars>>
OnSelectors == focus = "selectors" /\ SelectorsNext /\ UNCHANGED <<labelVars, priceVars>>
OnPrices    == focus = "prices" /\ PricesNext /\ UNCHANGED <<labelVars, selVars>>

CatalogNext == (OnLabels \/ OnSelectors \/ OnPrices) /\ UNCHANGED focus

\* The loops of Labels are always enabled, so fairness asks for them only where
\* they are followed; those of Selectors are enabled only there.
CatalogSpec ==
  /\ CatalogInit /\ [][CatalogNext]_catalogVars
  /\ focus = "labels" => LabelsFairness
  /\ SelectorsFairness
=============================================================================
