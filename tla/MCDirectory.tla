---------------------------- MODULE MCDirectory ----------------------------
(***************************************************************************)
(* Accounts, provider profiles, the search for them and the suggestion of  *)
(* prices, for TLC.  The four keep no state together, so their steps       *)
(* commute and a behaviour of one is explored with the others at rest:     *)
(* serving is the service whose behaviour this is.                         *)
(***************************************************************************)
EXTENDS Accounts, Providers, MCSearch, Pricing

VARIABLE serving

directoryVars == <<serving, accountVars, providerVars, calls, parse, parseCache,
                   rank, search, pricing, priceCache>>

MCContexts ==
    {[category |-> "caterer", prices |-> <<>>, guests |-> 10],
     [category |-> "caterer", prices |-> <<2000, 9000, 5000, 2000>>, guests |-> 10],
     [category |-> "caterer", prices |-> <<2000, 9000, 5000, 2000>>, guests |-> 90]}

MCOpinions ==
    {[suggestedMin |-> 0, suggestedMax |-> 5000, recommended |-> Undefined],
     [suggestedMin |-> NaN, suggestedMax |-> 200000, recommended |-> 90000]}

Symmetry == Permutations(TokenIds) \cup Permutations(AuthRequests)

\* The types of all four, the unique e-mail addresses with them.
DirectoryTypeOK ==
    /\ AccountsTypeOK
    /\ ProvidersTypeOK
    /\ SearchTypeOK
    /\ PricingTypeOK

DirectoryInit ==
    /\ serving \in {"accounts", "providers", "search", "pricing"}
    /\ AccountsInit
    /\ ProvidersInit
    /\ SearchInit
    /\ PricingInit

DirectoryNext ==
    /\ UNCHANGED serving
    /\ \/ /\ serving = "accounts"
          /\ AccountsNext
          /\ UNCHANGED <<providerVars, searchVars, pricing, priceCache>>
       \/ /\ serving = "providers"
          /\ ProvidersNext
          /\ UNCHANGED <<accountVars, searchVars, pricing, priceCache>>
       \/ /\ serving = "search"
          /\ SearchNext
          /\ UNCHANGED <<accountVars, providerVars, pricing, priceCache>>
       \/ /\ serving = "pricing"
          /\ PricingNext
          /\ UNCHANGED <<accountVars, providerVars, parse, parseCache, rank, search>>

DirectorySpec == DirectoryInit /\ [][DirectoryNext]_directoryVars
=============================================================================
