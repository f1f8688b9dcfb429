--------------------------- MODULE DirectoryProofs ---------------------------
(***************************************************************************)
(* What is proved of accounts, profiles, search and prices, each alone,    *)
(* holds of the instance that composes them.  Accounts and profiles have   *)
(* their variables to themselves; search and prices share the calls of the *)
(* client, so each of the two is at rest while the other is served.        *)
(***************************************************************************)
EXTENDS MCDirectory, AccountsProofs, ProvidersProofs, GroqCallersProofs

\* A service at rest: nobody has asked it for anything.
SearchRests == ParsingInit /\ RankingInit /\ search = [c \in Callers |-> NoSearch]

PricingRests ==
    /\ pricing = [c \in Callers |-> NoPricing]
    /\ priceCache = [k \in PriceKeys |-> Undefined]

LEMMA DirectoryStep ==
  ASSUME [DirectoryNext]_directoryVars
  PROVE  /\ [AccountsNext]_accountVars
         /\ [ProvidersNext]_providerVars
         /\ serving' = serving
         /\ serving # "pricing" => [SearchNext]_searchVars
         /\ serving # "search" => [PricingNext]_priceVars
         /\ serving = "pricing" => (SearchRests => SearchRests')
         /\ serving = "search" => (PricingRests => PricingRests')
<1>1. CASE UNCHANGED directoryVars
  BY <1>1 DEF directoryVars, searchVars, priceVars, SearchRests, PricingRests,
              ParsingInit, RankingInit
<1>2. CASE DirectoryNext
  BY <1>2 DEF DirectoryNext, searchVars, priceVars, SearchRests, PricingRests,
              ParsingInit, RankingInit
<1> QED
  BY <1>1, <1>2

\* A step of the instance is a step of accounts, and of profiles, or none.
THEOREM DirectoryServesEach == DirectorySpec => AccountsSpec /\ ProvidersSpec
<1>1. DirectoryInit => AccountsInit /\ ProvidersInit
  BY DEF DirectoryInit
<1>2. [DirectoryNext]_directoryVars
         => [AccountsNext]_accountVars /\ [ProvidersNext]_providerVars
  BY DirectoryStep
<1> QED
  BY <1>1, <1>2, PTL DEF DirectorySpec, AccountsSpec, ProvidersSpec

\* The search behaves as it does alone, or prices are served and it rests.
LEMMA DirectorySearches ==
  DirectorySpec => SearchSpec \/ ([]SearchRests /\ PricingSpec)
<1>1. DirectoryInit => SearchInit /\ PricingInit /\ SearchRests
  BY DEF DirectoryInit, SearchInit, SearchRests
<1>2. [DirectoryNext]_directoryVars /\ serving # "pricing"
         => [SearchNext]_searchVars /\ (serving # "pricing")'
  BY DirectoryStep
<1>3. [DirectoryNext]_directoryVars /\ ~(serving # "pricing") /\ SearchRests
         => [PricingNext]_priceVars /\ ~(serving # "pricing")' /\ SearchRests'
  BY DirectoryStep
<1> QED
  BY <1>1, <1>2, <1>3, PTL DEF DirectorySpec, SearchSpec, PricingSpec

\* So do prices.
LEMMA DirectoryPrices ==
  DirectorySpec => PricingSpec \/ ([]PricingRests /\ SearchSpec)
<1>1. DirectoryInit => SearchInit /\ PricingInit /\ PricingRests
  BY DEF DirectoryInit, PricingInit, PricingRests
<1>2. [DirectoryNext]_directoryVars /\ serving # "search"
         => [PricingNext]_priceVars /\ (serving # "search")'
  BY DirectoryStep
<1>3. [DirectoryNext]_directoryVars /\ ~(serving # "search") /\ PricingRests
         => [SearchNext]_searchVars /\ ~(serving # "search")' /\ PricingRests'
  BY DirectoryStep
<1> QED
  BY <1>1, <1>2, <1>3, PTL DEF DirectorySpec, SearchSpec, PricingSpec

LEMMA SearchRestsTyped == SearchRests /\ CallsTypeOK => SearchTypeOK
<1> SUFFICES ASSUME SearchRests, CallsTypeOK PROVE SearchTypeOK
  OBVIOUS
<1>1. ParsingTypeOK
  BY DEF SearchRests, ParsingInit, ParsingTypeOK, ParseSlot, NoParse
<1>2. \A c \in Callers : rank[c] = NoRank
  BY DEF SearchRests, RankingInit
<1>3. search \in [Callers -> SearchSlot]
  BY DEF SearchRests, SearchSlot, NoSearch
<1> QED
  BY <1>1, <1>2, <1>3 DEF SearchTypeOK

LEMMA PricingRestsTyped == PricingRests /\ CallsTypeOK => PricingTypeOK
  BY DEF PricingRests, PricingTypeOK, PriceSlot, NoPricing

\* The tables, the caches and the requests of all four have the types of their
\* columns and payloads, and no two users share an address.
THEOREM DirectoryTypeCorrect == DirectorySpec => []DirectoryTypeOK
<1>1. SearchTypeOK => CallsTypeOK
  BY DEF SearchTypeOK
<1>2. PricingTypeOK => CallsTypeOK
  BY DEF PricingTypeOK
<1>3. AccountsTypeOK /\ ProvidersTypeOK /\ SearchTypeOK /\ PricingTypeOK => DirectoryTypeOK
  BY DEF DirectoryTypeOK
<1>4. DirectorySpec => []SearchTypeOK
  BY <1>2, DirectorySearches, SearchRestsTyped, SearchTypeCorrect,
     PricingTypeCorrect, PTL
<1>5. DirectorySpec => []PricingTypeOK
  BY <1>1, DirectoryPrices, PricingRestsTyped, SearchTypeCorrect,
     PricingTypeCorrect, PTL
<1> QED
  BY <1>3, <1>4, <1>5, DirectoryServesEach, AccountsTypeCorrect,
     ProvidersTypeCorrect, PTL

\* Sessions, tags and the score among the other services: what is promised of
\* them alone.
THEOREM DirectoryKeepsProfiles ==
  DirectorySpec => /\ []LogoutEndsSessions
                   /\ []RefreshAddsNoSession
                   /\ []TagsSynced
                   /\ []ScoreIsCurrent
  BY DirectoryServesEach, LogoutLasts, RefreshMultipliesNothing, TagsAreSynced,
     ScoreStaysCurrent, PTL

\* The filters and the order of a search, what is kept of parses and the
\* suggested prices, whichever of the two services has the calls.
THEOREM DirectoryKeepsAnswers ==
  DirectorySpec => /\ []SearchHonoursCaller
                   /\ []UnannotatedKeepOrder
                   /\ []CachedParseFits
                   /\ []SuggestionNearBaseline
                   /\ []MedianSplits
                   /\ []CallInTime
<1>1. SearchRests => SearchHonoursCaller /\ UnannotatedKeepOrder
  BY DEF SearchRests, NoSearch, SearchHonoursCaller, UnannotatedKeepOrder
<1>2. SearchRests => CachedParseFits
  BY DEF SearchRests, ParsingInit, CachedParseFits
<1>3. PricingRests => SuggestionNearBaseline /\ MedianSplits
  BY DEF PricingRests, NoPricing, SuggestionNearBaseline, MedianSplits
<1>4. DirectorySpec => []SearchHonoursCaller /\ []UnannotatedKeepOrder /\ []CachedParseFits
  BY <1>1, <1>2, DirectorySearches, SearchesHonourCaller,
     UnannotatedKeepTheirOrder, CachedParsesFit, PTL
<1>5. DirectorySpec => []SuggestionNearBaseline /\ []MedianSplits
  BY <1>3, DirectoryPrices, SuggestionsStayNear, MediansSplit, PTL
<1>6. DirectorySpec => []CallInTime
  BY DirectorySearches, CallsEndInTime, PTL
<1> QED
  BY <1>4, <1>5, <1>6, PTL
=============================================================================
