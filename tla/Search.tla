------------------------------- MODULE Search -------------------------------
(***************************************************************************)
(* SearchService.searchProviders: a query in free text is parsed           *)
(* (SearchParsing), its filters are merged with the explicit ones, a page  *)
(* of providers is read, and the page is ranked (Matchmaking).             *)
(***************************************************************************)
EXTENDS SearchParsing, Matchmaking, SequencesExt

CONSTANTS
    Profiles,   \* the provider profiles: records, see Matches and Candidate
    Dtos,       \* the searches that are made: records, see MergedFilters
    JsonNull    \* null, which a parsed maxPrice may be, and not undefined

\* Rows of a table: finitely many, told apart by their id.
ASSUME ProfilesAssumption ==
    /\ IsFiniteSet(Profiles)
    /\ \A p, q \in Profiles : p.id = q.id => p = q
    /\ \A p \in Profiles :
          p.id \in ProviderIds /\ p.averageRating \in Nat /\ p.prices \in Seq(Nat)

FilterNames == {"category", "city", "minPrice", "maxPrice", "tags", "rating",
                "availableFrom", "availableTo"}

\* What the DTO's validators let through.
ASSUME DtosAssumption ==
    \A dto \in Dtos :
        /\ dto.q \in Queries \cup {Undefined}
        /\ DOMAIN dto.filters = FilterNames
        /\ dto.filters.maxPrice \in Int \cup {Undefined}
        /\ dto.page \in Nat \ {0} /\ dto.limit \in Nat \ {0}

VARIABLE search     \* the search in each slot, with its program counter

searchVars == <<calls, parse, parseCache, rank, search>>

ProfileOf(id) == CHOOSE p \in Profiles : p.id = id

-----------------------------------------------------------------------------
\* Mutant: the parsed value wins.
Merge_Parsed(explicit, parsed) == IF parsed # Undefined THEN parsed ELSE explicit

\* dto.x ?? aiFilters.x
Merge(explicit, parsed) == IF explicit # Undefined THEN explicit ELSE parsed

\* What can be parsed out of a query; a fallback has none of it.
NothingParsed ==
    [category |-> Undefined, city |-> Undefined, maxPrice |-> Undefined, tags |-> Undefined,
     availableFrom |-> Undefined, availableTo |-> Undefined]

\* minPrice and rating are only ever explicit.
MergedFilters(dto, parsed) ==
    LET ai == IF parsed = Undefined THEN NothingParsed ELSE parsed
    IN  [f \in DOMAIN dto.filters |->
            IF f \in DOMAIN ai THEN Merge(dto.filters[f], ai[f])
            ELSE dto.filters[f]]

\* Of a price, a rating or a time: a limit that is not given is no limit.
AtLeast(x, limit) == limit = Undefined \/ x >= limit
AtMost(x, limit)  == limit = Undefined \/ x <= limit

\* The where clause.  Limits of the price hold for one pricing item, limits
\* of the time for one free slot, which begins and ends around them.
Matches(p, f) ==
    /\ p.listed         \* isAvailable, and the user is active
    /\ f.category \in {Undefined, p.category}
    /\ f.city \in {Undefined, p.city}
    /\ AtLeast(p.averageRating, f.rating)
    /\ <<f.minPrice, f.maxPrice>> # <<Undefined, Undefined>> =>
          \E price \in Range(p.prices) :
              AtLeast(price, f.minPrice) /\ AtMost(price, f.maxPrice)
    /\ f.tags \notin {Undefined, {}} => p.tags \cap f.tags # {}
    /\ <<f.availableFrom, f.availableTo>> # <<Undefined, Undefined>> =>
          \E slot \in p.slots :
              /\ ~slot.isBooked
              /\ AtMost(slot.startTime, f.availableFrom)
              /\ AtLeast(slot.endTime, f.availableTo)

\* sortBy 'price' orders by the number of pricing items; what else is equal
\* comes in any order.
Before(sortBy, p, q) ==
    IF sortBy = "price" THEN Len(p.prices) < Len(q.prices)
    ELSE p.averageRating > q.averageRating

Listings(matching, sortBy) ==
    {s \in SetToSeqs(matching) :
        \A i, j \in DOMAIN s : Before(sortBy, s[i], s[j]) => i < j}

Skipped(dto) == (dto.page - 1) * dto.limit

PageOf(s, dto) ==
    SubSeq(s, Skipped(dto) + 1, Min({Skipped(dto) + dto.limit, Len(s)}))

\* The candidate that is ranked for a profile: its base price is that of its
\* first pricing item.
Candidate(p) ==
    [id |-> p.id, city |-> p.city, averageRating |-> p.averageRating,
     basePrice |-> IF p.prices = <<>> THEN Undefined ELSE p.prices[1]]

\* The filters the ranking knows are the explicit ones only.
Buyer(dto) == [location |-> dto.filters.city, budget |-> dto.filters.maxPrice]

\* A provider without a score counts as 0.
OrZero(score) == IF score = Undefined THEN 0 ELSE score

-----------------------------------------------------------------------------
NoSearch == [pc |-> "none"]

Ids == {p.id : p \in Profiles}

SearchSlot ==
    {NoSearch}
    \cup [pc: {"failed"}, dto: Dtos]
    \cup [pc: {"parse", "fetch"}, dto: Dtos,
          parsed: ParsedFilters \cup {Undefined}]
    \cup [pc: {"rank", "answered"}, dto: Dtos,
          page: UNION {[1 .. n -> Profiles] : n \in 0 .. Cardinality(Profiles)},
          total: 0 .. Cardinality(Profiles), annotated: SUBSET Ids]

SearchTypeOK ==
    /\ CallsTypeOK
    /\ ParsingTypeOK
    /\ \A c \in Callers : rank[c] # NoRank =>
          /\ rank[c].pc \in {"ask", "done"}
          /\ Range(rank[c].candidates) = DOMAIN rank[c].scores
    /\ search \in [Callers -> SearchSlot]

SearchInit ==
    /\ CallsInit
    /\ ParsingInit
    /\ RankingInit
    /\ search = [c \in Callers |-> NoSearch]

SearchGoTo(c, s) == search' = [search EXCEPT ![c] = s]

BeginSearch(c, dto) ==
    /\ search[c] = NoSearch
    /\ SearchGoTo(c, [pc |-> IF dto.q = Undefined THEN "fetch" ELSE "parse",
                      dto |-> dto, parsed |-> Undefined])
    /\ IF dto.q = Undefined THEN UNCHANGED parse ELSE BeginParse(c, dto.q)
    /\ UNCHANGED <<calls, parseCache, rank>>

TakeParsed(c) ==
    /\ search[c].pc = "parse"
    /\ Parsed(c)
    /\ SearchGoTo(c, [search[c] EXCEPT !.pc = "fetch", !.parsed = parse[c].result])
    /\ ParseTaken(c)
    /\ UNCHANGED <<calls, parseCache, rank>>

\* The filters of the search in slot c.
Filters(c) ==
    LET s == search[c]
    IN  MergedFilters(s.dto, IF s.parsed = Undefined THEN Undefined ELSE s.parsed.filters)

\* findMany and count, side by side.  Without a sort order, or with 'ai', the
\* page is ranked.
Fetch(c) ==
    LET s        == search[c]
        filters  == Filters(c)
        matching == {p \in Profiles : Matches(p, filters)}
        ranks    == s.dto.sortBy \in {"ai", Undefined}
    IN  /\ s.pc = "fetch"
        /\ filters.maxPrice # JsonNull
        /\ \E listing \in Listings(matching, s.dto.sortBy) :
              LET page == PageOf(listing, s.dto)
              IN  /\ SearchGoTo(c, [pc |-> IF ranks THEN "rank" ELSE "answered",
                                    dto |-> s.dto, page |-> page,
                                    total |-> Cardinality(matching),
                                    annotated |-> {}])
                  /\ IF ranks
                     THEN BeginRanking(c, Buyer(s.dto),
                              [i \in DOMAIN page |-> Candidate(page[i])])
                     ELSE UNCHANGED <<calls, rank>>
        /\ UNCHANGED <<parse, parseCache>>

\* A limit that is null gets into the where clause, for it is not undefined,
\* and Prisma refuses it: the search throws.
FetchRefused(c) ==
    /\ search[c].pc = "fetch"
    /\ Filters(c).maxPrice = JsonNull
    /\ SearchGoTo(c, [pc |-> "failed", dto |-> search[c].dto])
    /\ UNCHANGED <<calls, parse, parseCache, rank>>

\* The page is sorted by the scores of the ranking.
TakeRanked(c) ==
    LET s == search[c]
        score == [i \in DOMAIN s.page |-> OrZero(rank[c].scores[s.page[i].id])]
    IN  /\ s.pc = "rank"
        /\ Ranked(c)
        /\ SearchGoTo(c, [s EXCEPT !.pc = "answered",
                                   !.page = Sorted(s.page, score),
                                   !.annotated = rank[c].annotated])
        /\ RankingTaken(c)
        /\ UNCHANGED <<calls, parse, parseCache>>

\* The caller has read the answer; the slot takes the next search.
EndSearch(c) ==
    /\ search[c].pc \in {"answered", "failed"}
    /\ SearchGoTo(c, NoSearch)
    /\ UNCHANGED <<calls, parse, parseCache, rank>>

SearchProceeds(c) ==
    \/ ParseProceeds(c) /\ UNCHANGED <<rank, search>>
    \/ TakeParsed(c)
    \/ Fetch(c)
    \/ FetchRefused(c)
    \/ RankingProceeds(c) /\ UNCHANGED <<parse, parseCache, search>>
    \/ TakeRanked(c)

SearchNext ==
    \/ \E c \in Callers :
          \/ \E dto \in Dtos : BeginSearch(c, dto)
          \/ SearchProceeds(c)
          \/ EndSearch(c)
    \/ \E k \in Keys : ParseExpires(k) /\ UNCHANGED <<rank, search>>

SearchSpec == SearchInit /\ [][SearchNext]_searchVars

-----------------------------------------------------------------------------
\* "Explicit DTO fields override AI-parsed values (caller intent wins)": with
\* or without the model and the cache of others' parses, a provider that is
\* answered meets every filter the caller gave, and is listed.
SearchHonoursCaller ==
    \A c \in Callers : search[c].pc = "answered" =>
        \A p \in Range(search[c].page) : Matches(p, search[c].dto.filters)

\* Where the model has said nothing, because it failed, because it was shown
\* only the top candidates or left one of them out, the order is that of the
\* deterministic scores.
UnannotatedKeepOrder ==
    \A c \in Callers :
        LET s == search[c]
            Det(p) == DeterministicScore(Buyer(s.dto), Candidate(p))
        IN  s.pc = "answered" /\ s.dto.sortBy \in {"ai", Undefined} =>
                \A i, j \in DOMAIN s.page :
                    /\ {s.page[i].id, s.page[j].id} \cap s.annotated = {}
                    /\ Det(s.page[i]) > Det(s.page[j])
                    => i < j

(***************************************************************************)
(* What the documentation says and the code does not keep.                 *)
(***************************************************************************)
\* search-parsing.prompt.txt, "all fields optional": a query that names no
\* price is searched for without one.
NoSearchFails == \A c \in Callers : search[c].pc # "failed"
=============================================================================
