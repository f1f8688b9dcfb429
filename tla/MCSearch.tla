------------------------------ MODULE MCSearch ------------------------------
(***************************************************************************)
(* A small market for Search: four providers, one of them not listed, two  *)
(* with the same rating; prices from 2 to 8, and searches that differ in   *)
(* what they give, leave to the model, sort by and page through.           *)
(***************************************************************************)
EXTENDS Search

MCProviderIds == {"a", "b", "c", "d"}

MCProfiles ==
    {[id |-> "a", category |-> "CHEF", city |-> "Lagos", averageRating |-> 45,
      prices |-> <<2, 8>>, tags |-> {"vegan"}, listed |-> TRUE,
      slots |-> {[isBooked |-> FALSE, startTime |-> 1, endTime |-> 3]}],
     [id |-> "b", category |-> "CHEF", city |-> Undefined, averageRating |-> 45,
      prices |-> <<6>>, tags |-> {"halal"}, listed |-> TRUE,
      slots |-> {[isBooked |-> TRUE, startTime |-> 1, endTime |-> 3]}],
     [id |-> "c", category |-> "BAKER", city |-> "Abuja", averageRating |-> 30,
      prices |-> <<>>, tags |-> {"vegan", "halal"}, listed |-> TRUE, slots |-> {}],
     [id |-> "d", category |-> "BAKER", city |-> "Lagos", averageRating |-> 50,
      prices |-> <<4>>, tags |-> {"vegan"}, listed |-> FALSE, slots |-> {}]}

\* Two spellings of one query, and a blank one.
MCQueries ==
    {[text |-> "vegan", spelling |-> "plain"], [text |-> "vegan", spelling |-> "loud"],
     [text |-> "", spelling |-> "plain"]}

NoFilters ==
    [category |-> Undefined, city |-> Undefined, minPrice |-> Undefined, maxPrice |-> Undefined,
     tags |-> Undefined, rating |-> Undefined, availableFrom |-> Undefined, availableTo |-> Undefined]

SearchFor(q, filters, sortBy, page, limit) ==
    [q |-> q, filters |-> filters, sortBy |-> sortBy, page |-> page, limit |-> limit]

MCDtos ==
    {SearchFor([text |-> "vegan", spelling |-> "plain"],
         [NoFilters EXCEPT !.category = "CHEF", !.maxPrice = 5], "ai", 1, 3),
     SearchFor([text |-> "vegan", spelling |-> "loud"], NoFilters, Undefined, 1, 3),
     SearchFor([text |-> "", spelling |-> "plain"], NoFilters, "rating", 2, 2),
     SearchFor(Undefined, [NoFilters EXCEPT !.tags = {"vegan"}, !.availableFrom = 2,
                                       !.availableTo = 3], "price", 1, 2),
     SearchFor(Undefined, [NoFilters EXCEPT !.minPrice = 5, !.maxPrice = 7,
                                       !.rating = 40], "price", 1, 1)}

\* The model reads a wish for vegan food, with a price or without one.
MCParses ==
    {[NothingParsed EXCEPT !.tags = {"vegan", "halal"}, !.maxPrice = 8],
     [NothingParsed EXCEPT !.category = "BAKER", !.maxPrice = JsonNull]}

\* The model ranks nobody, turns the order round, or forgets a score.
MCAnnotations ==
    {[x \in {} |-> Undefined], [x \in {"a", "c"} |-> IF x = "a" THEN 10 ELSE 90], [x \in {"b"} |-> Undefined]}
=============================================================================
