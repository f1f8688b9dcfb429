------------------------------ MODULE Pricing ------------------------------
(***************************************************************************)
(* PricingService.suggestPrice, for ProvidersService.getPriceSuggestion: a *)
(* baseline from comparable prices, which the model may move, but only so  *)
(* far.  Prices are whole; amounts in between are kept in eightieths.      *)
(***************************************************************************)
EXTENDS GroqClient, Sequences

CONSTANTS
    Contexts,   \* the requests: records of a category, the prices (a
                \* sequence), the number of guests
    Opinions,   \* what the model may say: records of suggestedMin,
                \* suggestedMax and recommended, Undefined where it says
                \* nothing, NaN where what it says is no number
    NaN

ASSUME ContextsAssumption == \A ctx \in Contexts : ctx.prices \in Seq(Nat)

VARIABLES
    pricing,    \* the request in each slot, with its program counter
    priceCache  \* the cache: from cache keys to suggestions

priceVars == <<calls, pricing, priceCache>>

-----------------------------------------------------------------------------
(***************************************************************************)
(* calculateStatisticalBaseline.                                           *)
(***************************************************************************)
\* Without prices: the median and the IQR by what the category is called.
Defaults(category) ==
    CASE category = "catering"             -> [median |-> 150000, iqr |-> 50000]
      [] category \in {"meal_prep", "meal_prep_subscription", "subscription"}
                                           -> [median |-> 50000, iqr |-> 15000]
      [] category \in {"farm_supply", "farmer"}
                                           -> [median |-> 80000, iqr |-> 20000]
      [] category \in {"event_bartending", "bartender"}
                                           -> [median |-> 60000, iqr |-> 15000]
      [] OTHER                             -> [median |-> 100000, iqr |-> 30000]

\* The i-th smallest of the prices, counted from zero.
Smallest(s, i) ==
    CHOOSE x \in Range(s) :
        /\ Cardinality({j \in DOMAIN s : s[j] < x}) <= i
        /\ Cardinality({j \in DOMAIN s : s[j] <= x}) > i

\* Mutant: the prices are taken as they come.
Ordered_AsGiven(s) == [i \in 0 .. (Len(s) - 1) |-> s[i + 1]]

Ordered(s) == [i \in 0 .. (Len(s) - 1) |-> Smallest(s, i)]

\* In eightieths.
Median(s) ==
    LET mid == Len(s) \div 2
    IN  IF Len(s) % 2 = 1 THEN 80 * Ordered(s)[mid]
        ELSE 40 * (Ordered(s)[mid - 1] + Ordered(s)[mid])

\* The percentile of k quarters, between two prices in proportion.
Quartile(s, k) ==
    LET idx  == (Len(s) - 1) * k
        base == idx \div 4
    IN  80 * Ordered(s)[base] +
        IF base + 1 \in DOMAIN Ordered(s)
        THEN 20 * (idx % 4) * (Ordered(s)[base + 1] - Ordered(s)[base]) ELSE 0

\* A fifth of the median where the quartiles are equal.
Iqr(s) ==
    IF Quartile(s, 3) = Quartile(s, 1) THEN Median(s) \div 5
    ELSE Quartile(s, 3) - Quartile(s, 1)

\* Math.round(n / d)
Round(n, d) == (2 * n + d) \div (2 * d)

\* No suggestion starts below 1000.
Lower(median, spread) ==
    IF spread + 80 * 1000 > median THEN 80 * 1000 ELSE median - spread

Baseline(ctx) ==
    LET s      == ctx.prices
        median == IF s = <<>> THEN 80 * Defaults(ctx.category).median ELSE Median(s)
        iqr    == IF s = <<>> THEN 80 * Defaults(ctx.category).iqr ELSE Iqr(s)
        spread == (3 * iqr) \div 2
    IN  [suggestedMin |-> Round(Lower(median, spread), 80),
         suggestedMax |-> Round(median + spread, 80),
         recommended  |-> Round(median, 80)]

-----------------------------------------------------------------------------
\* Mutant: the prices are not in the key.
KeyOf_Category(ctx) == <<ctx.category, <<>>>>

\* The category and the prices are; the guests, the duration and the type of
\* the event are not.  One city, rating and day.
KeyOf(ctx) == <<ctx.category, ctx.prices>>

PriceKeys == {<<ctx.category, ctx.prices>> : ctx \in Contexts}
                 \cup {<<ctx.category, <<>>>> : ctx \in Contexts}

\* Thirty percent up or down, and no further.
Clamp(x, base) == Round(Min({13 * base, Max({7 * base, 10 * x})}), 10)

Figures == {"suggestedMin", "suggestedMax", "recommended"}

ASSUME OpinionsAssumption ==
    \A opinion \in Opinions, f \in Figures : opinion[f] \in Int \cup {Undefined, NaN}

\* parsed.x ?? stats.x; what is no number comes through the clamp.
Adjusted(opinion, stats) ==
    [f \in Figures |->
        CASE opinion[f] = Undefined -> Clamp(stats[f], stats[f])
          [] opinion[f] = NaN       -> NaN
          [] OTHER                  -> Clamp(opinion[f], stats[f])]

Suggestion == [figures: [Figures -> Nat \cup {NaN}], aiFallback: BOOLEAN]

PriceSlot ==
    [pc: {"lookup", "ask", "store", "answered"}, ctx: Contexts,
     suggestion: Suggestion]
        \cup {[pc |-> "none"]}

NoPricing == [pc |-> "none"]

PricingTypeOK ==
    /\ CallsTypeOK
    /\ pricing \in [Callers -> PriceSlot]
    /\ priceCache \in [PriceKeys -> Suggestion \cup {Undefined}]

PricingInit ==
    /\ CallsInit
    /\ pricing = [c \in Callers |-> NoPricing]
    /\ priceCache = [k \in PriceKeys |-> Undefined]

PriceGoTo(c, pc, suggestion) ==
    pricing' = [pricing EXCEPT ![c].pc = pc, ![c].suggestion = suggestion]

\* The fallback is at hand from the beginning: the baseline as it is.
BeginPricing(c, ctx) ==
    /\ pricing[c] = NoPricing
    /\ pricing' = [pricing EXCEPT ![c] =
           [pc |-> "lookup", ctx |-> ctx,
            suggestion |-> [figures |-> Baseline(ctx), aiFallback |-> TRUE]]]
    /\ UNCHANGED <<calls, priceCache>>

PriceHit(c) ==
    /\ pricing[c].pc = "lookup"
    /\ priceCache[KeyOf(pricing[c].ctx)] # Undefined
    /\ PriceGoTo(c, "answered", priceCache[KeyOf(pricing[c].ctx)])
    /\ UNCHANGED <<calls, priceCache>>

\* Nothing in the cache, or the cache cannot be read.
PriceMiss(c) ==
    /\ pricing[c].pc = "lookup"
    /\ PriceGoTo(c, "ask", pricing[c].suggestion)
    /\ BeginChat(c)
    /\ UNCHANGED priceCache

OpinionContents == Opinions \cup {Invalid}

AskForOpinion(c) ==
    /\ pricing[c].pc = "ask"
    /\ ChatProceeds(c, OpinionContents)
    /\ UNCHANGED <<pricing, priceCache>>

TakeOpinion(c) ==
    LET content == calls[c].content
    IN  /\ pricing[c].pc = "ask"
        /\ Returned(c)
        /\ content \in Opinions
        /\ PriceGoTo(c, "store",
               [figures |-> Adjusted(content, Baseline(pricing[c].ctx)),
                aiFallback |-> FALSE])
        /\ ChatTaken(c)
        /\ UNCHANGED priceCache

OpinionUnavailable(c) ==
    /\ pricing[c].pc = "ask"
    /\ Thrown(c) \/ (Returned(c) /\ calls[c].content \notin Opinions)
    /\ PriceGoTo(c, "answered", pricing[c].suggestion)
    /\ ChatTaken(c)
    /\ UNCHANGED priceCache

\* An error of the cache is swallowed.
StoreSuggestion(c) ==
    LET q == pricing[c]
    IN  /\ q.pc = "store"
        /\ PriceGoTo(c, "answered", q.suggestion)
        /\ \/ priceCache' = [priceCache EXCEPT ![KeyOf(q.ctx)] = q.suggestion]
           \/ UNCHANGED priceCache
        /\ UNCHANGED calls

EndPricing(c) ==
    /\ pricing[c].pc = "answered"
    /\ pricing' = [pricing EXCEPT ![c] = NoPricing]
    /\ UNCHANGED <<calls, priceCache>>

PriceExpires(k) ==
    /\ priceCache[k] # Undefined
    /\ priceCache' = [priceCache EXCEPT ![k] = Undefined]
    /\ UNCHANGED <<calls, pricing>>

PricingProceeds(c) ==
    \/ PriceHit(c)
    \/ PriceMiss(c)
    \/ AskForOpinion(c)
    \/ TakeOpinion(c)
    \/ OpinionUnavailable(c)
    \/ StoreSuggestion(c)

PricingNext ==
    \/ \E c \in Callers :
          \/ \E ctx \in Contexts : BeginPricing(c, ctx)
          \/ PricingProceeds(c)
          \/ EndPricing(c)
    \/ \E k \in PriceKeys : PriceExpires(k)

PricingSpec == PricingInit /\ [][PricingNext]_priceVars

-----------------------------------------------------------------------------
\* Every number that is answered is within thirty percent of the baseline of
\* the request it answers, also when it was computed for another request and
\* comes from the cache.  A figure that is no number passes the clamp as NaN;
\* the property is about the others.
SuggestionNearBaseline ==
    \A c \in Callers : pricing[c].pc = "answered" =>
        \A f \in Figures :
            LET base == Baseline(pricing[c].ctx)[f]
                x    == pricing[c].suggestion.figures[f]
            IN  x = NaN \/ (20 * x + 10 >= 14 * base /\ 20 * x <= 26 * base + 10)

\* Half of the comparable prices are at most the recommended one, half at
\* least, up to rounding.
MedianSplits ==
    \A c \in Callers : pricing[c].pc = "lookup" =>
        LET s == pricing[c].ctx.prices
            x == pricing[c].suggestion.figures.recommended
        IN  /\ 2 * Cardinality({i \in DOMAIN s : s[i] <= x}) >= Len(s)
            /\ 2 * Cardinality({i \in DOMAIN s : s[i] >= x - 1}) >= Len(s)
=============================================================================
