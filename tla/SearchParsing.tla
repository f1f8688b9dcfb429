--------------------------- MODULE SearchParsing ---------------------------
(***************************************************************************)
(* SearchParsingService.parseQuery: free text becomes search filters.  The *)
(* cache is asked first, then the model; whatever goes wrong on the way    *)
(* ends in the fallback, never in an error.                                *)
(*                                                                         *)
(* A raw query is a record of its text, the same for queries that differ   *)
(* in case and surrounding space only, and of its spelling.                *)
(***************************************************************************)
EXTENDS GroqClient

CONSTANTS
    Queries,    \* raw queries: records of a text and a spelling
    Parses      \* the filters the model may make of a query

ASSUME QueriesAssumption ==
    \A q \in Queries : DOMAIN q = {"text", "spelling"}

ASSUME ParsesAssumption == Undefined \notin Parses

VARIABLES
    parse,      \* the query of each slot, with its program counter
    parseCache  \* the cache: from cache keys to results

\* rawQuery.trim().toLowerCase()
Key(rawQuery) == rawQuery.text

Keys == {Key(q) : q \in Queries}

Blank(rawQuery) == Key(rawQuery) = ""

ParseContents == Parses \cup {Invalid}

\* No filters and confidence 0.
Fallback(rawQuery) == [filters |-> Undefined, rawQuery |-> rawQuery]

ParsedFilters == [filters: Parses \cup {Undefined}, rawQuery: Queries]

ParseSlot ==
    [pc: {"lookup", "ask", "store", "done"}, result: ParsedFilters]
        \cup {[pc |-> "none"]}

NoParse == [pc |-> "none"]

ParsingTypeOK ==
    /\ parse \in [Callers -> ParseSlot]
    /\ parseCache \in [Keys -> ParsedFilters \cup {Undefined}]

ParsingInit ==
    /\ parse = [c \in Callers |-> NoParse]
    /\ parseCache = [k \in Keys |-> Undefined]

-----------------------------------------------------------------------------
ParseGoTo(c, pc, result) ==
    parse' = [parse EXCEPT ![c] = [pc |-> pc, result |-> result]]

Query(c) == parse[c].result.rawQuery

\* A blank query is answered without the model.
BeginParse(c, rawQuery) ==
    /\ parse[c] = NoParse
    /\ ParseGoTo(c, IF Blank(rawQuery) THEN "done" ELSE "lookup", Fallback(rawQuery))

ParseHit(c) ==
    /\ parse[c].pc = "lookup"
    /\ parseCache[Key(Query(c))] # Undefined
    /\ ParseGoTo(c, "done", parseCache[Key(Query(c))])
    /\ UNCHANGED <<calls, parseCache>>

\* Nothing in the cache, or the cache cannot be read.
ParseMiss(c) ==
    /\ parse[c].pc = "lookup"
    /\ ParseGoTo(c, "ask", parse[c].result)
    /\ BeginChat(c)
    /\ UNCHANGED parseCache

\* Mutant: a fallback is kept for an hour, too.
AfterContent_Always(content) == "store"

\* What the filters are validated for: only valid ones are worth keeping.
AfterContent(content) == IF content \in Parses THEN "store" ELSE "done"

TakeParse(c) ==
    LET content == calls[c].content
    IN  /\ parse[c].pc = "ask"
        /\ Returned(c)
        /\ ParseGoTo(c, AfterContent(content),
               IF content \in Parses
               THEN [filters |-> content, rawQuery |-> Query(c)]
               ELSE Fallback(Query(c)))
        /\ ChatTaken(c)
        /\ UNCHANGED parseCache

ParseUnavailable(c) ==
    /\ parse[c].pc = "ask"
    /\ Thrown(c)
    /\ ParseGoTo(c, "done", Fallback(Query(c)))
    /\ ChatTaken(c)
    /\ UNCHANGED parseCache

\* An error of the cache is swallowed: the result is answered all the same.
StoreParse(c) ==
    /\ parse[c].pc = "store"
    /\ ParseGoTo(c, "done", parse[c].result)
    /\ \/ parseCache' = [parseCache EXCEPT ![Key(Query(c))] = parse[c].result]
       \/ UNCHANGED parseCache
    /\ UNCHANGED calls

AskForParse(c) ==
    /\ parse[c].pc = "ask"
    /\ ChatProceeds(c, ParseContents)
    /\ UNCHANGED <<parse, parseCache>>

ParseProceeds(c) ==
    \/ ParseHit(c)
    \/ ParseMiss(c)
    \/ AskForParse(c)
    \/ TakeParse(c)
    \/ ParseUnavailable(c)
    \/ StoreParse(c)

\* The hour of an entry is over, or the cache evicts it.
ParseExpires(k) ==
    /\ parseCache[k] # Undefined
    /\ parseCache' = [parseCache EXCEPT ![k] = Undefined]
    /\ UNCHANGED <<calls, parse>>

\* For the caller: the result is there.
Parsed(c) == parse[c].pc = "done"

ParseTaken(c) == parse' = [parse EXCEPT ![c] = NoParse]

-----------------------------------------------------------------------------
\* What another caller finds in the cache is an answer of the model to a query
\* with the same text: a failure of the model or of the validation costs the
\* one request it happens to, not an hour of them.
CachedParseFits ==
    \A k \in Keys : parseCache[k] # Undefined =>
        /\ Key(parseCache[k].rawQuery) = k
        /\ parseCache[k].filters # Undefined
=============================================================================
