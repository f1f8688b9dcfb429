----------------------------- MODULE Providers -----------------------------
(***************************************************************************)
(* ProvidersService for one provider: updateProfile, which replaces the    *)
(* tags, writes the row and recomputes the completeness score over six     *)
(* awaits, and the items that are added and removed meanwhile.             *)
(***************************************************************************)
EXTENDS Database, Naturals, FiniteSets

CONSTANTS
    Tags,       \* names of tags
    ItemIds,    \* primary keys of portfolio items, pricing items and slots
    Fields,     \* the columns of the profile that updateProfile sets and the
                \* score counts, out of bio, businessName and city
    Requests    \* slots: the requests that can be in flight at once

ASSUME FieldsAssumption == Fields \subseteq {"bio", "businessName", "city"}

Kinds == {"portfolioItems", "pricingItems", "availabilitySlots"}

VARIABLES
    tagTable,   \* the Tag table, shared by all providers
    dietaryTags,        \* the tags of this provider (ProviderTag)
    items,      \* the items of this provider, by kind
    filled,     \* the Fields that count as filled in
    score,      \* completenessScore
    request,    \* the request in each slot
    \* Observations, read by no action:
    asked,      \* the tags asked for by the last update, and by those it met
    intact,     \* the last replacement of the tags met no other, and finished
    touched     \* something the score counts has changed since it was computed

providerVars == <<tagTable, dietaryTags, items, filled, score, request,
                  asked, intact, touched>>

NoRequest == [pc |-> "idle"]

\* tags: the list of tags, if the request gives one; given: the columns it
\* sets; filling: those it sets to something that counts (a bio counts when
\* it has more than 20 characters).
Updating ==
    [pc: {"deleteTags", "upsertTags", "createTags", "updateRow", "computeScore",
          "writeScore"},
     tags: SUBSET Tags, given: SUBSET Fields,
     filling: SUBSET Fields, score: 0..100]

Removing == [pc: {"delete"}, kind: Kinds, item: ItemIds]

ProvidersTypeOK ==
    /\ tagTable \subseteq Tags
    /\ dietaryTags \subseteq tagTable       \* the foreign key
    /\ items \in [Kinds -> SUBSET ItemIds]
    /\ filled \subseteq Fields
    /\ score \in 0..100
    /\ request \in [Requests -> Updating \cup Removing \cup {NoRequest}]
    /\ asked \subseteq Tags
    /\ intact \in BOOLEAN
    /\ touched \in BOOLEAN

ProvidersInit ==
    /\ tagTable = {}
    /\ dietaryTags = {}
    /\ items = [k \in Kinds |-> {}]
    /\ filled = {}
    /\ score = 0
    /\ request = [r \in Requests |-> NoRequest]
    /\ asked = {}
    /\ intact = TRUE
    /\ touched = TRUE

-----------------------------------------------------------------------------
(***************************************************************************)
(* computeCompletenessScore: eleven checks, rounded to a percentage.  The  *)
(* category is always there; the certifications, the avatar and the phone  *)
(* of the user are out of this service's hands and count as missing.       *)
(***************************************************************************)
ChecksTotal == 11

Passed ==
    1 + Cardinality(filled) + Cardinality({k \in Kinds : items[k] # {}})
      + (IF dietaryTags # {} THEN 1 ELSE 0)

\* Math.round(n / total * 100)
Percent(n) == (200 * n + ChecksTotal) \div (2 * ChecksTotal)

-----------------------------------------------------------------------------
Become(r, q) == request' = [request EXCEPT ![r] = q]

BeginRequest(r, q) == request[r] = NoRequest /\ Become(r, q)

\* Slot r, at pc, goes on to next.
StepTo(r, pc, next) ==
    request[r].pc = pc /\ request' = [request EXCEPT ![r].pc = next]

Replacing(q) == q.pc \in {"upsertTags", "createTags"}

ReadForUpdate(r, withTags, tags, given, filling) ==
    /\ BeginRequest(r, [pc |-> IF withTags THEN "deleteTags" ELSE "updateRow",
                 tags |-> tags, given |-> given, filling |-> filling,
                 score |-> 0])
    /\ UNCHANGED <<tagTable, dietaryTags, items, filled, score, asked, intact,
                   touched>>

\* Mutant: the old relations stay.
Cleared_Kept == dietaryTags

Cleared == {}

\* deleteMany; an empty list of tags needs no more.
DeleteTags(r) ==
    LET q == request[r]
        met == {s \in Requests \ {r} : Replacing(request[s])}
    IN  /\ StepTo(r, "deleteTags", IF q.tags = {} THEN "updateRow" ELSE "upsertTags")
        /\ dietaryTags' = Cleared
        /\ asked' = IF met = {} THEN q.tags ELSE asked \cup q.tags
        /\ intact' = (met = {})
        /\ touched' = TRUE
        /\ UNCHANGED <<tagTable, items, filled, score>>

Upserted(tags) == tagTable \cup tags

\* The upserts of all names, each atomic; none of them undoes another.
UpsertTags(r) ==
    /\ StepTo(r, "upsertTags", "createTags")
    /\ tagTable' = Upserted(request[r].tags)
    /\ UNCHANGED <<dietaryTags, items, filled, score, asked, intact, touched>>

\* createMany with skipDuplicates.
CreateTags(r) ==
    /\ StepTo(r, "createTags", "updateRow")
    /\ dietaryTags' = dietaryTags \cup request[r].tags
    /\ touched' = TRUE
    /\ UNCHANGED <<tagTable, items, filled, score, asked, intact>>

UpdateRow(r) ==
    LET q == request[r]
    IN  /\ StepTo(r, "updateRow", "computeScore")
        /\ filled' = (filled \ q.given) \cup q.filling
        /\ touched' = TRUE
        /\ UNCHANGED <<tagTable, dietaryTags, items, score, asked, intact>>

ComputeScore(r) ==
    /\ request[r].pc = "computeScore"
    /\ Become(r, [request[r] EXCEPT !.pc = "writeScore",
                                    !.score = Percent(Passed)])
    /\ touched' = (touched /\ \E s \in Requests : request[s].pc = "writeScore")
    /\ UNCHANGED <<tagTable, dietaryTags, items, filled, score, asked, intact>>

\* Mutant: the score is only ever raised.
WrittenScore_Raised(q) == IF q.score > score THEN q.score ELSE score

WrittenScore(q) == q.score

WriteScore(r) ==
    /\ request[r].pc = "writeScore"
    /\ score' = WrittenScore(request[r])
    /\ Become(r, NoRequest)
    /\ UNCHANGED <<tagTable, dietaryTags, items, filled, asked, intact, touched>>

-----------------------------------------------------------------------------
(***************************************************************************)
(* The items.  None of these recomputes the score.                         *)
(***************************************************************************)
AddItem(k, i) ==
    /\ \A l \in Kinds : i \notin items[l]
    /\ items' = [items EXCEPT ![k] = @ \cup {i}]
    /\ touched' = TRUE
    /\ UNCHANGED <<tagTable, dietaryTags, filled, score, request, asked, intact>>

ReadForRemoval(r, k, i) ==
    /\ i \in items[k]
    /\ BeginRequest(r, [pc |-> "delete", kind |-> k, item |-> i])
    /\ UNCHANGED <<tagTable, dietaryTags, items, filled, score, asked, intact,
                   touched>>

\* delete throws when the row is gone by now; either way the request ends.
DeleteItem(r) ==
    LET q == request[r]
    IN  /\ q.pc = "delete"
        /\ items' = [items EXCEPT ![q.kind] = @ \ {q.item}]
        /\ Become(r, NoRequest)
        /\ touched' = TRUE
        /\ UNCHANGED <<tagTable, dietaryTags, filled, score, asked, intact>>

ProviderFail(r) ==
    /\ CanFail
    /\ request[r] # NoRequest
    /\ Become(r, NoRequest)
    /\ intact' = (intact /\ ~Replacing(request[r]))
    /\ touched' = (touched \/ request[r].pc = "writeScore")
    /\ UNCHANGED <<tagTable, dietaryTags, items, filled, score, asked>>

ProvidersNext ==
    \/ \E r \in Requests :
          \/ \E tags \in SUBSET Tags, given \in SUBSET Fields :
                \E filling \in SUBSET given :
                    \/ ReadForUpdate(r, TRUE, tags, given, filling)
                    \/ tags = {} /\ ReadForUpdate(r, FALSE, tags, given, filling)
          \/ DeleteTags(r)
          \/ UpsertTags(r)
          \/ CreateTags(r)
          \/ UpdateRow(r)
          \/ ComputeScore(r)
          \/ WriteScore(r)
          \/ \E k \in Kinds, i \in ItemIds : ReadForRemoval(r, k, i)
          \/ DeleteItem(r)
          \/ ProviderFail(r)
    \/ \E k \in Kinds, i \in ItemIds : AddItem(k, i)

ProvidersSpec == ProvidersInit /\ [][ProvidersNext]_providerVars

-----------------------------------------------------------------------------
\* "Sync the join table": a provider never has a tag that neither the last
\* update asked for nor one that was replacing tags at the same time; and once
\* no replacement is under way, the last one met no other and did not die, it
\* has exactly the tags asked for.
TagsSynced ==
    /\ dietaryTags \subseteq asked
    /\ intact /\ (\A r \in Requests : ~Replacing(request[r]))
          => dietaryTags = asked

\* The stored score is the one of the profile as it is, unless something has
\* changed since, a request died before it stored its score, or an update
\* that computed earlier is still to store its own.
ScoreIsCurrent ==
    ~touched /\ (\A r \in Requests : request[r].pc # "writeScore")
        => score = Percent(Passed)
=============================================================================
