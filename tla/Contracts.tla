----------------------------- MODULE Contracts -----------------------------
(***************************************************************************)
(* OrdersService.requestContractDraft and ContractsService.generateContract*)
(* of src/orders: a draft from the prompt template of a category, by the   *)
(* model or, without it, the standard contract.                            *)
(***************************************************************************)
EXTENDS GroqClient

CONSTANTS
    Categories,     \* categories of providers (ProviderCategory)
    DraftReplies    \* what the model may answer: records saying whether it
                    \* has sections and flags, see Draft

VARIABLES
    templates,  \* the templates that have been read
    drafting    \* the request in each slot, with its program counter

draftVars == <<calls, templates, drafting>>

\* The templates there are.
ContractCategories ==
    {"catering", "meal_prep_subscription", "farm_supply", "event_bartending"}

\* The names the map of requestContractDraft is asked for, and the templates
\* it gives; every other category gets the one for catering.
CategoryMap ==
    [CATERING               |-> "catering",
     MEAL_PREP_SUBSCRIPTION |-> "meal_prep_subscription",
     FARM_SUPPLY            |-> "farm_supply",
     EVENT_BARTENDING       |-> "event_bartending"]

ContractCategory(category) ==
    IF category \in DOMAIN CategoryMap THEN CategoryMap[category] ELSE "catering"

\* What the prompt and the draft are told of the order.
Order == [category: Categories, noCancellation: BOOLEAN]

\* sections: whose sections the draft has; flags: what it is flagged with.
DraftFlags == {"model", "prohibitsCancellation", "standardContract"}

Draft == [sections: {"model", "standard"}, flags: SUBSET DraftFlags,
          aiFallback: BOOLEAN]

NoDraft == [pc |-> "none"]

DraftSlot ==
    {NoDraft}
    \cup [pc: {"load", "ask"}, order: Order]
    \cup [pc: {"answered"}, order: Order, draft: Draft]

DraftsTypeOK ==
    /\ CallsTypeOK
    /\ templates \subseteq ContractCategories
    /\ drafting \in [Callers -> DraftSlot]

DraftsInit ==
    /\ CallsInit
    /\ templates = {}
    /\ drafting = [c \in Callers |-> NoDraft]

-----------------------------------------------------------------------------
DraftGoTo(c, q) == drafting' = [drafting EXCEPT ![c] = q]

BeginDraft(c, order) ==
    /\ drafting[c] = NoDraft
    /\ DraftGoTo(c, [pc |-> "load", order |-> order])
    /\ UNCHANGED <<calls, templates>>

\* A template is read once; when it cannot be read, a general prompt does.
LoadTemplate(c) ==
    LET template == ContractCategory(drafting[c].order.category)
    IN  /\ drafting[c].pc = "load"
        /\ \/ templates' = templates \cup {template}
           \/ UNCHANGED templates
        /\ DraftGoTo(c, [drafting[c] EXCEPT !.pc = "ask"])
        /\ BeginChat(c)

\* Content that is no JSON, or whose flags are no list to push to.
Usable(reply, order) ==
    /\ reply # Invalid
    /\ reply.flags = "noList" => ~order.noCancellation

\* Mutant: the rule check is left to the model.
RuleFlags_Model(order) == {}

\* The rule check alongside the model's.
RuleFlags(order) == IF order.noCancellation THEN {"prohibitsCancellation"} ELSE {}

StandardContract ==
    [sections |-> "standard", flags |-> {"standardContract"}, aiFallback |-> TRUE]

Drafted(reply, order) ==
    [sections |-> IF reply.sections THEN "model" ELSE "standard",
     flags |-> (IF reply.flags = "none" THEN {} ELSE {"model"})
                   \cup RuleFlags(order),
     aiFallback |-> FALSE]

AskForDraft(c) ==
    /\ drafting[c].pc = "ask"
    /\ ChatProceeds(c, DraftReplies \cup {Invalid})
    /\ UNCHANGED <<templates, drafting>>

TakeDraft(c) ==
    LET order == drafting[c].order
        reply == calls[c].content
    IN  /\ drafting[c].pc = "ask"
        /\ Returned(c)
        /\ DraftGoTo(c, [pc |-> "answered", order |-> order,
                         draft |-> IF Usable(reply, order)
                                   THEN Drafted(reply, order)
                                   ELSE StandardContract])
        /\ ChatTaken(c)
        /\ UNCHANGED templates

DraftUnavailable(c) ==
    /\ drafting[c].pc = "ask"
    /\ Thrown(c)
    /\ DraftGoTo(c, [pc |-> "answered", order |-> drafting[c].order,
                     draft |-> StandardContract])
    /\ ChatTaken(c)
    /\ UNCHANGED templates

EndDraft(c) ==
    /\ drafting[c].pc = "answered"
    /\ DraftGoTo(c, NoDraft)
    /\ UNCHANGED <<calls, templates>>

DraftProceeds(c) ==
    \/ LoadTemplate(c)
    \/ AskForDraft(c)
    \/ TakeDraft(c)
    \/ DraftUnavailable(c)

DraftsNext ==
    \E c \in Callers :
        \/ \E order \in Order : BeginDraft(c, order)
        \/ DraftProceeds(c)
        \/ EndDraft(c)

DraftsSpec == DraftsInit /\ [][DraftsNext]_draftVars

\* The event loop gives every draft in flight its next answer; the timer that
\* aborts an attempt which hangs is one.
DraftsFairness == \A c \in Callers : WF_draftVars(DraftProceeds(c))

FairDraftsSpec == DraftsSpec /\ DraftsFairness

-----------------------------------------------------------------------------
\* A draft that forbids cancellation says so, or says that it is the standard
\* contract, which has the platform's own terms of cancellation: the model's
\* silence about it, or flags that are no list, do not hide it.
CancellationIsFlagged ==
    \A c \in Callers : drafting[c].pc = "answered" =>
        \/ ~drafting[c].order.noCancellation
        \/ drafting[c].draft.flags \cap {"prohibitsCancellation", "standardContract"} # {}

\* "Every consumer catches GroqUnavailableException and falls back": a request
\* for a draft ends with a draft, however often the model fails or hangs.
DraftIsAnswered ==
    \A c \in Callers : drafting[c].pc # "none" ~> drafting[c].pc \in {"answered", "none"}
=============================================================================
