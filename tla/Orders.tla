------------------------------- MODULE Orders -------------------------------
(***************************************************************************)
(* The order lifecycle of src/orders/orders.service.ts.                    *)
(*                                                                         *)
(* Every handler of OrdersService first reads the order row, decides on    *)
(* that snapshot, and later writes the row back with an update that names  *)
(* only the primary key.  Between two awaits any other request may run, so *)
(* a handler is a request slot that walks through the program counter      *)
(*                                                                         *)
(*      idle -> write -> notify -> enqueue -> idle                         *)
(*                                                                         *)
(* and keeps the snapshot it read.  A request the guards reject changes    *)
(* nothing and is a stuttering step; it is not modelled.  Every step of a  *)
(* request may instead be its last (Fail): the store or the queue throws,  *)
(* or the process stops.                                                   *)
(***************************************************************************)
EXTENDS Naturals

CONSTANTS
    OrderIds,   \* primary keys of the Order table
    Requests,   \* slots: the requests on orders that can be in flight at once
    Prices,     \* amounts a quote or a counter-offer may carry
    CanFail,    \* TRUE when a request may die between two awaits
    Null        \* SQL NULL

Statuses == {"REQUESTED", "CONFIRMED", "CONTRACT_SIGNED", "IN_PROGRESS",
             "DELIVERED", "REVIEWED", "CANCELLED"}

\* The DTOs only bound amounts by Min(0): zero is a legal quote and offer.
ASSUME PricesAssumption == Prices \subseteq Nat
ASSUME NullAssumption == Null \notin Nat \cup Statuses
ASSUME CanFailAssumption == CanFail \in BOOLEAN

\* The two sides of an order, and the callers updateStatus tells apart.
Parties == {"BUYER", "PROVIDER"}
Actors  == Parties \cup {"ADMIN"}

\* Mutant: the entry of CONFIRMED also lists IN_PROGRESS.
ORDER_TRANSITIONS_WithoutContract ==
    {<<"REQUESTED", "CONFIRMED">>,         <<"REQUESTED", "CANCELLED">>,
     <<"CONFIRMED", "CONTRACT_SIGNED">>,   <<"CONFIRMED", "CANCELLED">>,
     <<"CONFIRMED", "IN_PROGRESS">>,       <<"CONTRACT_SIGNED", "IN_PROGRESS">>,
     <<"IN_PROGRESS", "DELIVERED">>,       <<"DELIVERED", "REVIEWED">>}

\* Which status may follow which.  As a relation: the code has the same
\* table as a map from a status to the list of its successors.
ORDER_TRANSITIONS ==
    {<<"REQUESTED", "CONFIRMED">>,         <<"REQUESTED", "CANCELLED">>,
     <<"CONFIRMED", "CONTRACT_SIGNED">>,   <<"CONFIRMED", "CANCELLED">>,
     <<"CONTRACT_SIGNED", "IN_PROGRESS">>, <<"CONTRACT_SIGNED", "CANCELLED">>,
     <<"IN_PROGRESS", "DELIVERED">>,       <<"DELIVERED", "REVIEWED">>}

-----------------------------------------------------------------------------
VARIABLES
    orders,     \* the Order table; status Null: the row does not exist
    history,    \* OrderStatusHistory: the toStatus column of an order's rows
    req,        \* the request in each slot, with its program counter
    \* Observations, read by no action:
    sent,       \* the message the last step handed to notifications or the queue
    signers,    \* who asked to sign the contract, with a committed write
    offered     \* the amounts the provider's counter-offers wrote

orderVars == <<orders, history, req, sent, signers, offered>>

MaybeStatus == Statuses \cup {Null}
MaybePrice  == Prices \cup {Null}

OrderRow ==
    [status: MaybeStatus, isInstantBooking: BOOLEAN,
     initialQuote: MaybePrice, counterOffer: MaybePrice, agreedPrice: MaybePrice,
     isSignedByBuyer: BOOLEAN, isSignedByProvider: BOOLEAN,
     contractSignedAt: BOOLEAN]            \* is the timestamp set

NoRow ==
    [status |-> Null, isInstantBooking |-> FALSE,
     initialQuote |-> Null, counterOffer |-> Null, agreedPrice |-> Null,
     isSignedByBuyer |-> FALSE, isSignedByProvider |-> FALSE,
     contractSignedAt |-> FALSE]

\* What is announced once a write is committed: a notification to a party, or
\* the 'status-changed' job.  It is about a status the order has got, or one
\* of the other notices: a new booking, a signature that leaves the contract
\* incomplete, a counter-offer.
OrderNotices == {"booking", "signature", "counterOffer"}

OrderMessage == [order: OrderIds, to: Parties \cup {"ordersQueue"},
                 about: Statuses \cup OrderNotices]

\* Other services send about an order, too: released funds (payments), a
\* review (reviews).
Message == OrderMessage \cup
    [order: OrderIds, to: Parties, about: {"released", "review"}]

\* A request that has read but not written yet remembers what its write will
\* use: columns of its snapshot and what the caller asked for.
Updating ==
    [pc: {"write"}, op: {"updateStatus"}, order: OrderIds, actor: Actors,
     status: Statuses, isSignedByBuyer: BOOLEAN, isSignedByProvider: BOOLEAN,
     target: Statuses]

Offering ==
    [pc: {"write"}, op: {"submitCounterOffer"}, order: OrderIds, amount: Prices]

Accepting ==
    [pc: {"write"}, op: {"acceptCounterOffer"}, order: OrderIds, amount: Prices]

\* After the write only the announcement is left.
Announcing == [pc: {"notify", "enqueue"}, message: OrderMessage]

Idle == [pc |-> "idle"]

Request == Updating \cup Offering \cup Accepting \cup Announcing \cup {Idle}

OrdersTypeOK ==
    /\ orders \in [OrderIds -> OrderRow]
    /\ history \in [OrderIds -> SUBSET Statuses]
    /\ req \in [Requests -> Request]
    /\ sent \in Message \cup {Null}
    /\ signers \in [OrderIds -> SUBSET Actors]
    /\ offered \in [OrderIds -> SUBSET Prices]

OrdersInit ==
    /\ orders = [o \in OrderIds |-> NoRow]
    /\ history = [o \in OrderIds |-> {}]
    /\ req = [r \in Requests |-> Idle]
    /\ sent = Null
    /\ signers = [o \in OrderIds |-> {}]
    /\ offered = [o \in OrderIds |-> {}]

-----------------------------------------------------------------------------
(***************************************************************************)
(* The walk of a request through its slot.                                 *)
(***************************************************************************)
\* Slot r goes on as q, and hands over message m (Null: no message).
Become(r, q, m) ==
    /\ req' = [req EXCEPT ![r] = q]
    /\ sent' = m

Begin(r, q) == req[r] = Idle /\ Become(r, q, Null)

Writes(r, op) == req[r].pc = "write" /\ req[r].op = op

Announce(r, m) == Become(r, [pc |-> "notify", message |-> m], Null)

AddHistory(o, to) == history' = [history EXCEPT ![o] = @ \cup {to}]

-----------------------------------------------------------------------------
(***************************************************************************)
(* createOrder.  The provider profile is read first; only its              *)
(* allowsInstantBook flag matters, and nothing here changes it, so the     *)
(* read is merged into the insert.  A quote of zero counts as no quote.    *)
(***************************************************************************)
\* Mutant: the quote is not looked at.
IsInstantBooking_Quoted(allowsInstantBook, quote) == allowsInstantBook

IsInstantBooking(allowsInstantBook, quote) ==
    allowsInstantBook /\ quote \in {Null, 0}

CreateOrder(r, o, allowsInstantBook, quote) ==
    LET instant == IsInstantBooking(allowsInstantBook, quote)
        status  == IF instant THEN "CONFIRMED" ELSE "REQUESTED"
    IN  /\ orders[o].status = Null
        /\ orders' = [orders EXCEPT ![o] =
               [@ EXCEPT !.status = status,
                         !.isInstantBooking = instant,
                         !.initialQuote = quote]]
        /\ AddHistory(o, status)
        /\ Begin(r, [pc |-> "notify",
                     message |-> [order |-> o, to |-> "PROVIDER",
                                  about |-> "booking"]])
        /\ UNCHANGED <<signers, offered>>

-----------------------------------------------------------------------------
(***************************************************************************)
(* updateStatus, and signContract, which is updateStatus to                *)
(* CONTRACT_SIGNED.  Everything written comes from the snapshot.           *)
(***************************************************************************)
\* Mutant: any change of an order that is not closed.
Allowed_WhileOpen(from, to) == from \notin {Null, "REVIEWED", "CANCELLED"}

Allowed(from, to) == <<from, to>> \in ORDER_TRANSITIONS

ReadForUpdateStatus(r, o, actor, target) ==
    /\ Allowed(orders[o].status, target)
    /\ Begin(r, [pc |-> "write", op |-> "updateStatus", order |-> o,
                 actor |-> actor, status |-> orders[o].status,
                 isSignedByBuyer |-> orders[o].isSignedByBuyer,
                 isSignedByProvider |-> orders[o].isSignedByProvider,
                 target |-> target])
    /\ UNCHANGED <<orders, history, signers, offered>>

Signing(q) == q.target = "CONTRACT_SIGNED"

\* Mutant: whoever signs, it counts as the buyer.
SignedByBuyer_Anyone(q) == q.isSignedByBuyer \/ Signing(q)

\* Mutant: the flag starts from FALSE, not from the snapshot.
SignedByProvider_Fresh(q) == Signing(q) /\ q.actor \in {"PROVIDER", "ADMIN"}

\* The signature flags the handler writes back.
SignedByBuyer(q) ==
    q.isSignedByBuyer \/ (Signing(q) /\ q.actor \in {"BUYER", "ADMIN"})
SignedByProvider(q) ==
    q.isSignedByProvider \/ (Signing(q) /\ q.actor \in {"PROVIDER", "ADMIN"})

\* Mutant: one signature is enough.
ShouldAdvance_Either(q) == Signing(q) => SignedByBuyer(q) \/ SignedByProvider(q)

ShouldAdvance(q) == Signing(q) => SignedByBuyer(q) /\ SignedByProvider(q)

TargetStatus(q) == IF ShouldAdvance(q) THEN q.target ELSE q.status

\* Mutant: the acting party is told.
Counterparty_Self(actor) == actor

\* Only one party hears of a change: the buyer when the provider acts, the
\* provider when the buyer or an admin does.
Counterparty(actor) == IF actor = "PROVIDER" THEN "BUYER" ELSE "PROVIDER"

\* What the update makes of the row it finds.
Updated(row, q) ==
    [row EXCEPT !.status = TargetStatus(q),
                !.isSignedByBuyer = SignedByBuyer(q),
                !.isSignedByProvider = SignedByProvider(q),
                !.contractSignedAt = @ \/ TargetStatus(q) = "CONTRACT_SIGNED"]

\* Mutant: the requested status is announced, advanced or not.
Announced_Requested(q) == q.target

Announced(q) == IF ShouldAdvance(q) THEN q.target ELSE "signature"

WriteStatus(r) ==
    LET q == req[r]
    IN  /\ Writes(r, "updateStatus")
        /\ orders' = [orders EXCEPT ![q.order] = Updated(@, q)]
        /\ AddHistory(q.order, TargetStatus(q))
        /\ signers' = [signers EXCEPT ![q.order] =
               IF Signing(q) THEN @ \cup {q.actor} ELSE @]
        /\ Announce(r, [order |-> q.order, to |-> Counterparty(q.actor),
                        about |-> Announced(q)])
        /\ UNCHANGED offered

-----------------------------------------------------------------------------
(***************************************************************************)
(* submitCounterOffer by the provider, acceptCounterOffer by the buyer.    *)
(* Accepting looks at the offer only, not at the status of the order, and  *)
(* announces nothing.                                                      *)
(***************************************************************************)
ReadForCounterOffer(r, o, amount) ==
    /\ orders[o].status = "REQUESTED"
    /\ Begin(r, [pc |-> "write", op |-> "submitCounterOffer", order |-> o,
                 amount |-> amount])
    /\ UNCHANGED <<orders, history, signers, offered>>

WriteCounterOffer(r) ==
    LET q == req[r]
    IN  /\ Writes(r, "submitCounterOffer")
        /\ orders' = [orders EXCEPT ![q.order].counterOffer = q.amount]
        /\ offered' = [offered EXCEPT ![q.order] = @ \cup {q.amount}]
        /\ Announce(r, [order |-> q.order, to |-> "BUYER",
                        about |-> "counterOffer"])
        /\ UNCHANGED <<history, signers>>

\* Mutant: without a counter-offer the quote is taken for one.
OfferOn_OrQuote(o) == IF orders[o].counterOffer = Null
                      THEN orders[o].initialQuote ELSE orders[o].counterOffer

OfferOn(o) == orders[o].counterOffer

ReadForAcceptance(r, o) ==
    /\ OfferOn(o) # Null
    /\ Begin(r, [pc |-> "write", op |-> "acceptCounterOffer", order |-> o,
                 amount |-> OfferOn(o)])
    /\ UNCHANGED <<orders, history, signers, offered>>

WriteAcceptance(r) ==
    LET q == req[r]
    IN  /\ Writes(r, "acceptCounterOffer")
        /\ orders' = [orders EXCEPT ![q.order] =
               [@ EXCEPT !.agreedPrice = q.amount,
                         !.counterOffer = Null,
                         !.status = "CONFIRMED"]]
        /\ AddHistory(q.order, "CONFIRMED")
        /\ Become(r, Idle, Null)
        /\ UNCHANGED <<signers, offered>>

-----------------------------------------------------------------------------
(***************************************************************************)
(* The announcement that ends a handler: notifications.send, then, for a   *)
(* status updateStatus has advanced to, the job on the orders queue.       *)
(***************************************************************************)
Notify(r) ==
    LET m == req[r].message
    IN  /\ req[r].pc = "notify"
        /\ Become(r, IF m.about \in Statuses
                     THEN [pc |-> "enqueue",
                           message |-> [m EXCEPT !.to = "ordersQueue"]]
                     ELSE Idle, m)
        /\ UNCHANGED <<orders, history, signers, offered>>

EnqueueStatusChanged(r) ==
    /\ req[r].pc = "enqueue"
    /\ Become(r, Idle, req[r].message)
    /\ UNCHANGED <<orders, history, signers, offered>>

-----------------------------------------------------------------------------
\* The awaited call throws, or the process stops: the rest never runs.
Fail(r) ==
    /\ CanFail
    /\ req[r] # Idle
    /\ Become(r, Idle, Null)
    /\ UNCHANGED <<orders, history, signers, offered>>

\* A request arrives and reads.
Arrive(r) ==
    \E o \in OrderIds :
        \/ \E instant \in BOOLEAN, quote \in MaybePrice :
               CreateOrder(r, o, instant, quote)
        \/ \E actor \in Actors, target \in Statuses :
               ReadForUpdateStatus(r, o, actor, target)
        \/ \E amount \in Prices : ReadForCounterOffer(r, o, amount)
        \/ ReadForAcceptance(r, o)

\* A request in flight gets its next answer and goes on.
Proceed(r) ==
    \/ WriteStatus(r)
    \/ WriteCounterOffer(r)
    \/ WriteAcceptance(r)
    \/ Notify(r)
    \/ EnqueueStatusChanged(r)

OrdersNext == \E r \in Requests : Arrive(r) \/ Proceed(r) \/ Fail(r)

OrdersSpec == OrdersInit /\ [][OrdersNext]_orderVars

\* For the services around this one: a step of theirs that changes nothing of
\* an order, and hands over message m (Null: no message).
OrdersUntouched(m) ==
    /\ sent' = m
    /\ UNCHANGED <<orders, history, req, signers, offered>>

-----------------------------------------------------------------------------
(***************************************************************************)
(* What holds whatever the interleaving of requests.                       *)
(***************************************************************************)
Working == {"CONTRACT_SIGNED", "IN_PROGRESS", "DELIVERED"}

\* No work without a contract.  updateStatus advances to CONTRACT_SIGNED only
\* when both flags are set, and every later write carries the flags of an old
\* snapshot; still no mix of stale writes shows an order being worked on with
\* a flag cleared or without the time of signing.
WorkIsContracted ==
    \A o \in OrderIds : orders[o].status \in Working =>
        /\ orders[o].isSignedByBuyer
        /\ orders[o].isSignedByProvider
        /\ orders[o].contractSignedAt

\* No flag is set that its party, or an admin on its behalf, did not ask for:
\* a flag written back from a stale snapshot is still somebody's signature.
SignaturesGenuine ==
    \A o \in OrderIds :
        /\ orders[o].isSignedByBuyer =>
               signers[o] \cap {"BUYER", "ADMIN"} # {}
        /\ orders[o].isSignedByProvider =>
               signers[o] \cap {"PROVIDER", "ADMIN"} # {}

\* The stages a stage presupposes.
Before(s) ==
    CASE s = "CONTRACT_SIGNED" -> {"CONFIRMED"}
      [] s = "IN_PROGRESS"     -> {"CONFIRMED", "CONTRACT_SIGNED"}
      [] s = "DELIVERED"       -> {"CONFIRMED", "CONTRACT_SIGNED", "IN_PROGRESS"}
      [] s = "REVIEWED"        -> {"CONFIRMED", "CONTRACT_SIGNED", "IN_PROGRESS",
                                   "DELIVERED"}
      [] OTHER                 -> {}

\* The history of an order accounts for its status and leaves no stage out:
\* races and the unguarded acceptCounterOffer may move an order backwards,
\* but an order never gets to a stage ahead of the ones that lead to it.
NoStageSkipped ==
    \A o \in OrderIds :
        /\ orders[o].status # Null => orders[o].status \in history[o]
        /\ \A s \in history[o] : Before(s) \subseteq history[o]

\* An instant booking has no negotiation: it is never REQUESTED, so no
\* counter-offer can be made on it and no price other than a zero quote is
\* ever put on it.
InstantBookingUnpriced ==
    \A o \in OrderIds : orders[o].isInstantBooking =>
        /\ orders[o].initialQuote \in {Null, 0}
        /\ orders[o].counterOffer = Null
        /\ orders[o].agreedPrice = Null
        /\ "REQUESTED" \notin history[o]

\* A price is agreed on an amount the provider did offer, on an order the
\* buyer has confirmed, even when offers and acceptances overlap.
AgreedPriceWasOffered ==
    \A o \in OrderIds : orders[o].agreedPrice # Null =>
        /\ orders[o].agreedPrice \in offered[o]
        /\ "CONFIRMED" \in history[o]

\* What the parties and the queue are told has happened: a status is
\* announced only once it is committed.  (A notice or a job may be lost when
\* a request dies after its write; it is never early.)
AnnouncedIsCommitted ==
    sent # Null /\ sent.about \in Statuses => sent.about \in history[sent.order]

(***************************************************************************)
(* The strengthening that makes these inductive: what the in-flight        *)
(* requests remember is not current, but it was true once, and what it     *)
(* says of history, signatures and offers stays true.                      *)
(***************************************************************************)
RowsConsistent ==
    \A o \in OrderIds :
        /\ orders[o].status = Null => orders[o] = NoRow /\ history[o] = {}
        /\ orders[o].counterOffer # Null =>
               /\ orders[o].counterOffer \in offered[o]
               /\ "REQUESTED" \in history[o]

UpdateWellFounded(r) ==
    LET q == req[r]
        o == q.order
    IN  Writes(r, "updateStatus") =>
            /\ Allowed(q.status, q.target)
            /\ q.status \in history[o]
            /\ q.status \in Working =>
                   /\ q.isSignedByBuyer
                   /\ q.isSignedByProvider
                   /\ orders[o].contractSignedAt
            /\ q.isSignedByBuyer => signers[o] \cap {"BUYER", "ADMIN"} # {}
            /\ q.isSignedByProvider => signers[o] \cap {"PROVIDER", "ADMIN"} # {}

OfferWellFounded(r) ==
    LET q == req[r]
    IN  /\ Writes(r, "submitCounterOffer") => "REQUESTED" \in history[q.order]
        /\ Writes(r, "acceptCounterOffer") =>
               "REQUESTED" \in history[q.order] /\ q.amount \in offered[q.order]

MessageCommitted(r) ==
    LET m == req[r].message
    IN  req[r].pc \in {"notify", "enqueue"} /\ m.about \in Statuses =>
            m.about \in history[m.order]

RequestsWellFounded ==
    \A r \in Requests :
        UpdateWellFounded(r) /\ OfferWellFounded(r) /\ MessageCommitted(r)

OrdersInv ==
    /\ OrdersTypeOK
    /\ WorkIsContracted
    /\ SignaturesGenuine
    /\ NoStageSkipped
    /\ InstantBookingUnpriced
    /\ AgreedPriceWasOffered
    /\ AnnouncedIsCommitted
    /\ RowsConsistent
    /\ RequestsWellFounded

(***************************************************************************)
(* What a race can do at most.  Nothing keeps two requests from being      *)
(* between the read and the write of one order; the later write is then    *)
(* made from a snapshot that is out of date.                               *)
(***************************************************************************)
\* Request r is about to write order o, which is not as r has read it.
Overtaken(r, o) ==
    LET q == req[r]
    IN  \/ /\ Writes(r, "updateStatus")
           /\ q.order = o
           /\ \/ q.status # orders[o].status
              \/ q.isSignedByBuyer # orders[o].isSignedByBuyer
              \/ q.isSignedByProvider # orders[o].isSignedByProvider
        \/ /\ Writes(r, "acceptCounterOffer")
           /\ q.order = o
           /\ q.amount # orders[o].counterOffer

LosesSignature(o) ==
    \/ orders[o].isSignedByBuyer /\ ~orders'[o].isSignedByBuyer
    \/ orders[o].isSignedByProvider /\ ~orders'[o].isSignedByProvider

\* updateStatus writes both flags back as it read them.  Only the write of an
\* overtaken update can clear one, neither an acceptance nor any other write;
\* and it leaves the order CONFIRMED, where both may sign again, or CANCELLED,
\* never in a stage that rests on the contract.
SignatureLostByOvertaken ==
    [][\A o \in OrderIds : LosesSignature(o) =>
          /\ orders'[o].status \in {"CONFIRMED", "CANCELLED"}
          /\ \E r \in Requests : Overtaken(r, o) /\ WriteStatus(r)]_orderVars

\* A change along ORDER_TRANSITIONS, or the acceptance of the counter-offer
\* that is pending.
LegalChange(o) ==
    \/ orders[o].status \in {Null, orders'[o].status}
    \/ <<orders[o].status, orders'[o].status>> \in ORDER_TRANSITIONS
    \/ /\ orders'[o].status = "CONFIRMED"
       /\ orders[o].counterOffer # Null
       /\ orders'[o].agreedPrice = orders[o].counterOffer

\* The check of ORDER_TRANSITIONS and the write are two awaits apart.  A status
\* changes in another way only when an overtaken request writes, and then to
\* one that the order has had already, or that follows one it has had.
ChangeLegalOrOvertaken ==
    [][\A o \in OrderIds : LegalChange(o) \/
          /\ \E r \in Requests : Overtaken(r, o) /\ (WriteStatus(r) \/ WriteAcceptance(r))
          /\ \E s \in history[o] :
                s = orders'[o].status \/ Allowed(s, orders'[o].status)]_orderVars

(***************************************************************************)
(* What the documentation says and the code does not keep.                 *)
(***************************************************************************)
\* README.md, Order State Machine: only valid transitions are accepted.
OnlyValidTransitions ==
    [][\A o \in OrderIds :
          \/ orders[o].status \in {Null, orders'[o].status}
          \/ <<orders[o].status, orders'[o].status>> \in ORDER_TRANSITIONS]_orderVars

\* "... has signed the contract. Awaiting your signature." goes to one party
\* when the signature of the other has been marked: the mark is there.
SignatureNoticeTrue ==
    sent # Null /\ sent.about = "signature" =>
        IF sent.to = "PROVIDER" THEN orders[sent.order].isSignedByBuyer
                                ELSE orders[sent.order].isSignedByProvider
=============================================================================
