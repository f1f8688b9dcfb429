------------------------------ MODULE Payments ------------------------------
(***************************************************************************)
(* The escrow of src/payments: PaymentsService, the Stripe webhook and,    *)
(* through the three calls stripe.provider.ts makes, Stripe itself,        *)
(* composed with the life of the orders that are paid for (Orders).        *)
(*                                                                         *)
(* A payment handler awaits the store, then Stripe, then the store: what   *)
(* Stripe has done and what the Payment row says are two states, and the   *)
(* properties are about how far they may drift apart.                      *)
(***************************************************************************)
EXTENDS Orders

CONSTANTS
    IntentIds,      \* ids Stripe gives to payment intents
    PayRequests,    \* slots: payment requests that can be in flight at once
    Redelivery      \* TRUE when Stripe may deliver a webhook event again

ASSUME IntentsAssumption == Null \notin IntentIds
ASSUME RedeliveryAssumption == Redelivery \in BOOLEAN

VARIABLES
    payments,   \* the Payment row of an order (orderId is unique)
    payReq,     \* the payment request in each slot
    \* At Stripe and at the buyer's client:
    intents,    \* the payment intents
    secrets,    \* the intents whose clientSecret the buyer has been given
    webhooks,   \* intents with an amount_capturable_updated event to deliver
    \* An observation, read by no action:
    abandoned   \* intents whose request died between the capture and its entry

payVars == <<payments, payReq, intents, secrets, webhooks, abandoned>>
vars == <<orderVars, payVars>>

PaymentStatuses == {"PENDING", "HELD", "RELEASED", "REFUNDED"}

MaybeIntent == IntentIds \cup {Null}

PaymentRow ==
    [status: PaymentStatuses \cup {Null}, stripePaymentIntentId: MaybeIntent,
     amount: MaybePrice, stripeChargeId: BOOLEAN]      \* is the charge id set

NoPayment == [status |-> Null, stripePaymentIntentId |-> Null, amount |-> Null,
              stripeChargeId |-> FALSE]

\* capture_method is manual: a card is authorised first, captured later.
\* refunded: the hold was let go, or the charge was paid back.
IntentStatuses == {"open", "authorised", "captured"}

Intent == [status: IntentStatuses \cup {Null},
           order: OrderIds \cup {Null}, amount: MaybePrice, refunded: BOOLEAN]

NoIntent == [status |-> Null, order |-> Null, amount |-> Null,
             refunded |-> FALSE]

\* NULL is none of the statuses.
ASSUME PaymentNullAssumption == Null \notin PaymentStatuses \cup IntentStatuses

PayRequest ==
    [pc: {"createIntent", "createRow", "capture", "markReleased", "notify",
          "refund", "markRefunded"},
     order: OrderIds, intent: MaybeIntent, amount: MaybePrice]

PaymentsTypeOK ==
    /\ OrdersTypeOK
    /\ payments \in [OrderIds -> PaymentRow]
    /\ payReq \in [PayRequests -> PayRequest \cup {Idle}]
    /\ intents \in [IntentIds -> Intent]
    /\ secrets \subseteq IntentIds
    /\ webhooks \subseteq IntentIds
    /\ abandoned \subseteq IntentIds

PaymentsInit ==
    /\ OrdersInit
    /\ payments = [o \in OrderIds |-> NoPayment]
    /\ payReq = [p \in PayRequests |-> Idle]
    /\ intents = [i \in IntentIds |-> NoIntent]
    /\ secrets = {}
    /\ webhooks = {}
    /\ abandoned = {}

-----------------------------------------------------------------------------
PayBegin(p, q) == payReq[p] = Idle /\ payReq' = [payReq EXCEPT ![p] = q]

PayGoTo(p, pc) == payReq' = [payReq EXCEPT ![p].pc = pc]

PayFinish(p) == payReq' = [payReq EXCEPT ![p] = Idle]

-----------------------------------------------------------------------------
(***************************************************************************)
(* initiatePayment: read the order, create the intent, insert the row, and *)
(* only then answer with the client secret.  Two initiations can both see  *)
(* no row and both create an intent; the unique orderId fails the second.  *)
(***************************************************************************)
\* agreedPrice ?? initialQuote ?? 0
AmountDue(o) ==
    CASE orders[o].agreedPrice # Null  -> orders[o].agreedPrice
      [] orders[o].agreedPrice = Null /\ orders[o].initialQuote # Null
                                       -> orders[o].initialQuote
      [] OTHER                         -> 0

\* Mutant: the check of the amount is missing.
Payable_AnyAmount(o) ==
    /\ payments[o].status = Null
    /\ orders[o].status \in {"CONFIRMED", "CONTRACT_SIGNED"}

Payable(o) ==
    /\ payments[o].status = Null
    /\ orders[o].status \in {"CONFIRMED", "CONTRACT_SIGNED"}
    /\ AmountDue(o) > 0

ReadForPayment(p, o) ==
    /\ Payable(o)
    /\ PayBegin(p, [pc |-> "createIntent", order |-> o, intent |-> Null,
                    amount |-> AmountDue(o)])
    /\ OrdersUntouched(Null)
    /\ UNCHANGED <<payments, intents, secrets, webhooks, abandoned>>

\* Mutant: the client secret is handed out before the row is inserted.
SecretsOnCreation_Early(i) == secrets \cup {i}

SecretsOnCreation(i) == secrets

CreatePaymentIntent(p, i) ==
    LET q == payReq[p]
    IN  /\ q.pc = "createIntent"
        /\ intents[i].status = Null
        /\ intents' = [intents EXCEPT ![i] =
               [status |-> "open", order |-> q.order, amount |-> q.amount,
                refunded |-> FALSE]]
        /\ payReq' = [payReq EXCEPT ![p] =
                          [@ EXCEPT !.pc = "createRow", !.intent = i]]
        /\ secrets' = SecretsOnCreation(i)
        /\ OrdersUntouched(Null)
        /\ UNCHANGED <<payments, webhooks, abandoned>>

\* Mutant: nothing makes orderId unique.
RowInsertable_Always(o) == TRUE

RowInsertable(o) == payments[o].status = Null

\* Mutant: the row takes over the status of the intent.
InitialStatus_OfIntent == "open"

InitialStatus == "PENDING"

CreatePaymentRow(p) ==
    LET q == payReq[p]
    IN  /\ q.pc = "createRow"
        /\ RowInsertable(q.order)
        /\ payments' = [payments EXCEPT ![q.order] =
               [status |-> InitialStatus, stripePaymentIntentId |-> q.intent,
                amount |-> q.amount, stripeChargeId |-> FALSE]]
        /\ secrets' = secrets \cup {q.intent}
        /\ PayFinish(p)
        /\ OrdersUntouched(Null)
        /\ UNCHANGED <<intents, webhooks, abandoned>>

-----------------------------------------------------------------------------
\* The buyer's card is authorised with the client secret; Stripe emits the
\* event.
Authorise(i) ==
    /\ i \in secrets
    /\ intents[i].status = "open"
    /\ intents' = [intents EXCEPT ![i].status = "authorised"]
    /\ webhooks' = webhooks \cup {i}
    /\ OrdersUntouched(Null)
    /\ UNCHANGED <<payments, payReq, secrets, abandoned>>

\* The webhook controller on amount_capturable_updated: markHeld finds the
\* row by its intent and writes HELD, whatever the row says.  No later read
\* depends on the one that finds the row, so both are one step.
MarkHeld(i, o) ==
    /\ i \in webhooks
    /\ payments[o].stripePaymentIntentId = i
    /\ payments' = [payments EXCEPT ![o].status = "HELD"]
    /\ webhooks' = IF Redelivery THEN webhooks ELSE webhooks \ {i}
    /\ OrdersUntouched(Null)
    /\ UNCHANGED <<payReq, intents, secrets, abandoned>>

-----------------------------------------------------------------------------
(***************************************************************************)
(* releaseFunds: read, capture at Stripe, write RELEASED, tell the         *)
(* provider.                                                               *)
(***************************************************************************)
\* Mutant: the status of the order is not looked at.
Releasable_Any(o) == payments[o].status = "HELD"

Releasable(o) ==
    /\ orders[o].status = "DELIVERED"
    /\ payments[o].status = "HELD"

ReadForRelease(p, o) ==
    /\ Releasable(o)
    /\ PayBegin(p, [pc |-> "capture", order |-> o, amount |-> Null,
                    intent |-> payments[o].stripePaymentIntentId])
    /\ OrdersUntouched(Null)
    /\ UNCHANGED <<payments, intents, secrets, webhooks, abandoned>>

\* Mutant: the write of the row is forgotten.
AfterCapture_Forgotten == "notify"

AfterCapture == "markReleased"

\* Stripe captures an intent once, and only while the hold stands.
CapturePayment(p) ==
    LET i == payReq[p].intent
    IN  /\ payReq[p].pc = "capture"
        /\ intents[i].status = "authorised"
        /\ ~intents[i].refunded
        /\ intents' = [intents EXCEPT ![i].status = "captured"]
        /\ PayGoTo(p, AfterCapture)
        /\ OrdersUntouched(Null)
        /\ UNCHANGED <<payments, secrets, webhooks, abandoned>>

MarkReleased(p) ==
    LET q == payReq[p]
    IN  /\ q.pc = "markReleased"
        /\ payments' = [payments EXCEPT ![q.order] =
               [@ EXCEPT !.status = "RELEASED", !.stripeChargeId = TRUE]]
        /\ PayGoTo(p, "notify")
        /\ OrdersUntouched(Null)
        /\ UNCHANGED <<intents, secrets, webhooks, abandoned>>

NotifyReleased(p) ==
    /\ payReq[p].pc = "notify"
    /\ PayFinish(p)
    /\ OrdersUntouched([order |-> payReq[p].order, to |-> "PROVIDER",
                        about |-> "released"])
    /\ UNCHANGED <<payments, intents, secrets, webhooks, abandoned>>

-----------------------------------------------------------------------------
(***************************************************************************)
(* refund: read, refund at Stripe, write REFUNDED.  The id the handler     *)
(* passes is the charge id or, as long as the row has none, the intent id. *)
(* Stripe may accept either; where it refuses an intent id, the request    *)
(* ends there, which Fail allows.                                          *)
(***************************************************************************)
\* Mutant: any payment can be refunded.
Refundable_Any(o) == payments[o].status # Null

Refundable(o) == payments[o].status = "HELD"

ReadForRefund(p, o) ==
    /\ Refundable(o)
    /\ PayBegin(p, [pc |-> "refund", order |-> o, amount |-> Null,
                    intent |-> payments[o].stripePaymentIntentId])
    /\ OrdersUntouched(Null)
    /\ UNCHANGED <<payments, intents, secrets, webhooks, abandoned>>

RefundPayment(p) ==
    LET i == payReq[p].intent
    IN  /\ payReq[p].pc = "refund"
        /\ intents[i].status \in {"authorised", "captured"}
        /\ ~intents[i].refunded
        /\ intents' = [intents EXCEPT ![i].refunded = TRUE]
        /\ PayGoTo(p, "markRefunded")
        /\ OrdersUntouched(Null)
        /\ UNCHANGED <<payments, secrets, webhooks, abandoned>>

MarkRefunded(p) ==
    LET q == payReq[p]
    IN  /\ q.pc = "markRefunded"
        /\ payments' = [payments EXCEPT ![q.order].status = "REFUNDED"]
        /\ PayFinish(p)
        /\ OrdersUntouched(Null)
        /\ UNCHANGED <<intents, secrets, webhooks, abandoned>>

-----------------------------------------------------------------------------
\* Stripe refuses: the intent is not in a state for the call; or the insert
\* violates the unique orderId.  The handler throws.
\* Mutant: releaseFunds swallows the error of the capture.
AfterRefusal_Swallowed(q) ==
    IF q.pc = "capture" THEN [q EXCEPT !.pc = "markReleased"] ELSE Idle

AfterRefusal(q) == Idle

Refused(p) ==
    LET q == payReq[p]
    IN  /\ \/ q.pc = "createRow" /\ ~RowInsertable(q.order)
           \/ q.pc = "capture" /\ (\/ intents[q.intent].status # "authorised"
                                   \/ intents[q.intent].refunded)
           \/ q.pc = "refund" /\ intents[q.intent].refunded
        /\ payReq' = [payReq EXCEPT ![p] = AfterRefusal(q)]
        /\ OrdersUntouched(Null)
        /\ UNCHANGED <<payments, intents, secrets, webhooks, abandoned>>

PayFail(p) ==
    LET q == payReq[p]
    IN  /\ CanFail
        /\ q # Idle
        /\ PayFinish(p)
        /\ abandoned' = IF q.pc = "markReleased" THEN abandoned \cup {q.intent}
                        ELSE abandoned
        /\ OrdersUntouched(Null)
        /\ UNCHANGED <<payments, intents, secrets, webhooks>>

PayArrive(p) ==
    \E o \in OrderIds :
        ReadForPayment(p, o) \/ ReadForRelease(p, o) \/ ReadForRefund(p, o)

PayProceed(p) ==
    \/ \E i \in IntentIds : CreatePaymentIntent(p, i)
    \/ CreatePaymentRow(p)
    \/ CapturePayment(p)
    \/ MarkReleased(p)
    \/ NotifyReleased(p)
    \/ RefundPayment(p)
    \/ MarkRefunded(p)
    \/ Refused(p)

StripeNext ==
    \E i \in IntentIds :
        Authorise(i) \/ \E o \in OrderIds : MarkHeld(i, o)

PaymentsNext ==
    \/ OrdersNext /\ UNCHANGED payVars
    \/ \E p \in PayRequests : PayArrive(p) \/ PayProceed(p) \/ PayFail(p)
    \/ StripeNext

PaymentsSpec == PaymentsInit /\ [][PaymentsNext]_vars

-----------------------------------------------------------------------------
(***************************************************************************)
(* What holds whatever the interleaving of requests and webhooks.          *)
(***************************************************************************)
Authorised(i) == intents[i].status \in {"authorised", "captured"}

\* The money of an order is held through one intent: concurrent initiations
\* may leave an intent behind at Stripe, but its client secret never gets
\* out, so it is never authorised and the buyer is never charged twice.
OneChargePerOrder ==
    \A i, j \in IntentIds :
        Authorised(i) /\ Authorised(j) /\ intents[i].order = intents[j].order
            => i = j

\* Money held at Stripe is known to the ledger, with its amount: the row is
\* there before the buyer can authorise, and it keeps naming that intent.
AuthorisedIsRecorded ==
    \A i \in IntentIds : Authorised(i) =>
        /\ payments[intents[i].order].stripePaymentIntentId = i
        /\ payments[intents[i].order].amount = intents[i].amount

\* Funds are captured only after delivery: releaseFunds checks an order that
\* may have moved on (or back) by the time Stripe captures, yet no capture
\* happens on an order that never was DELIVERED.
CapturedAfterDelivery ==
    \A i \in IntentIds : intents[i].status = "captured" =>
        "DELIVERED" \in history[intents[i].order]

\* What the ledger says of an order has happened at Stripe.
LedgerMatches(o) ==
    LET i == payments[o].stripePaymentIntentId
    IN  /\ payments[o].status = "HELD" => Authorised(i)
        /\ payments[o].status = "RELEASED" => intents[i].status = "captured"
        /\ payments[o].status = "REFUNDED" => intents[i].refunded

\* The ledger never claims more than Stripe has done, and the provider is
\* told of released funds only when they were captured.
LedgerBackedByStripe ==
    /\ \A o \in OrderIds : LedgerMatches(o)
    /\ sent # Null /\ sent.about = "released" =>
          intents[payments[sent.order].stripePaymentIntentId].status = "captured"

\* Only an order with a price is paid for, so an instant booking, which never
\* gets one, never has a payment, nor an intent at Stripe.
OnlyPricedOrdersPaid ==
    \A i \in IntentIds : intents[i].status # Null =>
        /\ intents[i].amount > 0
        /\ ~orders[intents[i].order].isInstantBooking

(***************************************************************************)
(* The strengthening that makes these inductive: which intent is in whose  *)
(* hands.  An intent belongs to the request that created it, until the row *)
(* names it and the buyer gets its secret; a request that found the row    *)
(* works on the intent the row names.                                      *)
(***************************************************************************)
IntentConsistent(i) ==
    LET t == intents[i]
    IN  /\ t.status = Null => t = NoIntent
        /\ t.status # Null =>
               /\ t.order \in OrderIds
               /\ t.amount \in Prices
               /\ orders[t.order].status # Null
        /\ Authorised(i) => i \in secrets
        /\ t.refunded => Authorised(i)
        /\ i \in secrets =>
               /\ t.status # Null
               /\ payments[t.order].stripePaymentIntentId = i
               /\ payments[t.order].amount = t.amount
        /\ i \in webhooks => Authorised(i)

RowNamesIntent ==
    \A o \in OrderIds :
        LET i == payments[o].stripePaymentIntentId
        IN  IF payments[o].status = Null
            THEN payments[o] = NoPayment
            ELSE i \in secrets /\ intents[i].order = o

\* Request p still has to insert the row for intent i.
Inserts(p, i) == payReq[p].pc = "createRow" /\ payReq[p].intent = i

PayRequestWellFounded(p) ==
    LET q == payReq[p]
        t == intents[q.intent]
        row == payments[q.order]
    IN  /\ q.pc = "createIntent" =>
               /\ q.amount \in Prices
               /\ q.amount > 0
               /\ orders[q.order].status # Null
               /\ ~orders[q.order].isInstantBooking
        /\ q.pc = "createRow" =>
               /\ q.intent \in IntentIds \ secrets
               /\ t.status = "open"
               /\ t.order = q.order
               /\ t.amount = q.amount
               /\ \A r \in PayRequests \ {p} : ~Inserts(r, q.intent)
        /\ q.pc \in {"capture", "markReleased", "notify", "refund", "markRefunded"} =>
               row.status # Null /\ row.stripePaymentIntentId = q.intent
        /\ q.pc = "capture" => "DELIVERED" \in history[q.order]
        /\ q.pc \in {"markReleased", "notify"} => t.status = "captured"
        /\ q.pc = "markRefunded" => t.refunded

ReleaseNoticeHasRow ==
    sent # Null /\ sent.about = "released" => payments[sent.order].status # Null

PaymentsInv ==
    /\ OrdersInv
    /\ PaymentsTypeOK
    /\ CapturedAfterDelivery
    /\ LedgerBackedByStripe
    /\ OnlyPricedOrdersPaid
    /\ \A i \in IntentIds : IntentConsistent(i)
    /\ RowNamesIntent
    /\ \A p \in PayRequests : PayRequestWellFounded(p)
    /\ ReleaseNoticeHasRow

\* Where the money of an order is, by its intents at Stripe.
MoneyOf(o) ==
    LET paid == {i \in IntentIds : Authorised(i) /\ intents[i].order = o}
        captured == \E i \in paid : intents[i].status = "captured"
        refunded == \E i \in paid : intents[i].refunded
    IN  CASE paid = {}               -> "buyer"
          [] captured /\ refunded    -> "paidBack"
          [] ~captured /\ refunded   -> "letGo"
          [] captured /\ ~refunded   -> "provider"
          [] OTHER                   -> "held"

EscrowOf ==
    INSTANCE Escrow WITH
        Orders    <- OrderIds,
        Again     <- Redelivery,
        money     <- [o \in OrderIds |-> MoneyOf(o)],
        ledger    <- [o \in OrderIds |-> payments[o].status],
        delivered <- {o \in OrderIds : "DELIVERED" \in history[o]}

\* README.md, "Stripe's capture_method: manual holds the authorisation until
\* then": whatever dies in between, however requests overlap and events come
\* again, the money goes from the buyer to the escrow, from there once, to the
\* provider after delivery or back to the buyer, and from the provider at most
\* back.  The ledger follows it, and where it leaves the payment flow it does so
\* in the ways Escrow names: HELD for an event that came again, and the later
\* of a release and a refund that overlapped.
MoneyIsEscrowed == EscrowOf!EscrowSpec

\* Captured money is entered in the ledger: some release or refund is
\* recorded, unless the request died before it could.
CaptureIsRecorded ==
    \A i \in IntentIds : intents[i].status = "captured" ~>
        \/ i \in abandoned
        \/ \E o \in OrderIds : /\ payments[o].stripePaymentIntentId = i
                               /\ payments[o].status \in {"RELEASED", "REFUNDED"}

(***************************************************************************)
(* What the documentation says and the code does not keep.                 *)
(***************************************************************************)
\* README.md, Payment Flow: PENDING to HELD, HELD to RELEASED or REFUNDED,
\* and no other way.
PaymentFlow ==
    [][\A o \in OrderIds :
          \/ payments[o].status \in {Null, payments'[o].status}
          \/ <<payments[o].status, payments'[o].status>> \in
                {<<"PENDING", "HELD">>, <<"HELD", "RELEASED">>,
                 <<"HELD", "REFUNDED">>}]_vars
=============================================================================
