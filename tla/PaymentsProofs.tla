--------------------------- MODULE PaymentsProofs ---------------------------
(***************************************************************************)
(* The theorems about Payments, for every number of orders, intents and    *)
(* payment requests, with webhooks delivered again and requests dying.     *)
(*                                                                         *)
(* PaymentsInv says in whose hands every intent is.  Its parts about money *)
(* (MoneyInv) only change when Stripe or the ledger moves; its parts about *)
(* requests rest on what never goes back: an intent keeps its order, its   *)
(* amount and what has happened to it (IntentsGrow), a row keeps its       *)
(* intent (PaymentsKept), an order its history and its kind (OrdersKept).  *)
(***************************************************************************)
EXTENDS Payments, OrdersProofs

-----------------------------------------------------------------------------
(***************************************************************************)
(* What never goes away again.                                             *)
(***************************************************************************)
OrdersKept ==
    \A o \in OrderIds :
        /\ history[o] \subseteq history'[o]
        /\ orders[o].status # Null =>
               /\ orders'[o].status # Null
               /\ orders'[o].isInstantBooking = orders[o].isInstantBooking

IntentsGrow ==
    \A i \in IntentIds : intents[i].status # Null =>
        /\ intents'[i].status # Null
        /\ intents'[i].order = intents[i].order
        /\ intents'[i].amount = intents[i].amount
        /\ Authorised(i) => Authorised(i)'
        /\ intents[i].status = "captured" => intents'[i].status = "captured"
        /\ intents[i].refunded => intents'[i].refunded

PaymentsKept ==
    \A o \in OrderIds : payments[o].status # Null =>
        /\ payments'[o].status # Null
        /\ payments'[o].stripePaymentIntentId = payments[o].stripePaymentIntentId
        /\ payments'[o].amount = payments[o].amount

(***************************************************************************)
(* PaymentsInv, sorted by what can disturb it.                             *)
(***************************************************************************)
MoneyTypeOK ==
    /\ payments \in [OrderIds -> PaymentRow]
    /\ intents \in [IntentIds -> Intent]
    /\ secrets \subseteq IntentIds
    /\ webhooks \subseteq IntentIds

MoneyInv ==
    /\ MoneyTypeOK
    /\ CapturedAfterDelivery
    /\ OnlyPricedOrdersPaid
    /\ RowNamesIntent
    /\ \A i \in IntentIds : IntentConsistent(i)
    /\ \A o \in OrderIds : LedgerMatches(o)

NoticeInv ==
    sent # Null /\ sent.about = "released" =>
        /\ payments[sent.order].status # Null
        /\ intents[payments[sent.order].stripePaymentIntentId].status = "captured"

SlotsInv ==
    /\ payReq \in [PayRequests -> PayRequest \cup {Idle}]
    /\ \A p \in PayRequests : PayRequestWellFounded(p)

LEMMA PaymentsInvParts ==
  PaymentsInv <=> /\ OrdersInv
                  /\ MoneyInv
                  /\ NoticeInv
                  /\ SlotsInv
                  /\ abandoned \subseteq IntentIds
<1>1. LedgerBackedByStripe /\ ReleaseNoticeHasRow
         <=> (\A o \in OrderIds : LedgerMatches(o)) /\ NoticeInv
  BY DEF LedgerBackedByStripe, ReleaseNoticeHasRow, NoticeInv
<1>2. PaymentsTypeOK <=> /\ OrdersTypeOK
                         /\ MoneyTypeOK
                         /\ payReq \in [PayRequests -> PayRequest \cup {Idle}]
                         /\ abandoned \subseteq IntentIds
  BY DEF PaymentsTypeOK, MoneyTypeOK
<1>3. OrdersInv => OrdersTypeOK
  BY DEF OrdersInv
<1> QED
  BY <1>1, <1>2, <1>3 DEF PaymentsInv, MoneyInv, SlotsInv


\* The same of the next state.
LEMMA PaymentsInvNext ==
  ASSUME OrdersInv', MoneyInv', NoticeInv', SlotsInv', abandoned' \subseteq IntentIds
  PROVE  PaymentsInv'
<1>1. LedgerBackedByStripe' /\ ReleaseNoticeHasRow'
  BY DEF LedgerBackedByStripe, ReleaseNoticeHasRow, NoticeInv, MoneyInv
<1>2. PaymentsTypeOK'
  BY DEF PaymentsTypeOK, MoneyTypeOK, MoneyInv, SlotsInv, OrdersInv
<1> QED
  BY <1>1, <1>2 DEF PaymentsInv, MoneyInv, SlotsInv

-----------------------------------------------------------------------------
(***************************************************************************)
(* Steps that leave Stripe and the ledger as they are.                     *)
(***************************************************************************)
LEMMA MoneyUntouched ==
  ASSUME MoneyInv, OrdersKept, UNCHANGED <<payments, intents, secrets, webhooks>>
  PROVE  MoneyInv' /\ IntentsGrow /\ PaymentsKept
<1>1. /\ MoneyTypeOK
      /\ \A i \in IntentIds : IntentConsistent(i)
      /\ \A i \in IntentIds : Authorised(i)' <=> Authorised(i)
  BY DEF MoneyInv, Authorised
<1>2. IntentsGrow /\ PaymentsKept /\ MoneyTypeOK'
  BY <1>1 DEF IntentsGrow, PaymentsKept, MoneyTypeOK, Authorised
<1>3. CapturedAfterDelivery' /\ OnlyPricedOrdersPaid'
  <2>1. ASSUME NEW i \in IntentIds, intents[i].status # Null
        PROVE  intents[i].order \in OrderIds /\ orders[intents[i].order].status # Null
    BY <1>1, <2>1 DEF IntentConsistent
  <2>2. "captured" # Null
    BY PaymentNullAssumption DEF IntentStatuses
  <2> QED
    BY <1>1, <2>1, <2>2
       DEF MoneyInv, OrdersKept, CapturedAfterDelivery, OnlyPricedOrdersPaid
<1>4. RowNamesIntent' /\ \A o \in OrderIds : LedgerMatches(o)'
  BY <1>1 DEF MoneyInv, RowNamesIntent, LedgerMatches, Authorised
<1>5. \A i \in IntentIds : IntentConsistent(i)'
  BY <1>1 DEF IntentConsistent, OrdersKept
<1> QED
  BY <1>2, <1>3, <1>4, <1>5 DEF MoneyInv


-----------------------------------------------------------------------------
(***************************************************************************)
(* Steps at Stripe, and steps of the ledger.                               *)
(***************************************************************************)
\* The intent of a row moves on: it is authorised, captured or refunded.
LEMMA IntentMoves ==
  ASSUME MoneyInv, NEW i \in secrets, NEW t \in Intent,
         intents' = [intents EXCEPT ![i] = t],
         t.order = intents[i].order, t.amount = intents[i].amount,
         t.status \in {"authorised", "captured"},
         intents[i].status = "captured" => t.status = "captured",
         intents[i].refunded => t.refunded,
         t.status = "captured" => "DELIVERED" \in history[t.order],
         webhooks' \subseteq webhooks \cup {i},
         UNCHANGED <<payments, secrets, orders, history>>
  PROVE  MoneyInv' /\ IntentsGrow /\ PaymentsKept
<1>1. /\ MoneyTypeOK
      /\ i \in IntentIds
      /\ \A j \in IntentIds : IntentConsistent(j)
  BY DEF MoneyInv, MoneyTypeOK
<1>2. /\ intents'[i] = t
      /\ \A j \in IntentIds \ {i} : intents'[j] = intents[j]
  BY <1>1 DEF MoneyTypeOK
<1>3. /\ t.status # Null
      /\ Authorised(i)'
      /\ \A j \in IntentIds : Authorised(j) => Authorised(j)'
      /\ \A j \in IntentIds \ {i} : Authorised(j)' => Authorised(j)
  BY <1>1, <1>2, PaymentNullAssumption DEF Authorised, IntentStatuses
<1>4. IntentsGrow /\ PaymentsKept
  BY <1>1, <1>2, <1>3 DEF IntentsGrow, PaymentsKept
<1>5. MoneyTypeOK'
  BY <1>1 DEF MoneyTypeOK
<1>6. intents[i].status # Null
  BY <1>1 DEF IntentConsistent
<1>7. CapturedAfterDelivery'
  BY <1>2 DEF MoneyInv, CapturedAfterDelivery
<1>8. OnlyPricedOrdersPaid'
  BY <1>2, <1>6 DEF MoneyInv, OnlyPricedOrdersPaid
<1>9. RowNamesIntent'
  BY <1>1, <1>2 DEF MoneyInv, RowNamesIntent, MoneyTypeOK
<1>10. \A j \in IntentIds : IntentConsistent(j)'
  BY <1>1, <1>2, <1>3, <1>6 DEF IntentConsistent
<1>11. ASSUME NEW o \in OrderIds
       PROVE  LedgerMatches(o)'
  <2>1. LedgerMatches(o)
    BY DEF MoneyInv
  <2>2. payments[o].status # Null =>
           /\ payments[o].stripePaymentIntentId \in IntentIds
           /\ intents[payments[o].stripePaymentIntentId].status # Null
    BY <1>1 DEF MoneyInv, RowNamesIntent, IntentConsistent, MoneyTypeOK
  <2>3. Null \notin {"HELD", "RELEASED", "REFUNDED"}
    BY PaymentNullAssumption DEF PaymentStatuses
  <2> QED
    BY <1>4, <2>1, <2>2, <2>3 DEF LedgerMatches, IntentsGrow, Authorised
<1> QED
  BY <1>4, <1>5, <1>7, <1>8, <1>9, <1>10, <1>11 DEF MoneyInv

\* The row of an order gets a status that matches what Stripe has done.
LEMMA RowMoves ==
  ASSUME MoneyInv, NEW o \in OrderIds, NEW row \in PaymentRow,
         payments' = [payments EXCEPT ![o] = row],
         payments[o].status # Null, row.status # Null,
         row.stripePaymentIntentId = payments[o].stripePaymentIntentId,
         row.amount = payments[o].amount,
         LedgerMatches(o)', webhooks' \subseteq webhooks,
         UNCHANGED <<intents, secrets, orders, history>>
  PROVE  MoneyInv' /\ IntentsGrow /\ PaymentsKept
<1>1. /\ MoneyTypeOK
      /\ \A j \in IntentIds : IntentConsistent(j)
      /\ \A j \in IntentIds : Authorised(j)' <=> Authorised(j)
  BY DEF MoneyInv, Authorised
<1>2. /\ payments'[o] = row
      /\ \A n \in OrderIds \ {o} : payments'[n] = payments[n]
  BY <1>1 DEF MoneyTypeOK
<1>3. \A n \in OrderIds :
         /\ payments'[n].stripePaymentIntentId = payments[n].stripePaymentIntentId
         /\ payments'[n].amount = payments[n].amount
         /\ payments'[n].status = Null <=> payments[n].status = Null
  BY <1>2
<1>4. IntentsGrow /\ PaymentsKept
  BY <1>1, <1>3 DEF IntentsGrow, PaymentsKept, Authorised
<1>5. MoneyTypeOK'
  BY <1>1 DEF MoneyTypeOK
<1>6. CapturedAfterDelivery' /\ OnlyPricedOrdersPaid'
  BY DEF MoneyInv, CapturedAfterDelivery, OnlyPricedOrdersPaid
<1>7. RowNamesIntent'
  BY <1>2, <1>3 DEF MoneyInv, RowNamesIntent
<1>8. \A j \in IntentIds : IntentConsistent(j)'
  BY <1>1, <1>3 DEF IntentConsistent
<1>9. \A n \in OrderIds : LedgerMatches(n)'
  BY <1>2 DEF MoneyInv, LedgerMatches, Authorised
<1> QED
  BY <1>4, <1>5, <1>6, <1>7, <1>8, <1>9 DEF MoneyInv

\* A new intent: nobody can pay it yet.
LEMMA IntentCreated ==
  ASSUME MoneyInv, NEW i \in IntentIds, intents[i].status = Null,
         NEW o \in OrderIds, NEW amount \in Prices, amount > 0,
         orders[o].status # Null, ~orders[o].isInstantBooking,
         intents' = [intents EXCEPT ![i] =
             [status |-> "open", order |-> o, amount |-> amount,
              refunded |-> FALSE]],
         UNCHANGED <<payments, secrets, webhooks, orders, history>>
  PROVE  MoneyInv' /\ IntentsGrow /\ PaymentsKept
<1> DEFINE t == [status |-> "open", order |-> o, amount |-> amount,
                 refunded |-> FALSE]
<1>1. /\ MoneyTypeOK
      /\ \A j \in IntentIds : IntentConsistent(j)
      /\ "open" # Null
  BY PaymentNullAssumption DEF MoneyInv, IntentStatuses
<1>2. /\ intents'[i] = t
      /\ \A j \in IntentIds \ {i} : intents'[j] = intents[j]
  BY <1>1 DEF MoneyTypeOK
<1>3. i \notin secrets /\ i \notin webhooks /\ ~Authorised(i) /\ ~Authorised(i)'
  BY <1>1, <1>2 DEF IntentConsistent, Authorised
<1>4. \A j \in IntentIds : Authorised(j)' <=> Authorised(j)
  BY <1>2, <1>3 DEF Authorised
<1>5. IntentsGrow /\ PaymentsKept
  BY <1>2, <1>4 DEF IntentsGrow, PaymentsKept
<1>6. MoneyTypeOK'
  BY <1>1 DEF MoneyTypeOK, Intent, IntentStatuses, MaybePrice
<1>7. CapturedAfterDelivery'
  BY <1>2 DEF MoneyInv, CapturedAfterDelivery
<1>8. OnlyPricedOrdersPaid'
  BY <1>2 DEF MoneyInv, OnlyPricedOrdersPaid
<1>9. RowNamesIntent'
  BY <1>1, <1>2, <1>3 DEF MoneyInv, RowNamesIntent, MoneyTypeOK
<1>10. \A j \in IntentIds : IntentConsistent(j)'
  BY <1>1, <1>2, <1>3, <1>4 DEF IntentConsistent
<1>11. ASSUME NEW n \in OrderIds
       PROVE  LedgerMatches(n)'
  <2>1. LedgerMatches(n)
    BY DEF MoneyInv
  <2>2. payments[n].status # Null =>
           payments[n].stripePaymentIntentId \in IntentIds \ {i}
    BY <1>1, <1>3 DEF MoneyInv, RowNamesIntent, MoneyTypeOK
  <2>3. Null \notin {"HELD", "RELEASED", "REFUNDED"}
    BY PaymentNullAssumption DEF PaymentStatuses
  <2> QED
    BY <1>2, <2>1, <2>2, <2>3 DEF LedgerMatches, Authorised
<1> QED
  BY <1>5, <1>6, <1>7, <1>8, <1>9, <1>10, <1>11 DEF MoneyInv

\* The row for it: from here on the buyer has the secret.
LEMMA RowCreated ==
  ASSUME MoneyInv, NEW o \in OrderIds, payments[o].status = Null,
         NEW i \in IntentIds, i \notin secrets,
         intents[i].status = "open", intents[i].order = o,
         NEW amount \in MaybePrice, intents[i].amount = amount,
         payments' = [payments EXCEPT ![o] =
             [status |-> "PENDING", stripePaymentIntentId |-> i,
              amount |-> amount, stripeChargeId |-> FALSE]],
         secrets' = secrets \cup {i},
         UNCHANGED <<intents, webhooks, orders, history>>
  PROVE  MoneyInv' /\ IntentsGrow /\ PaymentsKept
<1> DEFINE row == [status |-> "PENDING", stripePaymentIntentId |-> i,
                   amount |-> amount, stripeChargeId |-> FALSE]
<1>1. /\ MoneyTypeOK
      /\ \A j \in IntentIds : IntentConsistent(j)
      /\ \A j \in IntentIds : Authorised(j)' <=> Authorised(j)
      /\ "PENDING" # Null /\ "open" # Null
  BY PaymentNullAssumption
     DEF MoneyInv, Authorised, IntentStatuses, PaymentStatuses
<1>2. /\ payments'[o] = row
      /\ \A n \in OrderIds \ {o} : payments'[n] = payments[n]
  BY <1>1 DEF MoneyTypeOK
<1>3. payments[o].stripePaymentIntentId = Null
  BY DEF MoneyInv, RowNamesIntent, NoPayment
<1>4. IntentsGrow /\ PaymentsKept
  BY <1>1, <1>2 DEF IntentsGrow, PaymentsKept, Authorised
<1>5. MoneyTypeOK'
  BY <1>1 DEF MoneyTypeOK, PaymentRow, PaymentStatuses, MaybeIntent
<1>6. CapturedAfterDelivery' /\ OnlyPricedOrdersPaid'
  BY DEF MoneyInv, CapturedAfterDelivery, OnlyPricedOrdersPaid
<1>7. RowNamesIntent'
  BY <1>1, <1>2 DEF MoneyInv, RowNamesIntent
<1>8. ASSUME NEW j \in IntentIds
      PROVE  IntentConsistent(j)'
  <2>1. j \in secrets => intents[j].order \in OrderIds \ {o}
    BY <1>1, <1>3, IntentsAssumption DEF IntentConsistent
  <2> QED
    BY <1>1, <1>2, <2>1 DEF IntentConsistent
<1>9. \A n \in OrderIds : LedgerMatches(n)'
  BY <1>2 DEF MoneyInv, LedgerMatches, Authorised
<1> QED
  BY <1>4, <1>5, <1>6, <1>7, <1>8, <1>9 DEF MoneyInv


-----------------------------------------------------------------------------
(***************************************************************************)
(* Requests and notices.                                                   *)
(***************************************************************************)
\* A request that is not idle is about an order, and works on the intent the
\* row of that order names, once it has found the row.
LEMMA PayAtPc ==
  ASSUME MoneyInv, SlotsInv, NEW p \in PayRequests, NEW q, q = payReq[p],
         q # Idle
  PROVE  /\ q \in PayRequest
         /\ q.order \in OrderIds
         /\ q.pc \in {"capture", "markReleased", "notify", "refund", "markRefunded"} =>
               /\ payments[q.order].status # Null
               /\ payments[q.order].stripePaymentIntentId = q.intent
               /\ q.intent \in secrets
               /\ q.intent \in IntentIds
               /\ intents[q.intent].status # Null
               /\ intents[q.intent].order = q.order
<1>1. q \in PayRequest /\ q.order \in OrderIds
  BY DEF SlotsInv, PayRequest
<1>2. ASSUME NEW o \in OrderIds, payments[o].status # Null,
             NEW i, i = payments[o].stripePaymentIntentId
      PROVE  i \in secrets /\ i \in IntentIds /\ intents[i].status # Null
             /\ intents[i].order = o
  BY <1>2 DEF MoneyInv, MoneyTypeOK, RowNamesIntent, IntentConsistent
<1>3. PayRequestWellFounded(p)
  BY DEF SlotsInv
<1> QED
  BY <1>1, <1>2, <1>3 DEF PayRequestWellFounded

\* A slot that stays where it is stays well founded, as long as nobody else
\* takes or touches the intent it has yet to insert a row for.
LEMMA PaySlotKept ==
  ASSUME MoneyInv, SlotsInv, OrdersKept, IntentsGrow, PaymentsKept,
         NEW p \in PayRequests, payReq'[p] = payReq[p],
         payReq[p].pc = "createRow" =>
             /\ intents'[payReq[p].intent] = intents[payReq[p].intent]
             /\ payReq[p].intent \notin secrets'
             /\ \A r \in PayRequests \ {p} : ~Inserts(r, payReq[p].intent)'
  PROVE  PayRequestWellFounded(p)'
<1> DEFINE q == payReq[p]
<1>1. CASE q = Idle
  BY <1>1 DEF Idle, PayRequestWellFounded
<1>2. CASE q # Idle
  <2>1. /\ q.order \in OrderIds
        /\ q.pc \in {"capture", "markReleased", "notify", "refund", "markRefunded"} =>
               /\ payments[q.order].status # Null
               /\ payments[q.order].stripePaymentIntentId = q.intent
               /\ q.intent \in IntentIds
               /\ intents[q.intent].status # Null
    BY <1>2, PayAtPc
  <2>2. PayRequestWellFounded(p)
    BY DEF SlotsInv
  <2> HIDE DEF q
  <2>3. payReq'[p] = q /\ payReq[p] = q
    BY DEF q
  <2>4. /\ q.pc \in {"capture", "markReleased", "notify", "refund", "markRefunded"} =>
               /\ payments'[q.order].status # Null
               /\ payments'[q.order].stripePaymentIntentId = q.intent
        /\ q.pc = "capture" => "DELIVERED" \in history'[q.order]
        /\ q.pc \in {"markReleased", "notify"} => intents'[q.intent].status = "captured"
        /\ q.pc = "markRefunded" => intents'[q.intent].refunded
    BY <2>1, <2>2, <2>3
       DEF PayRequestWellFounded, PaymentsKept, IntentsGrow, OrdersKept
  <2>5. q.pc = "createIntent" =>
               /\ q.amount \in Prices
               /\ q.amount > 0
               /\ orders'[q.order].status # Null
               /\ ~orders'[q.order].isInstantBooking
    BY <2>1, <2>2, <2>3 DEF PayRequestWellFounded, OrdersKept
  <2>6. q.pc = "createRow" =>
               /\ q.intent \in IntentIds \ secrets'
               /\ intents'[q.intent].status = "open"
               /\ intents'[q.intent].order = q.order
               /\ intents'[q.intent].amount = q.amount
               /\ \A r \in PayRequests \ {p} :
                     ~(payReq'[r].pc = "createRow" /\ payReq'[r].intent = q.intent)
    BY <2>2, <2>3 DEF PayRequestWellFounded, Inserts
  <2> QED
    BY <2>3, <2>4, <2>5, <2>6 DEF PayRequestWellFounded, Inserts
<1> QED
  BY <1>1, <1>2

\* Slot p goes on as q, which is well founded: so are the others.
LEMMA SlotMoves ==
  ASSUME MoneyInv, SlotsInv, OrdersKept, IntentsGrow, PaymentsKept,
         NEW p \in PayRequests, NEW q \in PayRequest \cup {Idle},
         payReq' = [payReq EXCEPT ![p] = q], PayRequestWellFounded(p)',
         \A r \in PayRequests \ {p} : \A i \in IntentIds : Inserts(r, i) =>
             /\ intents'[i] = intents[i]
             /\ i \notin secrets'
             /\ q.pc = "createRow" => q.intent # i
  PROVE  SlotsInv'
<1>1. /\ payReq' \in [PayRequests -> PayRequest \cup {Idle}]
      /\ payReq'[p] = q
      /\ \A r \in PayRequests \ {p} : payReq'[r] = payReq[r]
  BY DEF SlotsInv
<1>2. ASSUME NEW r \in PayRequests, r # p
      PROVE  PayRequestWellFounded(r)'
  <2>1. payReq[r].pc = "createRow" =>
            /\ payReq[r].intent \in IntentIds
            /\ Inserts(r, payReq[r].intent)
            /\ \A s \in PayRequests \ {r} : ~Inserts(s, payReq[r].intent)
    BY DEF SlotsInv, PayRequestWellFounded, Inserts
  <2>2. payReq[r].pc = "createRow" =>
            /\ intents'[payReq[r].intent] = intents[payReq[r].intent]
            /\ payReq[r].intent \notin secrets'
            /\ \A s \in PayRequests \ {r} : ~Inserts(s, payReq[r].intent)'
    BY <1>1, <1>2, <2>1 DEF Inserts
  <2> QED
    BY <1>1, <1>2, <2>2, PaySlotKept
<1> QED
  BY <1>1, <1>2 DEF SlotsInv

\* What was said of a release stays true, and the order service says nothing
\* of one.
LEMMA NoticeKept ==
  ASSUME OrdersTypeOK, MoneyInv, NoticeInv, IntentsGrow, PaymentsKept,
         sent' \in {sent, Null} \cup OrderMessage
  PROVE  NoticeInv'
<1>1. \A m \in OrderMessage : m.about # "released"
  BY DEF OrderMessage, Statuses, OrderNotices
<1>2. CASE sent' = sent /\ sent # Null /\ sent.about = "released"
  <2> DEFINE o == sent.order
             i == payments[o].stripePaymentIntentId
  <2>1. o \in OrderIds
    BY <1>2 DEF OrdersTypeOK, Message, OrderMessage
  <2>2. payments[o].status # Null /\ intents[i].status = "captured"
    BY <1>2 DEF NoticeInv
  <2>3. i \in IntentIds /\ intents[i].status # Null
    BY <2>1, <2>2 DEF MoneyInv, MoneyTypeOK, RowNamesIntent, IntentConsistent
  <2> HIDE DEF o
  <2>4. payments'[o].status # Null
        /\ intents'[payments'[o].stripePaymentIntentId].status = "captured"
    BY <2>1, <2>2, <2>3 DEF PaymentsKept, IntentsGrow
  <2> QED
    BY <1>2, <2>4 DEF NoticeInv, o
<1> QED
  BY <1>1, <1>2 DEF NoticeInv


-----------------------------------------------------------------------------
(***************************************************************************)
(* PaymentsInv is kept by steps of three kinds.                            *)
(***************************************************************************)
\* Steps of payments leave orders alone.
LEMMA OrdersStay ==
  ASSUME PaymentsInv, OrdersUntouched(Null)
  PROVE  /\ OrdersInv' /\ OrdersKept /\ NoticeInv'
         /\ UNCHANGED <<orders, history>>
         /\ sent' = Null
<1>1. OrdersInv /\ OrdersTypeOK
  BY DEF PaymentsInv, PaymentsTypeOK
<1>2. OrdersInv'
  BY <1>1, UntouchedKeepsOrders
<1> QED
  BY <1>1, <1>2 DEF OrdersUntouched, OrdersKept, NoticeInv

\* Slot p goes on as q.
LEMMA SlotStep ==
  ASSUME PaymentsInv, OrdersUntouched(Null), MoneyInv', IntentsGrow, PaymentsKept,
         abandoned' \subseteq IntentIds,
         NEW p \in PayRequests, NEW q \in PayRequest \cup {Idle},
         payReq' = [payReq EXCEPT ![p] = q],
         q # Idle => PayRequestWellFounded(p)',
         \A r \in PayRequests \ {p} : \A i \in IntentIds : Inserts(r, i) =>
             /\ intents'[i] = intents[i]
             /\ i \notin secrets'
             /\ q.pc = "createRow" => q.intent # i
  PROVE  PaymentsInv'
<1>1. MoneyInv /\ SlotsInv
  BY PaymentsInvParts
<1>2. OrdersInv' /\ OrdersKept /\ NoticeInv'
  BY OrdersStay
<1>3. payReq'[p] = q
  BY <1>1 DEF SlotsInv
<1>4. PayRequestWellFounded(p)'
  BY <1>3 DEF PayRequestWellFounded, Idle
<1>5. SlotsInv'
  BY <1>1, <1>2, <1>4, SlotMoves
<1> QED
  BY <1>2, <1>5, PaymentsInvNext

\* Slot p goes on as q, and that is all.
LEMMA QuietStep ==
  ASSUME PaymentsInv, OrdersUntouched(Null),
         UNCHANGED <<payments, intents, secrets, webhooks>>,
         abandoned' \subseteq IntentIds,
         NEW p \in PayRequests, NEW q \in PayRequest \cup {Idle},
         payReq' = [payReq EXCEPT ![p] = q],
         q.pc # "createRow",
         q # Idle => PayRequestWellFounded(p)'
  PROVE  PaymentsInv'
<1>1. MoneyInv /\ SlotsInv
  BY PaymentsInvParts
<1>2. MoneyInv' /\ IntentsGrow /\ PaymentsKept
  BY <1>1, OrdersStay, MoneyUntouched
<1>3. \A r \in PayRequests : \A i \in IntentIds : Inserts(r, i) => i \notin secrets
  BY <1>1 DEF SlotsInv, PayRequestWellFounded, Inserts
<1> QED
  BY <1>2, <1>3, SlotStep

\* No slot moves, and no intent without a row.
LEMMA StripeStep ==
  ASSUME PaymentsInv, OrdersUntouched(Null), MoneyInv', IntentsGrow, PaymentsKept,
         UNCHANGED <<payReq, secrets, abandoned>>,
         \A i \in IntentIds \ secrets : intents'[i] = intents[i]
  PROVE  PaymentsInv'
<1>1. MoneyInv /\ SlotsInv /\ abandoned \subseteq IntentIds
  BY PaymentsInvParts
<1>2. OrdersInv' /\ OrdersKept /\ NoticeInv'
  BY OrdersStay
<1>3. \A p \in PayRequests : payReq[p].pc = "createRow" =>
         /\ payReq[p].intent \in IntentIds \ secrets
         /\ \A r \in PayRequests \ {p} : ~Inserts(r, payReq[p].intent)
  BY <1>1 DEF SlotsInv, PayRequestWellFounded
<1>4. \A p \in PayRequests : PayRequestWellFounded(p)'
  <2> SUFFICES ASSUME NEW p \in PayRequests PROVE PayRequestWellFounded(p)'
    OBVIOUS
  <2>1. payReq[p].pc = "createRow" =>
            /\ intents'[payReq[p].intent] = intents[payReq[p].intent]
            /\ payReq[p].intent \notin secrets'
            /\ \A r \in PayRequests \ {p} : ~Inserts(r, payReq[p].intent)'
    BY <1>3 DEF Inserts
  <2> QED
    BY <1>1, <1>2, <2>1, PaySlotKept
<1>5. SlotsInv'
  BY <1>1, <1>4 DEF SlotsInv
<1> QED
  BY <1>1, <1>2, <1>5, PaymentsInvNext

\* A step on orders.
LEMMA OrderStep ==
  ASSUME PaymentsInv, [OrdersNext]_orderVars, UNCHANGED payVars
  PROVE  PaymentsInv'
<1>1. MoneyInv /\ SlotsInv /\ NoticeInv /\ OrdersInv /\ OrdersTypeOK
      /\ abandoned \subseteq IntentIds
  BY PaymentsInvParts DEF OrdersInv
<1>2. OrdersInv'
  BY <1>1, InvStep
<1>3. OrdersKept
  BY <1>1, HistoryGrows, RowsStay DEF OrdersKept
<1>4. UNCHANGED <<payments, payReq, intents, secrets, webhooks, abandoned>>
  BY DEF payVars
<1>5. MoneyInv' /\ IntentsGrow /\ PaymentsKept
  BY <1>1, <1>3, <1>4, MoneyUntouched
<1>6. NoticeInv'
  BY <1>1, <1>5, OrdersSend, NoticeKept
<1>7. \A p \in PayRequests : PayRequestWellFounded(p)'
  <2> SUFFICES ASSUME NEW p \in PayRequests PROVE PayRequestWellFounded(p)'
    OBVIOUS
  <2>1. payReq[p].pc = "createRow" =>
            /\ payReq[p].intent \notin secrets
            /\ \A r \in PayRequests \ {p} : ~Inserts(r, payReq[p].intent)'
    BY <1>1, <1>4 DEF SlotsInv, PayRequestWellFounded, Inserts
  <2> QED
    BY <1>1, <1>3, <1>4, <1>5, <2>1, PaySlotKept
<1>8. SlotsInv'
  BY <1>1, <1>4, <1>7 DEF SlotsInv
<1> QED
  BY <1>1, <1>2, <1>4, <1>5, <1>6, <1>8, PaymentsInvNext


-----------------------------------------------------------------------------
(***************************************************************************)
(* PaymentsInv is inductive.                                               *)
(***************************************************************************)
\* What is due on an order that can be paid for is a price somebody put on
\* it, so it is no instant booking.
LEMMA DueIsPriced ==
  ASSUME OrdersInv, NEW o \in OrderIds, Payable(o)
  PROVE  /\ AmountDue(o) \in Prices
         /\ AmountDue(o) > 0
         /\ orders[o].status # Null
         /\ ~orders[o].isInstantBooking
<1>1. orders[o] \in OrderRow
  BY DEF OrdersInv, OrdersTypeOK
<1>2. AmountDue(o) > 0 /\ orders[o].status # Null
  BY NullAssumption DEF Payable, Statuses
<1>3. AmountDue(o) \in Prices
  BY <1>1, <1>2 DEF AmountDue, OrderRow, MaybePrice
<1>4. ~orders[o].isInstantBooking
  <2> SUFFICES ASSUME orders[o].isInstantBooking PROVE FALSE
    OBVIOUS
  <2>1. orders[o].initialQuote \in {Null, 0} /\ orders[o].agreedPrice = Null
    BY DEF OrdersInv, InstantBookingUnpriced
  <2> QED
    BY <1>2, <2>1 DEF AmountDue
<1> QED
  BY <1>2, <1>3, <1>4

LEMMA PayInvInit == PaymentsInit => PaymentsInv
<1> SUFFICES ASSUME PaymentsInit PROVE PaymentsInv
  OBVIOUS
<1>1. OrdersInv
  BY InvInit DEF PaymentsInit
<1>2. MoneyTypeOK
  BY DEF PaymentsInit, MoneyTypeOK, NoPayment, PaymentRow, NoIntent, Intent,
         MaybeIntent, MaybePrice
<1>3. /\ \A i \in IntentIds : intents[i] = NoIntent
      /\ \A o \in OrderIds : payments[o] = NoPayment
      /\ \A p \in PayRequests : payReq[p] = Idle
  BY DEF PaymentsInit
<1>4. Null \notin IntentStatuses /\ Null \notin PaymentStatuses
  BY PaymentNullAssumption
<1>5. \A i \in IntentIds : intents[i].status = Null /\ ~Authorised(i)
                           /\ ~intents[i].refunded /\ IntentConsistent(i)
  BY <1>3, <1>4
     DEF NoIntent, Authorised, IntentStatuses, IntentConsistent, PaymentsInit
<1>6. \A o \in OrderIds : payments[o].status = Null /\ LedgerMatches(o)
  <2>0. NoPayment.status = Null
    BY DEF NoPayment
  <2>1. \A o \in OrderIds : payments[o].status = Null
    BY <1>3, <2>0
  <2> QED
    BY <1>4, <2>1 DEF PaymentStatuses, LedgerMatches
<1>7. CapturedAfterDelivery /\ OnlyPricedOrdersPaid /\ RowNamesIntent
  BY <1>3, <1>4, <1>5, <1>6
     DEF CapturedAfterDelivery, OnlyPricedOrdersPaid, RowNamesIntent, IntentStatuses
<1>8. NoticeInv
  BY DEF PaymentsInit, OrdersInit, NoticeInv
<1>9. SlotsInv
  BY <1>3 DEF PaymentsInit, SlotsInv, PayRequestWellFounded, Idle
<1> QED
  BY <1>1, <1>2, <1>5, <1>6, <1>7, <1>8, <1>9, PaymentsInvParts
     DEF MoneyInv, PaymentsInit

LEMMA PayInvStep == PaymentsInv /\ [PaymentsNext]_vars => PaymentsInv'
<1> SUFFICES ASSUME PaymentsInv, [PaymentsNext]_vars PROVE PaymentsInv'
  OBVIOUS
<1>1. /\ OrdersInv /\ MoneyInv /\ NoticeInv /\ SlotsInv /\ MoneyTypeOK
      /\ abandoned \subseteq IntentIds
      /\ \A i \in IntentIds : IntentConsistent(i)
      /\ \A o \in OrderIds : LedgerMatches(o)
  BY PaymentsInvParts DEF MoneyInv
<1>2. CASE [OrdersNext]_orderVars /\ UNCHANGED payVars
  BY <1>2, OrderStep
\* The reads, and the ends of a request: only a slot moves.
<1>3. ASSUME NEW p \in PayRequests, NEW o \in OrderIds, ReadForPayment(p, o)
      PROVE  PaymentsInv'
  <2> DEFINE q == [pc |-> "createIntent", order |-> o, intent |-> Null,
                   amount |-> AmountDue(o)]
  <2>1. /\ AmountDue(o) \in Prices /\ AmountDue(o) > 0
        /\ orders[o].status # Null /\ ~orders[o].isInstantBooking
    BY <1>1, <1>3, DueIsPriced DEF ReadForPayment
  <2>2. /\ payReq' = [payReq EXCEPT ![p] = q]
        /\ OrdersUntouched(Null)
        /\ UNCHANGED <<payments, intents, secrets, webhooks, abandoned>>
    BY <1>3 DEF ReadForPayment, PayBegin
  <2>3. q \in PayRequest
    BY <2>1 DEF PayRequest, MaybeIntent, MaybePrice
  <2>4. PayRequestWellFounded(p)'
    <3>1. payReq'[p] = q /\ orders' = orders
      BY <1>1, <2>2 DEF SlotsInv, OrdersUntouched
    <3> QED
      BY <2>1, <3>1 DEF PayRequestWellFounded
  <2>5. q.pc # "createRow"
    OBVIOUS
  <2> HIDE DEF q
  <2> QED
    BY <1>1, <2>2, <2>3, <2>4, <2>5, QuietStep
<1>4. ASSUME NEW p \in PayRequests, NEW o \in OrderIds, ReadForRelease(p, o)
      PROVE  PaymentsInv'
  <2> DEFINE q == [pc |-> "capture", order |-> o, amount |-> Null,
                   intent |-> payments[o].stripePaymentIntentId]
  <2>1. /\ payments[o] \in PaymentRow /\ payments[o].status # Null
        /\ "DELIVERED" \in history[o]
    <3>1. orders[o].status = "DELIVERED" /\ payments[o].status = "HELD"
      BY <1>4 DEF ReadForRelease, Releasable
    <3> QED
      BY <1>1, <3>1, NullAssumption, PaymentNullAssumption
         DEF OrdersInv, NoStageSkipped, MoneyTypeOK, Statuses, PaymentStatuses
  <2>2. /\ payReq' = [payReq EXCEPT ![p] = q]
        /\ OrdersUntouched(Null)
        /\ UNCHANGED <<payments, intents, secrets, webhooks, abandoned>>
    BY <1>4 DEF ReadForRelease, PayBegin
  <2>3. q \in PayRequest
    BY <2>1 DEF PayRequest, PaymentRow, MaybePrice
  <2>4. PayRequestWellFounded(p)'
    <3>1. payReq'[p] = q /\ history' = history
      BY <1>1, <2>2 DEF SlotsInv, OrdersUntouched
    <3> QED
      BY <2>1, <2>2, <3>1 DEF PayRequestWellFounded
  <2>5. q.pc # "createRow"
    OBVIOUS
  <2> HIDE DEF q
  <2> QED
    BY <1>1, <2>2, <2>3, <2>4, <2>5, QuietStep
<1>5. ASSUME NEW p \in PayRequests, NEW o \in OrderIds, ReadForRefund(p, o)
      PROVE  PaymentsInv'
  <2> DEFINE q == [pc |-> "refund", order |-> o, amount |-> Null,
                   intent |-> payments[o].stripePaymentIntentId]
  <2>1. payments[o] \in PaymentRow /\ payments[o].status # Null
    BY <1>1, <1>5, PaymentNullAssumption
       DEF ReadForRefund, Refundable, MoneyTypeOK, PaymentStatuses
  <2>2. /\ payReq' = [payReq EXCEPT ![p] = q]
        /\ OrdersUntouched(Null)
        /\ UNCHANGED <<payments, intents, secrets, webhooks, abandoned>>
    BY <1>5 DEF ReadForRefund, PayBegin
  <2>3. q \in PayRequest
    BY <2>1 DEF PayRequest, PaymentRow, MaybePrice
  <2>4. PayRequestWellFounded(p)'
    <3>1. payReq'[p] = q
      BY <1>1, <2>2 DEF SlotsInv
    <3> QED
      BY <2>1, <2>2, <3>1 DEF PayRequestWellFounded
  <2>5. q.pc # "createRow"
    OBVIOUS
  <2> HIDE DEF q
  <2> QED
    BY <1>1, <2>2, <2>3, <2>4, <2>5, QuietStep
<1>6. ASSUME NEW p \in PayRequests, Refused(p) \/ PayFail(p)
      PROVE  PaymentsInv'
  <2>1. /\ payReq' = [payReq EXCEPT ![p] = Idle]
        /\ OrdersUntouched(Null)
        /\ UNCHANGED <<payments, intents, secrets, webhooks>>
    BY <1>6 DEF Refused, PayFail, PayFinish, AfterRefusal
  <2>2. abandoned' \subseteq IntentIds
    <3>1. payReq[p].pc = "markReleased" => payReq[p].intent \in IntentIds
      BY <1>1, PayAtPc DEF Idle
    <3> QED
      BY <1>1, <1>6, <3>1 DEF Refused, PayFail
  <2>3. Idle.pc # "createRow"
    BY DEF Idle
  <2> QED
    BY <1>1, <2>1, <2>2, <2>3, QuietStep
<1>7. ASSUME NEW p \in PayRequests, NotifyReleased(p)
      PROVE  PaymentsInv'
  <2> DEFINE o == payReq[p].order
             m == [order |-> o, to |-> "PROVIDER", about |-> "released"]
  <2>1. /\ o \in OrderIds
        /\ payments[o].status # Null
        /\ intents[payments[o].stripePaymentIntentId].status = "captured"
    <3>1. payReq[p].pc = "notify"
      BY <1>7 DEF NotifyReleased
    <3>2. PayRequestWellFounded(p) /\ payReq[p] # Idle
      BY <1>1, <3>1 DEF SlotsInv, Idle
    <3> QED
      BY <1>1, <3>1, <3>2, PayAtPc DEF PayRequestWellFounded
  <2>2. /\ payReq' = [payReq EXCEPT ![p] = Idle]
        /\ OrdersUntouched(m)
        /\ UNCHANGED <<payments, intents, secrets, webhooks, abandoned>>
    BY <1>7 DEF NotifyReleased, PayFinish
  <2>3. m \in Message /\ m.about \notin Statuses /\ m.order = o
    BY <2>1 DEF Message, Parties, Statuses
  <2> HIDE DEF m
  <2>4. OrdersInv' /\ OrdersKept /\ sent' = m
    BY <1>1, <2>2, <2>3, UntouchedKeepsOrders DEF OrdersUntouched, OrdersKept
  <2>5. MoneyInv' /\ IntentsGrow /\ PaymentsKept
    BY <1>1, <2>2, <2>4, MoneyUntouched
  <2>6. NoticeInv'
    BY <2>1, <2>2, <2>3, <2>4 DEF NoticeInv
  <2>7. PayRequestWellFounded(p)'
    <3>1. payReq'[p] = Idle
      BY <1>1, <2>2 DEF SlotsInv
    <3> QED
      BY <3>1 DEF PayRequestWellFounded, Idle
  <2>8. SlotsInv'
    <3>1. \A r \in PayRequests : \A i \in IntentIds : Inserts(r, i) => i \notin secrets
      BY <1>1 DEF SlotsInv, PayRequestWellFounded, Inserts
    <3>2. Idle.pc # "createRow"
      BY DEF Idle
    <3> QED
      BY <1>1, <2>2, <2>4, <2>5, <2>7, <3>1, <3>2, SlotMoves
  <2> QED
    BY <1>1, <2>2, <2>4, <2>5, <2>6, <2>8, PaymentsInvNext
\* The intent, and the row for it.
<1>8. ASSUME NEW p \in PayRequests, NEW i \in IntentIds, CreatePaymentIntent(p, i)
      PROVE  PaymentsInv'
  <2>0. PICK q : q = payReq[p]
    OBVIOUS
  <2> DEFINE n == [q EXCEPT !.pc = "createRow", !.intent = i]
  <2>1. q.pc = "createIntent" /\ q # Idle
    BY <1>8, <2>0 DEF CreatePaymentIntent, Idle
  <2>2. q \in PayRequest /\ q.order \in OrderIds
    BY <1>1, <2>0, <2>1, PayAtPc
  <2>3. /\ q.amount \in Prices /\ q.amount > 0
        /\ orders[q.order].status # Null /\ ~orders[q.order].isInstantBooking
    BY <1>1, <2>0, <2>1 DEF SlotsInv, PayRequestWellFounded
  <2>4. /\ intents[i].status = Null
        /\ intents' = [intents EXCEPT ![i] =
               [status |-> "open", order |-> q.order, amount |-> q.amount,
                refunded |-> FALSE]]
        /\ payReq' = [payReq EXCEPT ![p] = n]
        /\ OrdersUntouched(Null)
        /\ UNCHANGED <<payments, secrets, webhooks, abandoned>>
    BY <1>8, <2>0 DEF CreatePaymentIntent, SecretsOnCreation
  <2>5. n \in PayRequest /\ n.pc = "createRow" /\ n.intent = i
        /\ n.order = q.order /\ n.amount = q.amount
    BY <2>2 DEF PayRequest, MaybeIntent
  <2> HIDE DEF n
  <2>6. MoneyInv' /\ IntentsGrow /\ PaymentsKept
    BY <1>1, <2>2, <2>3, <2>4, IntentCreated, OrdersStay
  <2>7. \A r \in PayRequests : \A j \in IntentIds :
           Inserts(r, j) => j # i /\ j \notin secrets
    BY <1>1, <2>4, PaymentNullAssumption
       DEF SlotsInv, PayRequestWellFounded, Inserts, IntentStatuses
  <2>8. /\ intents'[i] = [status |-> "open", order |-> q.order,
                          amount |-> q.amount, refunded |-> FALSE]
        /\ \A j \in IntentIds \ {i} : intents'[j] = intents[j]
    BY <1>1, <2>4 DEF MoneyTypeOK
  <2>9. PayRequestWellFounded(p)'
    <3>1. payReq'[p] = n /\ \A r \in PayRequests \ {p} : payReq'[r] = payReq[r]
      BY <1>1, <2>4 DEF SlotsInv
    <3>2. i \notin secrets'
      BY <1>1, <2>4 DEF IntentConsistent
    <3> QED
      BY <2>5, <2>7, <2>8, <3>1, <3>2 DEF PayRequestWellFounded, Inserts
  <2>10. \A r \in PayRequests \ {p} : \A j \in IntentIds : Inserts(r, j) =>
            /\ intents'[j] = intents[j]
            /\ j \notin secrets'
            /\ n.pc = "createRow" => n.intent # j
    BY <2>4, <2>5, <2>7, <2>8
  <2>11. /\ payReq' = [payReq EXCEPT ![p] = n]
         /\ OrdersUntouched(Null)
         /\ abandoned' \subseteq IntentIds
         /\ n \in PayRequest \cup {Idle}
    BY <1>1, <2>4, <2>5
  <2> QED
    BY <2>6, <2>9, <2>10, <2>11, SlotStep
<1>9. ASSUME NEW p \in PayRequests, CreatePaymentRow(p)
      PROVE  PaymentsInv'
  <2> DEFINE q == payReq[p]
  <2>1. q.pc = "createRow" /\ q # Idle
    BY <1>9 DEF CreatePaymentRow, Idle
  <2>2. q.order \in OrderIds /\ q.amount \in MaybePrice
    BY <1>1, <2>1, PayAtPc DEF PayRequest
  <2>3. /\ q.intent \in IntentIds \ secrets
        /\ intents[q.intent].status = "open"
        /\ intents[q.intent].order = q.order
        /\ intents[q.intent].amount = q.amount
        /\ \A r \in PayRequests \ {p} : ~Inserts(r, q.intent)
    BY <1>1, <2>1 DEF SlotsInv, PayRequestWellFounded
  <2>4. /\ payments[q.order].status = Null
        /\ payments' = [payments EXCEPT ![q.order] =
               [status |-> "PENDING", stripePaymentIntentId |-> q.intent,
                amount |-> q.amount, stripeChargeId |-> FALSE]]
        /\ secrets' = secrets \cup {q.intent}
        /\ payReq' = [payReq EXCEPT ![p] = Idle]
        /\ OrdersUntouched(Null)
        /\ UNCHANGED <<intents, webhooks, abandoned>>
    BY <1>9 DEF CreatePaymentRow, RowInsertable, InitialStatus, PayFinish
  <2> HIDE DEF q
  <2>5. MoneyInv' /\ IntentsGrow /\ PaymentsKept
    BY <1>1, <2>2, <2>3, <2>4, RowCreated, OrdersStay
  <2>6. \A r \in PayRequests : \A j \in IntentIds : Inserts(r, j) => j \notin secrets
    BY <1>1 DEF SlotsInv, PayRequestWellFounded, Inserts
  <2>7. \A r \in PayRequests \ {p} : \A j \in IntentIds : Inserts(r, j) =>
            /\ intents'[j] = intents[j]
            /\ j \notin secrets'
            /\ Idle.pc = "createRow" => Idle.intent # j
    BY <2>3, <2>4, <2>6 DEF Inserts, Idle
  <2> QED
    BY <1>1, <2>4, <2>5, <2>7, SlotStep
\* The intent of the row moves on, and with it the slot.
<1>10. ASSUME NEW p \in PayRequests, CapturePayment(p) \/ RefundPayment(p)
       PROVE  PaymentsInv'
  <2> DEFINE q == payReq[p]
             i == q.intent
             t == IF q.pc = "capture" THEN [intents[i] EXCEPT !.status = "captured"]
                  ELSE [intents[i] EXCEPT !.refunded = TRUE]
             n == [q EXCEPT !.pc = IF q.pc = "capture" THEN "markReleased"
                                   ELSE "markRefunded"]
  <2>1. q.pc \in {"capture", "refund"} /\ q # Idle
    BY <1>10 DEF CapturePayment, RefundPayment, Idle
  <2>2. /\ q \in PayRequest
        /\ q.order \in OrderIds
        /\ payments[q.order].status # Null
        /\ payments[q.order].stripePaymentIntentId = i
        /\ i \in secrets
        /\ i \in IntentIds
        /\ intents[i].order = q.order
        /\ q.pc = "capture" => "DELIVERED" \in history[q.order]
    <3>1. PayRequestWellFounded(p)
      BY <1>1 DEF SlotsInv
    <3> QED
      BY <1>1, <2>1, <3>1, PayAtPc DEF PayRequestWellFounded
  <2>3. /\ intents' = [intents EXCEPT ![i] = t]
        /\ payReq' = [payReq EXCEPT ![p] = n]
        /\ q.pc = "capture" => intents[i].status = "authorised"
        /\ q.pc = "refund" => intents[i].status \in {"authorised", "captured"}
        /\ OrdersUntouched(Null)
        /\ UNCHANGED <<payments, secrets, webhooks, abandoned>>
    BY <1>10 DEF CapturePayment, RefundPayment, PayGoTo, AfterCapture
  <2>4. intents[i] \in Intent
    BY <1>1, <2>2 DEF MoneyTypeOK
  <2>5. /\ t \in Intent
        /\ t.order = q.order
        /\ t.amount = intents[i].amount
        /\ t.status = IF q.pc = "capture" THEN "captured" ELSE intents[i].status
        /\ t.refunded <=> (intents[i].refunded \/ q.pc # "capture")
    <3> HIDE DEF q
    <3> QED
      BY <2>2, <2>4 DEF Intent, IntentStatuses
  <2>6. /\ n \in PayRequest
        /\ n.pc = IF q.pc = "capture" THEN "markReleased" ELSE "markRefunded"
        /\ n.order = q.order
        /\ n.intent = i
    <3> HIDE DEF q
    <3>1. q \in PayRequest
      BY <2>2
    <3> QED
      BY <3>1 DEF PayRequest, i
  <2> HIDE DEF t, n
  <2>7. t.status = "captured" => "DELIVERED" \in history[t.order]
    BY <1>1, <2>1, <2>2, <2>3, <2>5 DEF MoneyInv, CapturedAfterDelivery
  <2>8. MoneyInv' /\ IntentsGrow /\ PaymentsKept
    <3> HIDE DEF q
    <3> HIDE DEF i
    <3> QED
      BY <1>1, <2>1, <2>2, <2>3, <2>5, <2>7, IntentMoves, OrdersStay
  <2>9. PayRequestWellFounded(p)'
    <3>1. payReq'[p] = n /\ intents'[i] = t
      BY <1>1, <2>2, <2>3 DEF SlotsInv, MoneyTypeOK
    <3> HIDE DEF i
    <3>2. /\ n.pc \in {"markReleased", "markRefunded"}
          /\ payments'[n.order].status # Null
          /\ payments'[n.order].stripePaymentIntentId = n.intent
          /\ n.pc = "markReleased" => intents'[n.intent].status = "captured"
          /\ n.pc = "markRefunded" => intents'[n.intent].refunded
      BY <2>1, <2>2, <2>3, <2>5, <2>6, <3>1
    <3> QED
      BY <3>1, <3>2 DEF PayRequestWellFounded
  <2>10. \A r \in PayRequests : \A j \in IntentIds :
            Inserts(r, j) => intents'[j] = intents[j] /\ j \notin secrets'
    <3>1. \A r \in PayRequests : \A j \in IntentIds : Inserts(r, j) => j \notin secrets
      BY <1>1 DEF SlotsInv, PayRequestWellFounded, Inserts
    <3> HIDE DEF i
    <3> QED
      BY <1>1, <2>2, <2>3, <3>1 DEF MoneyTypeOK
  <2>11. n.pc # "createRow"
    BY <2>6
  <2> HIDE DEF i
  <2> QED
    BY <1>1, <2>3, <2>6, <2>8, <2>9, <2>10, <2>11, SlotStep
\* The ledger follows.
<1>11. ASSUME NEW p \in PayRequests, MarkReleased(p) \/ MarkRefunded(p)
       PROVE  PaymentsInv'
  <2>0. PICK q : q = payReq[p]
    OBVIOUS
  <2> DEFINE o == q.order
             row == IF q.pc = "markReleased"
                    THEN [payments[o] EXCEPT !.status = "RELEASED",
                                             !.stripeChargeId = TRUE]
                    ELSE [payments[o] EXCEPT !.status = "REFUNDED"]
             n == IF q.pc = "markReleased" THEN [q EXCEPT !.pc = "notify"] ELSE Idle
  <2>1. q.pc \in {"markReleased", "markRefunded"} /\ q # Idle
    BY <1>11, <2>0 DEF MarkReleased, MarkRefunded, Idle
  <2>2. /\ q \in PayRequest
        /\ o \in OrderIds
        /\ payments[o].status # Null
        /\ payments[o].stripePaymentIntentId = q.intent
        /\ q.pc = "markReleased" => intents[q.intent].status = "captured"
        /\ q.pc = "markRefunded" => intents[q.intent].refunded
    <3>1. PayRequestWellFounded(p)
      BY <1>1 DEF SlotsInv
    <3> QED
      BY <1>1, <2>0, <2>1, <3>1, PayAtPc DEF PayRequestWellFounded
  <2>3. /\ payments' = [payments EXCEPT ![o] = row]
        /\ payReq' = [payReq EXCEPT ![p] = n]
        /\ OrdersUntouched(Null)
        /\ UNCHANGED <<intents, secrets, webhooks, abandoned>>
    BY <1>11, <2>0 DEF MarkReleased, MarkRefunded, PayGoTo, PayFinish
  <2>4. payments[o] \in PaymentRow
    BY <1>1, <2>2 DEF MoneyTypeOK
  <2>5. /\ row \in PaymentRow
        /\ row.status = IF q.pc = "markReleased" THEN "RELEASED" ELSE "REFUNDED"
        /\ row.stripePaymentIntentId = payments[o].stripePaymentIntentId
        /\ row.amount = payments[o].amount
    <3> HIDE DEF o
    <3> QED
      BY <2>4 DEF PaymentRow, PaymentStatuses
  <2>6. /\ n \in PayRequest \cup {Idle}
        /\ n = Idle \/ (n.pc = "notify" /\ n.order = o /\ n.intent = q.intent
                        /\ q.pc = "markReleased")
    BY <2>2 DEF PayRequest
  <2> HIDE DEF row, n
  <2>7. row.status # Null /\ payments'[o] = row
    BY <1>1, <2>2, <2>3, <2>5, PaymentNullAssumption DEF PaymentStatuses, MoneyTypeOK
  <2>8. LedgerMatches(o)'
    <3>1. /\ row.stripePaymentIntentId = q.intent
          /\ row.status # "HELD"
          /\ row.status = "RELEASED" => intents'[q.intent].status = "captured"
          /\ row.status = "REFUNDED" => intents'[q.intent].refunded
      BY <2>1, <2>2, <2>3, <2>5
    <3> HIDE DEF o
    <3> QED
      BY <2>7, <3>1 DEF LedgerMatches
  <2>9. MoneyInv' /\ IntentsGrow /\ PaymentsKept
    <3> HIDE DEF o
    <3> QED
      BY <1>1, <2>2, <2>3, <2>5, <2>7, <2>8, RowMoves, OrdersStay
  <2>10. n # Idle => PayRequestWellFounded(p)'
    <3>1. payReq'[p] = n
      BY <1>1, <2>3 DEF SlotsInv
    <3>2. n # Idle => /\ n.pc = "notify"
                      /\ payments'[n.order].status # Null
                      /\ payments'[n.order].stripePaymentIntentId = n.intent
                      /\ intents'[n.intent].status = "captured"
      BY <2>2, <2>3, <2>5, <2>6, <2>7
    <3> QED
      BY <3>1, <3>2 DEF PayRequestWellFounded
  <2>11. \A r \in PayRequests : \A j \in IntentIds : Inserts(r, j) => j \notin secrets
    BY <1>1 DEF SlotsInv, PayRequestWellFounded, Inserts
  <2>12. n.pc # "createRow"
    BY <2>6 DEF Idle
  <2> QED
    BY <1>1, <2>3, <2>6, <2>9, <2>10, <2>11, <2>12, SlotStep
\* The buyer's card, and the webhook.
<1>12. ASSUME NEW i \in IntentIds, Authorise(i)
       PROVE  PaymentsInv'
  <2> DEFINE t == [intents[i] EXCEPT !.status = "authorised"]
  <2>1. /\ i \in secrets
        /\ intents[i].status = "open"
        /\ intents' = [intents EXCEPT ![i] = t]
        /\ webhooks' = webhooks \cup {i}
        /\ OrdersUntouched(Null)
        /\ UNCHANGED <<payments, payReq, secrets, abandoned>>
    BY <1>12 DEF Authorise
  <2>2. /\ t \in Intent
        /\ t.status = "authorised"
        /\ t.order = intents[i].order
        /\ t.amount = intents[i].amount
        /\ t.refunded = intents[i].refunded
    <3>1. intents[i] \in Intent
      BY <1>1 DEF MoneyTypeOK
    <3> QED
      BY <3>1 DEF Intent, IntentStatuses
  <2> HIDE DEF t
  <2>3. MoneyInv' /\ IntentsGrow /\ PaymentsKept
    BY <1>1, <2>1, <2>2, IntentMoves, OrdersStay
  <2>4. \A j \in IntentIds \ secrets : intents'[j] = intents[j]
    BY <1>1, <2>1 DEF MoneyTypeOK
  <2> QED
    BY <2>1, <2>3, <2>4, StripeStep
<1>13. ASSUME NEW i \in IntentIds, NEW o \in OrderIds, MarkHeld(i, o)
       PROVE  PaymentsInv'
  <2> DEFINE row == [payments[o] EXCEPT !.status = "HELD"]
  <2>1. /\ i \in webhooks
        /\ payments[o].stripePaymentIntentId = i
        /\ payments' = [payments EXCEPT ![o] = row]
        /\ webhooks' \subseteq webhooks
        /\ OrdersUntouched(Null)
        /\ UNCHANGED <<payReq, intents, secrets, abandoned>>
    BY <1>13 DEF MarkHeld
  <2>2. payments[o].status # Null
    BY <1>1, <2>1, IntentsAssumption DEF MoneyInv, RowNamesIntent, NoPayment
  <2>3. /\ row \in PaymentRow
        /\ row.status = "HELD"
        /\ row.stripePaymentIntentId = i
        /\ row.amount = payments[o].amount
    <3>1. payments[o] \in PaymentRow
      BY <1>1 DEF MoneyTypeOK
    <3> QED
      BY <2>1, <3>1 DEF PaymentRow, PaymentStatuses
  <2> HIDE DEF row
  <2>4. row.status # Null /\ payments'[o] = row
    BY <1>1, <2>1, <2>3, PaymentNullAssumption DEF PaymentStatuses, MoneyTypeOK
  <2>5. LedgerMatches(o)'
    BY <1>1, <2>1, <2>3, <2>4 DEF LedgerMatches, IntentConsistent, Authorised
  <2>6. MoneyInv' /\ IntentsGrow /\ PaymentsKept
    BY <1>1, <2>1, <2>2, <2>3, <2>4, <2>5, RowMoves, OrdersStay
  <2> QED
    BY <2>1, <2>6, StripeStep
<1>14. CASE UNCHANGED vars
  BY <1>2, <1>14 DEF vars
<1> QED
  BY <1>2, <1>3, <1>4, <1>5, <1>6, <1>7, <1>8, <1>9, <1>10, <1>11, <1>12, <1>13, <1>14
     DEF PaymentsNext, PayArrive, PayProceed, StripeNext


\* PaymentsInv is inductive, so every reachable state has it.
THEOREM PaymentsInvariant == PaymentsSpec => []PaymentsInv
  BY PayInvInit, PayInvStep, PTL DEF PaymentsSpec

\* Every reachable state of payments, Stripe and orders is well typed: the
\* ledger has one of its four statuses or no row, whatever is redelivered.
THEOREM PaymentsTypeCorrect == PaymentsSpec => []PaymentsTypeOK
<1>1. PaymentsInv => PaymentsTypeOK
  BY DEF PaymentsInv
<1> QED
  BY <1>1, PaymentsInvariant, PTL

\* All that OrdersInv says of orders holds while they are paid for.
THEOREM OrdersSurvivePayments == PaymentsSpec => []OrdersInv
<1>1. PaymentsInv => OrdersInv
  BY DEF PaymentsInv
<1> QED
  BY <1>1, PaymentsInvariant, PTL

\* The buyer of an order is charged through one intent only, however many
\* initiations race for it: an authorised intent is the one its row names.
THEOREM ChargedOnce == PaymentsSpec => []OneChargePerOrder
<1>1. PaymentsInv => OneChargePerOrder
  BY DEF PaymentsInv, OneChargePerOrder, IntentConsistent
<1> QED
  BY <1>1, PaymentsInvariant, PTL

\* Money held at Stripe is known to the ledger, with its amount.
THEOREM AuthorisationsRecorded == PaymentsSpec => []AuthorisedIsRecorded
<1>1. PaymentsInv => AuthorisedIsRecorded
  BY DEF PaymentsInv, AuthorisedIsRecorded, IntentConsistent
<1> QED
  BY <1>1, PaymentsInvariant, PTL

\* Nothing is captured for an order that never was DELIVERED.
THEOREM CapturesAfterDelivery == PaymentsSpec => []CapturedAfterDelivery
<1>1. PaymentsInv => CapturedAfterDelivery
  BY DEF PaymentsInv
<1> QED
  BY <1>1, PaymentsInvariant, PTL

\* The ledger and the notice of a release never run ahead of Stripe.
THEOREM LedgerIsBacked == PaymentsSpec => []LedgerBackedByStripe
<1>1. PaymentsInv => LedgerBackedByStripe
  BY DEF PaymentsInv
<1> QED
  BY <1>1, PaymentsInvariant, PTL

\* No intent is ever created for nothing, or for an instant booking.
THEOREM PaidOrdersPriced == PaymentsSpec => []OnlyPricedOrdersPaid
<1>1. PaymentsInv => OnlyPricedOrdersPaid
  BY DEF PaymentsInv
<1> QED
  BY <1>1, PaymentsInvariant, PTL


-----------------------------------------------------------------------------
(***************************************************************************)
(* What a race of requests can do to an order at most stays the same while *)
(* it is paid for.                                                         *)
(***************************************************************************)
LEMMA PaymentsStepOnOrders ==
  ASSUME [PaymentsNext]_vars
  PROVE  [OrdersNext]_orderVars \/ UNCHANGED <<orders, history, req, signers, offered>>
<1>1. ASSUME NEW p \in PayRequests, PayArrive(p) \/ PayProceed(p) \/ PayFail(p)
      PROVE  \E m : OrdersUntouched(m)
  BY <1>1 DEF PayArrive, PayProceed, PayFail, ReadForPayment, ReadForRelease,
              ReadForRefund, CreatePaymentIntent, CreatePaymentRow, CapturePayment,
              MarkReleased, NotifyReleased, RefundPayment, MarkRefunded, Refused
<1>2. ASSUME StripeNext
      PROVE  \E m : OrdersUntouched(m)
  BY <1>2 DEF StripeNext, Authorise, MarkHeld
<1> QED
  BY <1>1, <1>2 DEF PaymentsNext, OrdersUntouched, vars

\* No payment request or event clears a signature.
THEOREM PaymentsLoseNoSignature == PaymentsSpec => SignatureLostByOvertaken
<1>1. ASSUME UNCHANGED orders
      PROVE  \A o \in OrderIds : ~LosesSignature(o)
  BY <1>1 DEF LosesSignature
<1>2. OrdersInv /\ [PaymentsNext]_vars =>
        [\A o \in OrderIds : LosesSignature(o) =>
            /\ orders'[o].status \in {"CONFIRMED", "CANCELLED"}
            /\ \E r \in Requests : Overtaken(r, o) /\ WriteStatus(r)]_orderVars
  BY <1>1, SignatureLoss, PaymentsStepOnOrders
<1> QED
  BY <1>2, OrdersSurvivePayments, PTL DEF PaymentsSpec, SignatureLostByOvertaken

\* No payment request or event moves an order.
THEOREM PaymentsMoveNoOrder == PaymentsSpec => ChangeLegalOrOvertaken
<1>1. ASSUME UNCHANGED orders
      PROVE  \A o \in OrderIds : LegalChange(o)
  BY <1>1 DEF LegalChange
<1>2. OrdersInv /\ [PaymentsNext]_vars =>
        [\A o \in OrderIds : LegalChange(o) \/
            /\ \E r \in Requests : Overtaken(r, o) /\ (WriteStatus(r) \/ WriteAcceptance(r))
            /\ \E s \in history[o] :
                  s = orders'[o].status \/ Allowed(s, orders'[o].status)]_orderVars
  BY <1>1, LegalUnlessOvertaken, PaymentsStepOnOrders
<1> QED
  BY <1>2, OrdersSurvivePayments, PTL DEF PaymentsSpec, ChangeLegalOrOvertaken

-----------------------------------------------------------------------------
(***************************************************************************)
(* Payments implements Escrow, whatever overlaps, dies or is delivered     *)
(* again.  A request that settles, releases or refunds, has found its row  *)
(* HELD and may by now find it in any status but PENDING; and no money is  *)
(* ever moved on while the row is PENDING.                                 *)
(***************************************************************************)
Settling(p) == payReq[p].pc \in {"capture", "markReleased", "refund", "markRefunded"}

\* An event that is delivered once finds its row in PENDING.
EscrowInv ==
    /\ \A p \in PayRequests :
          Settling(p) => payments[payReq[p].order].status # "PENDING"
    /\ \A o \in OrderIds : payments[o].status = "PENDING" =>
          /\ intents[payments[o].stripePaymentIntentId].status # "captured"
          /\ ~intents[payments[o].stripePaymentIntentId].refunded
    /\ ~Redelivery => \A i \in webhooks : payments[intents[i].order].status = "PENDING"

\* Where the money of an order is, by the one intent that its row names.
MoneyByRow(o) ==
    LET i == payments[o].stripePaymentIntentId
    IN  IF payments[o].status = Null \/ ~Authorised(i) THEN "buyer"
        ELSE IF intents[i].status = "captured"
             THEN IF intents[i].refunded THEN "paidBack" ELSE "provider"
             ELSE IF intents[i].refunded THEN "letGo" ELSE "held"

LEMMA MoneyIsByRow ==
  PaymentsInv => \A o \in OrderIds : MoneyOf(o) = MoneyByRow(o)
<1> SUFFICES ASSUME PaymentsInv, NEW o \in OrderIds PROVE MoneyOf(o) = MoneyByRow(o)
  OBVIOUS
<1> DEFINE i == payments[o].stripePaymentIntentId
           paid == {j \in IntentIds : Authorised(j) /\ intents[j].order = o}
           captured == \E j \in paid : intents[j].status = "captured"
           refunded == \E j \in paid : intents[j].refunded
<1>1. /\ \A j \in IntentIds : IntentConsistent(j)
      /\ RowNamesIntent
      /\ secrets \subseteq IntentIds
  BY PaymentsInvParts DEF MoneyInv, MoneyTypeOK
<1>2. payments[o].status # Null => i \in IntentIds /\ intents[i].order = o
  BY <1>1 DEF RowNamesIntent
<1>3. \A j \in paid : j = i /\ payments[o].status # Null
  BY <1>1, IntentsAssumption DEF IntentConsistent, RowNamesIntent, NoPayment
<1>4. paid = IF payments[o].status = Null \/ ~Authorised(i) THEN {} ELSE {i}
  BY <1>2, <1>3
<1>5. MoneyOf(o) =
        CASE paid = {}             -> "buyer"
          [] captured /\ refunded  -> "paidBack"
          [] ~captured /\ refunded -> "letGo"
          [] captured /\ ~refunded -> "provider"
          [] OTHER                 -> "held"
  BY DEF MoneyOf
<1> HIDE DEF paid, i
<1>6. CASE payments[o].status = Null \/ ~Authorised(i)
  BY <1>4, <1>5, <1>6 DEF MoneyByRow, i
<1>7. CASE ~(payments[o].status = Null \/ ~Authorised(i))
  <2>1. paid = {i}
    BY <1>4, <1>7
  <2> QED
    BY <1>5, <1>7, <2>1 DEF MoneyByRow, i
<1> QED
  BY <1>6, <1>7

LEMMA MoneyIsByRowNext ==
  PaymentsInv' => (\A o \in OrderIds : MoneyOf(o) = MoneyByRow(o))'
  BY MoneyIsByRow, PTL


\* The steps of Escrow, in terms of the money and the row of each order.
EscrowStep == [EscrowOf!EscrowNext]_(EscrowOf!escrowVars)

SameMoney(o)  == MoneyOf(o)' = MoneyOf(o)
SameLedger(o) == payments'[o].status = payments[o].status

LEMMA EscrowStutters ==
  ASSUME \A o \in OrderIds : SameMoney(o) /\ SameLedger(o), history' = history
  PROVE  EscrowStep
  BY DEF SameMoney, SameLedger, EscrowStep, EscrowOf!escrowVars

LEMMA EscrowDelivers ==
  ASSUME \A o \in OrderIds : SameMoney(o) /\ SameLedger(o),
         NEW o \in OrderIds, NEW to, AddHistory(o, to),
         history \in [OrderIds -> SUBSET Statuses]
  PROVE  EscrowStep
<1> DEFINE delivered == {n \in OrderIds : "DELIVERED" \in history[n]}
<1>1. UNCHANGED <<[n \in OrderIds |-> MoneyOf(n)],
                  [n \in OrderIds |-> payments[n].status]>>
  BY DEF SameMoney, SameLedger
<1>2. \/ delivered' = delivered
      \/ delivered' = delivered \cup {o}
  BY DEF AddHistory
<1>3. CASE delivered' = delivered
  BY <1>1, <1>3 DEF EscrowStep, EscrowOf!escrowVars
<1>4. CASE delivered' = delivered \cup {o}
  <2>1. EscrowOf!Deliver(o)
    BY <1>1, <1>4 DEF EscrowOf!Deliver
  <2> QED
    BY <2>1 DEF EscrowStep, EscrowOf!EscrowNext
<1> QED
  BY <1>2, <1>3, <1>4

LEMMA EscrowMoves ==
  ASSUME NEW o \in OrderIds, NEW from, NEW to, NEW statuses,
         MoneyOf(o) = from, MoneyOf(o)' = to, payments[o].status \in statuses,
         \A n \in OrderIds : SameLedger(n),
         \A n \in OrderIds \ {o} : SameMoney(n),
         history' = history
  PROVE  EscrowOf!Moves(o, from, to, statuses)
  BY DEF EscrowOf!Moves, SameMoney, SameLedger

LEMMA EscrowEnters ==
  ASSUME NEW o \in OrderIds, NEW from, NEW to, NEW places,
         payments[o].status = from, payments'[o].status = to, MoneyOf(o) \in places,
         \A n \in OrderIds : SameMoney(n),
         \A n \in OrderIds \ {o} : SameLedger(n),
         history' = history
  PROVE  EscrowOf!Enters(o, from, to, places)
  BY DEF EscrowOf!Enters, SameMoney, SameLedger


\* The intent of a row, and the row a settling request works on.
LEMMA RowIntent ==
  ASSUME PaymentsInv, NEW o \in OrderIds, payments[o].status # Null,
         NEW i, i = payments[o].stripePaymentIntentId
  PROVE  /\ i \in IntentIds /\ i \in secrets
         /\ intents[i] \in Intent
         /\ intents[i].order = o
         /\ intents[i].status # Null
         /\ payments[o] \in PaymentRow
         /\ LedgerMatches(o)
  BY PaymentsInvParts
     DEF MoneyInv, MoneyTypeOK, RowNamesIntent, IntentConsistent

LEMMA IntentRow ==
  ASSUME PaymentsInv, NEW i \in secrets
  PROVE  /\ i \in IntentIds
         /\ intents[i].order \in OrderIds
         /\ payments[intents[i].order].status # Null
         /\ payments[intents[i].order].stripePaymentIntentId = i
         /\ intents[i].refunded => Authorised(i)
<1>1. /\ i \in IntentIds /\ intents[i].order \in OrderIds
      /\ payments[intents[i].order].stripePaymentIntentId = i
      /\ intents[i].refunded => Authorised(i)
  BY PaymentsInvParts DEF MoneyInv, MoneyTypeOK, IntentConsistent
<1>2. payments[intents[i].order].status # Null
  BY <1>1, PaymentsInvParts, IntentsAssumption DEF MoneyInv, RowNamesIntent, NoPayment
<1> QED
  BY <1>1, <1>2

LEMMA SettlingRow ==
  ASSUME PaymentsInv, NEW p \in PayRequests, Settling(p), NEW q, q = payReq[p]
  PROVE  /\ q \in PayRequest
         /\ q.order \in OrderIds
         /\ payments[q.order].status # Null
         /\ payments[q.order].stripePaymentIntentId = q.intent
         /\ q.intent \in IntentIds
         /\ intents[q.intent].order = q.order
         /\ q.pc = "capture" => "DELIVERED" \in history[q.order]
         /\ q.pc = "markReleased" => intents[q.intent].status = "captured"
         /\ q.pc = "markRefunded" => intents[q.intent].refunded
<1>1. q # Idle
  BY DEF Settling, Idle
<1>2. MoneyInv /\ SlotsInv
  BY PaymentsInvParts
<1> QED
  BY <1>1, <1>2, PayAtPc DEF Settling, SlotsInv, PayRequestWellFounded

\* The money of an order stays where it is when its row names the same intent
\* and nothing happens to that.
LEMMA MoneyStays ==
  ASSUME PaymentsInv, PaymentsInv', NEW o \in OrderIds,
         payments'[o].status = Null <=> payments[o].status = Null,
         payments[o].status # Null =>
             /\ payments'[o].stripePaymentIntentId = payments[o].stripePaymentIntentId
             /\ intents'[payments[o].stripePaymentIntentId] =
                    intents[payments[o].stripePaymentIntentId]
  PROVE  SameMoney(o)
<1>1. MoneyByRow(o)' = MoneyByRow(o)
  BY DEF MoneyByRow, Authorised
<1> QED
  BY <1>1, MoneyIsByRow, MoneyIsByRowNext DEF SameMoney

\* Steps after which Stripe and the ledger are as before.
LEMMA EscrowQuiet ==
  ASSUME PaymentsInv, PaymentsInv', EscrowInv,
         UNCHANGED <<payments, intents, webhooks>>,
         \A p \in PayRequests :
             \/ payReq'[p] = payReq[p]
             \/ payments[payReq'[p].order].status # "PENDING"
             \/ ~Settling(p)'
  PROVE  EscrowInv' /\ \A o \in OrderIds : SameMoney(o) /\ SameLedger(o)
<1>1. \A o \in OrderIds : SameMoney(o) /\ SameLedger(o)
  BY MoneyStays DEF SameLedger
<1>2. EscrowInv'
  BY DEF EscrowInv, Settling
<1> QED
  BY <1>1, <1>2

\* Where the money behind an intent is.
WhereIs(t) ==
    IF t.status \notin {"authorised", "captured"} THEN "buyer"
    ELSE IF t.status = "captured" THEN IF t.refunded THEN "paidBack" ELSE "provider"
         ELSE IF t.refunded THEN "letGo" ELSE "held"

MoneyGoes(o, from, to) == MoneyOf(o) = from /\ MoneyOf(o)' = to

\* Stripe moves the intent of a row: the money of its order, and no other.
LEMMA StripeMovesMoney ==
  ASSUME PaymentsInv, PaymentsInv', NEW o \in OrderIds, payments[o].status # Null,
         NEW i, i = payments[o].stripePaymentIntentId, NEW t,
         intents' = [intents EXCEPT ![i] = t], UNCHANGED payments
  PROVE  /\ \A j \in IntentIds \ {i} : intents'[j] = intents[j]
         /\ \A n \in OrderIds : SameLedger(n)
         /\ \A n \in OrderIds \ {o} : SameMoney(n)
         /\ MoneyGoes(o, WhereIs(intents[i]), WhereIs(t))
<1>1. i \in IntentIds /\ intents[i].order = o /\ MoneyTypeOK
  BY RowIntent, PaymentsInvParts DEF MoneyInv
<1>2. intents'[i] = t /\ \A j \in IntentIds \ {i} : intents'[j] = intents[j]
  BY <1>1 DEF MoneyTypeOK
<1>3. \A n \in OrderIds : SameLedger(n)
  BY DEF SameLedger
<1>4. ASSUME NEW n \in OrderIds \ {o} PROVE SameMoney(n)
  <2>1. payments[n].status # Null => payments[n].stripePaymentIntentId \in IntentIds \ {i}
    BY <1>1, RowIntent
  <2> QED
    BY <1>2, <2>1, MoneyStays
<1>5. MoneyOf(o) = WhereIs(intents[i])
  BY MoneyIsByRow DEF MoneyByRow, Authorised, WhereIs
<1>6. MoneyOf(o)' = WhereIs(t)
  <2>1. MoneyByRow(o)' = WhereIs(t)
    BY <1>2 DEF MoneyByRow, Authorised, WhereIs
  <2> QED
    BY <2>1, MoneyIsByRowNext
<1> QED
  BY <1>1, <1>2, <1>3, <1>4, <1>5, <1>6 DEF MoneyGoes

\* releaseFunds captures: the escrow pays the provider.
LEMMA EscrowCapture ==
  ASSUME PaymentsInv, PaymentsInv', EscrowInv, NEW p \in PayRequests, CapturePayment(p)
  PROVE  EscrowInv' /\ EscrowStep
<1>0. PICK q : q = payReq[p]
  OBVIOUS
<1>1. PICK o : o = q.order
  OBVIOUS
<1>2. PICK i : i = q.intent
  OBVIOUS
<1>3. PICK t : t = [intents[i] EXCEPT !.status = "captured"]
  OBVIOUS
<1>4. q.pc = "capture" /\ Settling(p)
  BY <1>0 DEF CapturePayment, Settling
<1>5. /\ q \in PayRequest /\ o \in OrderIds /\ i \in IntentIds
      /\ payments[o].status # Null /\ payments[o].stripePaymentIntentId = i
      /\ intents[i].order = o /\ "DELIVERED" \in history[o]
  BY <1>0, <1>1, <1>2, <1>4, SettlingRow
<1>6. /\ intents[i].status = "authorised" /\ ~intents[i].refunded
      /\ intents' = [intents EXCEPT ![i] = t]
      /\ payReq' = [payReq EXCEPT ![p] = [q EXCEPT !.pc = "markReleased"]]
      /\ history' = history
      /\ UNCHANGED <<payments, webhooks>>
  BY <1>0, <1>2, <1>3 DEF CapturePayment, PayGoTo, AfterCapture, OrdersUntouched
<1>7. t.status = "captured" /\ t.refunded = intents[i].refunded /\ t.order = o
  <2>1. intents[i] \in Intent
    BY <1>5, RowIntent
  <2> QED
    BY <1>3, <1>5, <2>1 DEF Intent
<1>8. payments[o].status = "HELD"
  <2>1. payments[o].status # "PENDING"
    BY <1>0, <1>1, <1>4 DEF EscrowInv
  <2>2. LedgerMatches(o) /\ payments[o] \in PaymentRow
    BY <1>5, RowIntent
  <2> QED
    BY <1>5, <1>6, <2>1, <2>2 DEF LedgerMatches, PaymentRow, PaymentStatuses
<1>9. /\ intents'[i] = t
      /\ \A j \in IntentIds \ {i} : intents'[j] = intents[j]
      /\ \A n \in OrderIds : SameLedger(n)
      /\ \A n \in OrderIds \ {o} : SameMoney(n)
      /\ MoneyGoes(o, WhereIs(intents[i]), WhereIs(t))
  <2>1. /\ payments[o].status # Null
        /\ i = payments[o].stripePaymentIntentId
        /\ intents' = [intents EXCEPT ![i] = t]
        /\ UNCHANGED payments
    BY <1>5, <1>6
  <2>2. intents \in [IntentIds -> Intent]
    BY PaymentsInvParts DEF MoneyInv, MoneyTypeOK
  <2>3. /\ \A n \in OrderIds : SameLedger(n)
        /\ \A n \in OrderIds \ {o} : SameMoney(n)
        /\ MoneyGoes(o, WhereIs(intents[i]), WhereIs(t))
    BY <1>5, <2>1, StripeMovesMoney
  <2> QED
    BY <1>5, <2>1, <2>2, <2>3
<1>10. MoneyOf(o) = "held" /\ MoneyOf(o)' = "provider"
  BY <1>6, <1>7, <1>9 DEF WhereIs, MoneyGoes
<1>11. EscrowStep
  <2>1. EscrowOf!Moves(o, "held", "provider", {"HELD"})
    BY <1>5, <1>6, <1>8, <1>9, <1>10, EscrowMoves
  <2> QED
    BY <1>5, <2>1 DEF EscrowStep, EscrowOf!EscrowNext
<1>12. EscrowInv'
  <2>1. \A j \in IntentIds : /\ intents'[j].refunded = intents[j].refunded
                             /\ intents'[j].order = intents[j].order
    BY <1>5, <1>7, <1>9
  <2>2. /\ payReq'[p].pc = "markReleased" /\ payReq'[p].order = o /\ payReq'[p].intent = i
        /\ \A r \in PayRequests \ {p} : payReq'[r] = payReq[r]
    <3>1. payReq \in [PayRequests -> PayRequest \cup {Idle}]
      BY PaymentsInvParts DEF SlotsInv
    <3> QED
      BY <1>1, <1>2, <1>5, <1>6, <3>1 DEF PayRequest
  <2>3. ASSUME NEW r \in PayRequests, Settling(r)'
        PROVE  payments'[payReq'[r].order].status # "PENDING"
    BY <1>6, <1>8, <2>2, <2>3 DEF EscrowInv, Settling
  <2>4. ASSUME NEW n \in OrderIds, payments'[n].status = "PENDING"
        PROVE  /\ intents'[payments'[n].stripePaymentIntentId].status # "captured"
               /\ ~intents'[payments'[n].stripePaymentIntentId].refunded
    <3>1. n # o /\ payments[n].status = "PENDING" /\ "PENDING" # Null
      BY <1>6, <1>8, <2>4, PaymentNullAssumption DEF PaymentStatuses
    <3>2. payments[n].stripePaymentIntentId \in IntentIds \ {i}
      BY <1>5, <3>1, RowIntent
    <3> QED
      BY <1>6, <1>9, <3>1, <3>2 DEF EscrowInv
  <2>5. ~Redelivery => \A j \in webhooks' : payments'[intents'[j].order].status = "PENDING"
    <3>1. webhooks \subseteq IntentIds
      BY PaymentsInvParts DEF MoneyInv, MoneyTypeOK
    <3> QED
      BY <1>6, <2>1, <3>1 DEF EscrowInv
  <2> QED
    BY <2>3, <2>4, <2>5 DEF EscrowInv
<1> QED
  BY <1>11, <1>12

\* refund lets the hold go, or pays back what a release has captured in the
\* meantime, be it entered or not.
LEMMA EscrowRefund ==
  ASSUME PaymentsInv, PaymentsInv', EscrowInv,
         NEW p \in PayRequests, RefundPayment(p)
  PROVE  EscrowInv' /\ EscrowStep
<1>0. PICK q : q = payReq[p]
  OBVIOUS
<1>1. PICK o : o = q.order
  OBVIOUS
<1>2. PICK i : i = q.intent
  OBVIOUS
<1>3. PICK t : t = [intents[i] EXCEPT !.refunded = TRUE]
  OBVIOUS
<1>4. q.pc = "refund" /\ Settling(p)
  BY <1>0 DEF RefundPayment, Settling
<1>5. /\ q \in PayRequest /\ o \in OrderIds /\ i \in IntentIds
      /\ payments[o].status # Null /\ payments[o].stripePaymentIntentId = i
      /\ intents[i].order = o
  BY <1>0, <1>1, <1>2, <1>4, SettlingRow
<1>6. /\ intents[i].status \in {"authorised", "captured"} /\ ~intents[i].refunded
      /\ intents' = [intents EXCEPT ![i] = t]
      /\ payReq' = [payReq EXCEPT ![p] = [q EXCEPT !.pc = "markRefunded"]]
      /\ history' = history
      /\ UNCHANGED <<payments, webhooks>>
  BY <1>0, <1>2, <1>3 DEF RefundPayment, PayGoTo, OrdersUntouched
<1>7. t.status = intents[i].status /\ t.refunded /\ t.order = o
  <2>1. intents[i] \in Intent
    BY <1>5, RowIntent
  <2> QED
    BY <1>3, <1>5, <2>1 DEF Intent
<1>8. \/ payments[o].status = "HELD"
      \/ payments[o].status = "RELEASED" /\ intents[i].status = "captured"
  <2>1. payments[o].status # "PENDING"
    BY <1>0, <1>1, <1>4 DEF EscrowInv
  <2>2. LedgerMatches(o) /\ payments[o] \in PaymentRow
    BY <1>5, RowIntent
  <2> QED
    BY <1>5, <1>6, <2>1, <2>2 DEF LedgerMatches, PaymentRow, PaymentStatuses
<1>9. /\ intents'[i] = t
      /\ \A j \in IntentIds \ {i} : intents'[j] = intents[j]
      /\ \A n \in OrderIds : SameLedger(n)
      /\ \A n \in OrderIds \ {o} : SameMoney(n)
      /\ MoneyGoes(o, WhereIs(intents[i]), WhereIs(t))
  <2>1. /\ payments[o].status # Null
        /\ i = payments[o].stripePaymentIntentId
        /\ intents' = [intents EXCEPT ![i] = t]
        /\ UNCHANGED payments
    BY <1>5, <1>6
  <2>2. intents \in [IntentIds -> Intent]
    BY PaymentsInvParts DEF MoneyInv, MoneyTypeOK
  <2>3. /\ \A n \in OrderIds : SameLedger(n)
        /\ \A n \in OrderIds \ {o} : SameMoney(n)
        /\ MoneyGoes(o, WhereIs(intents[i]), WhereIs(t))
    BY <1>5, <2>1, StripeMovesMoney
  <2> QED
    BY <1>5, <2>1, <2>2, <2>3
<1>10. EscrowStep
  <2>1. CASE intents[i].status = "authorised"
    <3>1. MoneyOf(o) = "held" /\ MoneyOf(o)' = "letGo"
      BY <1>6, <1>7, <1>9, <2>1 DEF WhereIs, MoneyGoes
    <3>2. EscrowOf!Moves(o, "held", "letGo", {"HELD"})
      BY <1>5, <1>6, <1>8, <1>9, <2>1, <3>1, EscrowMoves
    <3> QED
      BY <1>5, <3>2 DEF EscrowStep, EscrowOf!EscrowNext
  <2>2. CASE intents[i].status = "captured"
    <3>1. MoneyOf(o) = "provider" /\ MoneyOf(o)' = "paidBack"
      BY <1>6, <1>7, <1>9, <2>2 DEF WhereIs, MoneyGoes
    <3>2. EscrowOf!Moves(o, "provider", "paidBack", {"HELD", "RELEASED"})
      BY <1>5, <1>6, <1>8, <1>9, <3>1, EscrowMoves
    <3> QED
      BY <1>5, <3>2 DEF EscrowStep, EscrowOf!EscrowNext
  <2> QED
    BY <1>6, <2>1, <2>2
<1>11. EscrowInv'
  <2>1. \A j \in IntentIds : intents'[j].order = intents[j].order
    BY <1>5, <1>7, <1>9
  <2>2. /\ payReq'[p].pc = "markRefunded" /\ payReq'[p].order = o
        /\ \A r \in PayRequests \ {p} : payReq'[r] = payReq[r]
    <3>1. payReq \in [PayRequests -> PayRequest \cup {Idle}]
      BY PaymentsInvParts DEF SlotsInv
    <3> QED
      BY <1>1, <1>5, <1>6, <3>1 DEF PayRequest
  <2>3. ASSUME NEW r \in PayRequests, Settling(r)'
        PROVE  payments'[payReq'[r].order].status # "PENDING"
    BY <1>6, <1>8, <2>2, <2>3 DEF EscrowInv, Settling
  <2>4. ASSUME NEW n \in OrderIds, payments'[n].status = "PENDING"
        PROVE  /\ intents'[payments'[n].stripePaymentIntentId].status # "captured"
               /\ ~intents'[payments'[n].stripePaymentIntentId].refunded
    <3>1. n # o /\ payments[n].status = "PENDING" /\ "PENDING" # Null
      BY <1>6, <1>8, <2>4, PaymentNullAssumption DEF PaymentStatuses
    <3>2. payments[n].stripePaymentIntentId \in IntentIds \ {i}
      BY <1>5, <3>1, RowIntent
    <3> QED
      BY <1>6, <1>9, <3>1, <3>2 DEF EscrowInv
  <2>5. ~Redelivery => \A j \in webhooks' : payments'[intents'[j].order].status = "PENDING"
    <3>1. webhooks \subseteq IntentIds
      BY PaymentsInvParts DEF MoneyInv, MoneyTypeOK
    <3> QED
      BY <1>6, <2>1, <3>1 DEF EscrowInv
  <2> QED
    BY <2>3, <2>4, <2>5 DEF EscrowInv
<1> QED
  BY <1>10, <1>11

\* The buyer authorises the card: the money of a row that is PENDING is held.
LEMMA EscrowAuthorise ==
  ASSUME PaymentsInv, PaymentsInv', EscrowInv, NEW i \in IntentIds, Authorise(i)
  PROVE  EscrowInv' /\ EscrowStep
<1>1. PICK o : o = intents[i].order
  OBVIOUS
<1>2. PICK t : t = [intents[i] EXCEPT !.status = "authorised"]
  OBVIOUS
<1>3. /\ i \in secrets /\ intents[i].status = "open"
      /\ intents' = [intents EXCEPT ![i] = t]
      /\ webhooks' = webhooks \cup {i}
      /\ history' = history
      /\ UNCHANGED <<payments, payReq>>
  BY <1>2 DEF Authorise, OrdersUntouched
<1>4. /\ o \in OrderIds
      /\ payments[o].status # Null
      /\ i = payments[o].stripePaymentIntentId
      /\ ~intents[i].refunded
  BY <1>1, <1>3, IntentRow DEF Authorised
<1>5. t.status = "authorised" /\ ~t.refunded /\ t.order = o
  <2>1. intents[i] \in Intent
    BY <1>4, RowIntent
  <2> QED
    BY <1>1, <1>2, <1>4, <2>1 DEF Intent
<1>6. payments[o].status = "PENDING"
  <2>1. LedgerMatches(o) /\ payments[o] \in PaymentRow
    BY <1>4, RowIntent
  <2> QED
    BY <1>3, <1>4, <2>1 DEF LedgerMatches, Authorised, PaymentRow, PaymentStatuses
<1>7. /\ intents'[i] = t
      /\ \A j \in IntentIds \ {i} : intents'[j] = intents[j]
      /\ \A n \in OrderIds : SameLedger(n)
      /\ \A n \in OrderIds \ {o} : SameMoney(n)
      /\ MoneyGoes(o, WhereIs(intents[i]), WhereIs(t))
  <2>1. UNCHANGED payments
    BY <1>3
  <2>2. intents \in [IntentIds -> Intent]
    BY PaymentsInvParts DEF MoneyInv, MoneyTypeOK
  <2>3. /\ \A n \in OrderIds : SameLedger(n)
        /\ \A n \in OrderIds \ {o} : SameMoney(n)
        /\ MoneyGoes(o, WhereIs(intents[i]), WhereIs(t))
    BY <1>3, <1>4, <2>1, StripeMovesMoney
  <2> QED
    BY <1>3, <2>2, <2>3
<1>8. MoneyOf(o) = "buyer" /\ MoneyOf(o)' = "held"
  BY <1>3, <1>5, <1>7 DEF WhereIs, MoneyGoes
<1>9. EscrowStep
  <2>1. EscrowOf!Moves(o, "buyer", "held", {"PENDING"})
    BY <1>3, <1>4, <1>6, <1>7, <1>8, EscrowMoves
  <2> QED
    BY <1>4, <2>1 DEF EscrowStep, EscrowOf!EscrowNext
<1>10. EscrowInv'
  <2>1. \A j \in IntentIds : /\ intents'[j].refunded => intents[j].refunded
                             /\ intents'[j].order = intents[j].order
                             /\ intents'[j].status = "captured" =>
                                    intents[j].status = "captured"
    BY <1>1, <1>4, <1>5, <1>7
  <2>2. \A r \in PayRequests :
             Settling(r)' => payments'[payReq'[r].order].status # "PENDING"
    BY <1>3 DEF EscrowInv, Settling
  <2>3. ASSUME NEW n \in OrderIds, payments'[n].status = "PENDING"
        PROVE  /\ intents'[payments'[n].stripePaymentIntentId].status # "captured"
               /\ ~intents'[payments'[n].stripePaymentIntentId].refunded
    <3>1. payments[n].status = "PENDING" /\ "PENDING" # Null
      BY <1>3, <2>3, PaymentNullAssumption DEF PaymentStatuses
    <3>2. payments[n].stripePaymentIntentId \in IntentIds
      BY <3>1, RowIntent
    <3> QED
      BY <1>3, <2>1, <3>1, <3>2 DEF EscrowInv
  <2>4. ~Redelivery => \A j \in webhooks' : payments'[intents'[j].order].status = "PENDING"
    <3>1. webhooks \subseteq IntentIds
      BY PaymentsInvParts DEF MoneyInv, MoneyTypeOK
    <3> QED
      BY <1>1, <1>3, <1>6, <2>1, <3>1 DEF EscrowInv
  <2> QED
    BY <2>2, <2>3, <2>4 DEF EscrowInv
<1> QED
  BY <1>9, <1>10

\* The ledger enters a status for the row of an order; Stripe does nothing.
LEMMA LedgerMoves ==
  ASSUME PaymentsInv, PaymentsInv', NEW o \in OrderIds, payments[o].status # Null,
         NEW row, payments' = [payments EXCEPT ![o] = row], row.status # Null,
         row.stripePaymentIntentId = payments[o].stripePaymentIntentId,
         UNCHANGED intents
  PROVE  /\ \A n \in OrderIds : SameMoney(n)
         /\ \A n \in OrderIds \ {o} : SameLedger(n)
<1>1. /\ payments'[o] = row
      /\ \A n \in OrderIds \ {o} : payments'[n] = payments[n]
  BY PaymentsInvParts DEF MoneyInv, MoneyTypeOK
<1>2. \A n \in OrderIds \ {o} : SameLedger(n)
  BY <1>1 DEF SameLedger
<1>3. ASSUME NEW n \in OrderIds PROVE SameMoney(n)
  BY <1>1, MoneyStays
<1> QED
  BY <1>2, <1>3

\* The settling request writes its row and is done with it.
LEMMA EscrowSettles ==
  ASSUME PaymentsInv, PaymentsInv', EscrowInv,
         NEW p \in PayRequests, MarkReleased(p) \/ MarkRefunded(p)
  PROVE  EscrowInv' /\ EscrowStep
<1>0. PICK q : q = payReq[p]
  OBVIOUS
<1>1. PICK o : o = q.order
  OBVIOUS
<1>2. PICK i : i = q.intent
  OBVIOUS
<1>3. PICK to : to = IF q.pc = "markReleased" THEN "RELEASED" ELSE "REFUNDED"
  OBVIOUS
<1>4. q.pc \in {"markReleased", "markRefunded"} /\ Settling(p)
  BY <1>0 DEF MarkReleased, MarkRefunded, Settling
<1>5. /\ q \in PayRequest /\ o \in OrderIds /\ i \in IntentIds
      /\ payments[o].status # Null /\ payments[o].stripePaymentIntentId = i
      /\ intents[i].order = o
      /\ q.pc = "markReleased" => intents[i].status = "captured"
      /\ q.pc = "markRefunded" => intents[i].refunded
  BY <1>0, <1>1, <1>2, <1>4, SettlingRow
<1>6. /\ payments[o].status \in {"HELD", "RELEASED", "REFUNDED"}
      /\ LedgerMatches(o)
      /\ intents[i].refunded => Authorised(i)
  <2>1. payments[o].status # "PENDING"
    BY <1>0, <1>1, <1>4 DEF EscrowInv
  <2>2. LedgerMatches(o) /\ payments[o] \in PaymentRow /\ i \in secrets
    BY <1>5, RowIntent
  <2>3. intents[i].refunded => Authorised(i)
    BY <2>2, IntentRow
  <2> QED
    BY <1>5, <2>1, <2>2, <2>3 DEF PaymentRow, PaymentStatuses
<1>7. PICK row : /\ payments' = [payments EXCEPT ![o] = row]
                 /\ row.status = to /\ row.stripePaymentIntentId = i
  <2>1. payments[o] \in PaymentRow
    BY <1>5, RowIntent
  <2>2. payments' = [payments EXCEPT ![o] =
            IF q.pc = "markReleased"
            THEN [payments[o] EXCEPT !.status = "RELEASED", !.stripeChargeId = TRUE]
            ELSE [payments[o] EXCEPT !.status = "REFUNDED"]]
    BY <1>0, <1>1 DEF MarkReleased, MarkRefunded
  <2>3. ASSUME NEW r, r = IF q.pc = "markReleased"
            THEN [payments[o] EXCEPT !.status = "RELEASED", !.stripeChargeId = TRUE]
            ELSE [payments[o] EXCEPT !.status = "REFUNDED"]
        PROVE  r.status = to /\ r.stripePaymentIntentId = i
    BY <1>3, <1>5, <2>1, <2>3 DEF PaymentRow
  <2> QED
    BY <2>2, <2>3
<1>8. PICK n : /\ payReq' = [payReq EXCEPT ![p] = n]
               /\ n.pc \notin {"capture", "markReleased", "refund", "markRefunded"}
  <2>1. payReq' = [payReq EXCEPT ![p] = IF q.pc = "markReleased"
                                        THEN [q EXCEPT !.pc = "notify"] ELSE Idle]
    BY <1>0 DEF MarkReleased, MarkRefunded, PayGoTo, PayFinish
  <2>2. [q EXCEPT !.pc = "notify"].pc = "notify"
    BY <1>5 DEF PayRequest
  <2>3. Idle.pc \notin {"capture", "markReleased", "refund", "markRefunded"}
    BY DEF Idle
  <2> QED
    BY <2>1, <2>2, <2>3
<1>9. history' = history /\ UNCHANGED <<intents, webhooks>>
  BY DEF MarkReleased, MarkRefunded, OrdersUntouched
<1>10. to # Null
  BY <1>3, PaymentNullAssumption DEF PaymentStatuses
<1>11. /\ payments'[o] = row
       /\ \A m \in OrderIds \ {o} : payments'[m] = payments[m]
       /\ \A m \in OrderIds : SameMoney(m)
       /\ \A m \in OrderIds \ {o} : SameLedger(m)
  <2>1. /\ row.status # Null
        /\ row.stripePaymentIntentId = payments[o].stripePaymentIntentId
        /\ payments' = [payments EXCEPT ![o] = row]
        /\ UNCHANGED intents
    BY <1>5, <1>7, <1>9, <1>10
  <2>2. payments \in [OrderIds -> PaymentRow]
    BY PaymentsInvParts DEF MoneyInv, MoneyTypeOK
  <2>3. /\ \A m \in OrderIds : SameMoney(m)
        /\ \A m \in OrderIds \ {o} : SameLedger(m)
    BY <1>5, <2>1, LedgerMoves
  <2> QED
    BY <1>5, <2>1, <2>2, <2>3
<1>12. /\ q.pc = "markReleased" => MoneyOf(o) \in EscrowOf!PaidOut
       /\ q.pc = "markRefunded" => MoneyOf(o) \in EscrowOf!Returned
       /\ intents[i].status = "captured" /\ intents[i].refunded => MoneyOf(o) = "paidBack"
  <2>1. Authorised(i)
    BY <1>4, <1>5, <1>6 DEF Authorised
  <2>2. MoneyByRow(o) = IF intents[i].status = "captured"
                        THEN IF intents[i].refunded THEN "paidBack" ELSE "provider"
                        ELSE IF intents[i].refunded THEN "letGo" ELSE "held"
    BY <1>5, <2>1 DEF MoneyByRow
  <2> QED
    BY <1>5, <2>2, MoneyIsByRow DEF EscrowOf!PaidOut, EscrowOf!Returned
<1>13. EscrowStep
  <2>1. CASE payments[o].status = to
    BY <1>7, <1>9, <1>11, <2>1, EscrowStutters DEF SameLedger
  <2>2. CASE q.pc = "markReleased" /\ payments[o].status = "HELD"
    <3>1. EscrowOf!Enters(o, "HELD", "RELEASED", EscrowOf!PaidOut)
      BY <1>3, <1>5, <1>7, <1>9, <1>11, <1>12, <2>2, EscrowEnters
    <3> QED
      BY <1>5, <3>1 DEF EscrowStep, EscrowOf!EscrowNext
  <2>3. CASE q.pc = "markReleased" /\ payments[o].status = "REFUNDED"
    <3>1. intents[i].refunded
      BY <1>5, <1>6, <2>3 DEF LedgerMatches
    <3>2. MoneyOf(o) \in {"paidBack"}
      BY <1>5, <1>12, <2>3, <3>1
    <3>3. EscrowOf!Enters(o, "REFUNDED", "RELEASED", {"paidBack"})
      BY <1>3, <1>5, <1>7, <1>9, <1>11, <2>3, <3>2, EscrowEnters
    <3> QED
      BY <1>5, <3>3 DEF EscrowStep, EscrowOf!EscrowNext
  <2>4. CASE q.pc = "markRefunded" /\ payments[o].status = "HELD"
    <3>1. EscrowOf!Enters(o, "HELD", "REFUNDED", EscrowOf!Returned)
      BY <1>3, <1>5, <1>7, <1>9, <1>11, <1>12, <2>4, EscrowEnters
    <3> QED
      BY <1>5, <3>1 DEF EscrowStep, EscrowOf!EscrowNext
  <2>5. CASE q.pc = "markRefunded" /\ payments[o].status = "RELEASED"
    <3>1. intents[i].status = "captured"
      BY <1>5, <1>6, <2>5 DEF LedgerMatches
    <3>2. MoneyOf(o) \in {"paidBack"}
      BY <1>5, <1>12, <2>5, <3>1
    <3>3. EscrowOf!Enters(o, "RELEASED", "REFUNDED", {"paidBack"})
      BY <1>3, <1>5, <1>7, <1>9, <1>11, <2>5, <3>2, EscrowEnters
    <3> QED
      BY <1>5, <3>3 DEF EscrowStep, EscrowOf!EscrowNext
  <2> QED
    BY <1>3, <1>4, <1>6, <2>1, <2>2, <2>3, <2>4, <2>5
<1>14. EscrowInv'
  <2>1. payReq'[p] = n /\ \A r \in PayRequests \ {p} : payReq'[r] = payReq[r]
    BY <1>8, PaymentsInvParts DEF SlotsInv
  <2>2. to # "PENDING"
    BY <1>3
  <2>3. ASSUME NEW r \in PayRequests, Settling(r)'
        PROVE  payments'[payReq'[r].order].status # "PENDING"
    <3>1. r # p /\ payReq'[r] = payReq[r] /\ Settling(r)
      BY <1>8, <2>1, <2>3 DEF Settling
    <3>2. payReq[r].order \in OrderIds /\ payments[payReq[r].order].status # "PENDING"
      BY <3>1, SettlingRow DEF EscrowInv
    <3> QED
      BY <1>7, <1>11, <2>2, <3>1, <3>2
  <2>5. \A m \in OrderIds : payments'[m].status = "PENDING" => m # o
    BY <1>7, <1>11, <2>2
  <2>6. ASSUME NEW m \in OrderIds, payments'[m].status = "PENDING"
        PROVE  /\ intents'[payments'[m].stripePaymentIntentId].status # "captured"
               /\ ~intents'[payments'[m].stripePaymentIntentId].refunded
    BY <1>9, <1>11, <2>5, <2>6 DEF EscrowInv
  <2>7. ASSUME ~Redelivery, NEW j \in webhooks'
        PROVE  payments'[intents'[j].order].status = "PENDING"
    <3>1. j \in webhooks /\ j \in IntentIds /\ Authorised(j) /\ IntentConsistent(j)
      BY <1>9, PaymentsInvParts DEF MoneyInv, MoneyTypeOK, IntentConsistent
    <3>2. intents[j].order \in OrderIds /\ payments[intents[j].order].status = "PENDING"
      BY <2>7, <3>1, IntentRow DEF IntentConsistent, EscrowInv
    <3> QED
      BY <1>6, <1>9, <1>11, <3>2
  <2> QED
    BY <2>3, <2>6, <2>7 DEF EscrowInv
<1> QED
  BY <1>13, <1>14

\* The webhook enters HELD: for money that is held, or, when the event is
\* delivered again, over whatever status the row has got to.
LEMMA EscrowHeld ==
  ASSUME PaymentsInv, PaymentsInv', EscrowInv,
         NEW i \in IntentIds, NEW o \in OrderIds, MarkHeld(i, o)
  PROVE  EscrowInv' /\ EscrowStep
<1>1. PICK row : row = [payments[o] EXCEPT !.status = "HELD"]
  OBVIOUS
<1>2. /\ i \in webhooks /\ payments[o].stripePaymentIntentId = i
      /\ payments' = [payments EXCEPT ![o] = row]
      /\ webhooks' \subseteq webhooks
      /\ ~Redelivery => webhooks' = webhooks \ {i}
      /\ history' = history
      /\ UNCHANGED <<payReq, intents>>
  BY <1>1 DEF MarkHeld, OrdersUntouched
<1>3. \A j \in webhooks : j \in IntentIds /\ j \in secrets /\ Authorised(j)
  BY PaymentsInvParts DEF MoneyInv, MoneyTypeOK, IntentConsistent
<1>4. payments[o].status # Null /\ payments[o] \in PaymentRow /\ intents[i].order = o
  <2>1. payments[o].status # Null
    BY <1>2, PaymentsInvParts, IntentsAssumption DEF MoneyInv, RowNamesIntent, NoPayment
  <2> QED
    BY <1>2, <2>1, RowIntent
<1>5. /\ payments[o].status = "PENDING" =>
             intents[i].status # "captured" /\ ~intents[i].refunded
      /\ ~Redelivery => payments[o].status = "PENDING"
      /\ LedgerMatches(o)
  <2>1. LedgerMatches(o)
    BY <1>4, RowIntent
  <2> QED
    BY <1>2, <1>4, <2>1 DEF EscrowInv, MarkHeld
<1>6. row.status = "HELD" /\ row.stripePaymentIntentId = i /\ "HELD" # Null
  BY <1>1, <1>2, <1>4, PaymentNullAssumption DEF PaymentRow, PaymentStatuses
<1>7. /\ payments'[o] = row
      /\ \A n \in OrderIds \ {o} : payments'[n] = payments[n]
      /\ \A n \in OrderIds : SameMoney(n)
      /\ \A n \in OrderIds \ {o} : SameLedger(n)
  <2>1. /\ row.status # Null
        /\ row.stripePaymentIntentId = payments[o].stripePaymentIntentId
        /\ payments' = [payments EXCEPT ![o] = row]
        /\ UNCHANGED intents
    BY <1>2, <1>6
  <2>2. payments \in [OrderIds -> PaymentRow]
    BY PaymentsInvParts DEF MoneyInv, MoneyTypeOK
  <2>3. /\ \A m \in OrderIds : SameMoney(m)
        /\ \A m \in OrderIds \ {o} : SameLedger(m)
    BY <1>4, <2>1, LedgerMoves
  <2> QED
    BY <2>1, <2>2, <2>3
<1>8. MoneyOf(o) = IF intents[i].status = "captured"
                   THEN IF intents[i].refunded THEN "paidBack" ELSE "provider"
                   ELSE IF intents[i].refunded THEN "letGo" ELSE "held"
  <2>1. MoneyByRow(o) = IF intents[i].status = "captured"
                        THEN IF intents[i].refunded THEN "paidBack" ELSE "provider"
                        ELSE IF intents[i].refunded THEN "letGo" ELSE "held"
    BY <1>2, <1>3, <1>4 DEF MoneyByRow
  <2> QED
    BY <2>1, MoneyIsByRow
<1>9. EscrowStep
  <2>1. CASE payments[o].status = "PENDING"
    <3>1. MoneyOf(o) \in {"held"}
      BY <1>5, <1>8, <2>1
    <3>2. EscrowOf!Enters(o, "PENDING", "HELD", {"held"})
      BY <1>2, <1>6, <1>7, <2>1, <3>1, EscrowEnters
    <3> QED
      BY <3>2 DEF EscrowStep, EscrowOf!EscrowNext
  <2>2. CASE payments[o].status = "HELD"
    BY <1>2, <1>6, <1>7, <2>2, EscrowStutters DEF SameLedger
  <2>3. CASE payments[o].status = "RELEASED"
    <3>1. intents[i].status = "captured" /\ Redelivery
      BY <1>2, <1>5, <2>3, RedeliveryAssumption DEF LedgerMatches
    <3>2. MoneyOf(o) \in EscrowOf!PaidOut
      BY <1>8, <3>1 DEF EscrowOf!PaidOut
    <3>3. EscrowOf!Enters(o, "RELEASED", "HELD", EscrowOf!PaidOut)
      BY <1>2, <1>6, <1>7, <2>3, <3>2, EscrowEnters
    <3> QED
      BY <3>1, <3>3 DEF EscrowStep, EscrowOf!EscrowNext
  <2>4. CASE payments[o].status = "REFUNDED"
    <3>1. intents[i].refunded /\ Redelivery
      BY <1>2, <1>5, <2>4, RedeliveryAssumption DEF LedgerMatches
    <3>2. MoneyOf(o) \in EscrowOf!Returned
      BY <1>8, <3>1 DEF EscrowOf!Returned
    <3>3. EscrowOf!Enters(o, "REFUNDED", "HELD", EscrowOf!Returned)
      BY <1>2, <1>6, <1>7, <2>4, <3>2, EscrowEnters
    <3> QED
      BY <3>1, <3>3 DEF EscrowStep, EscrowOf!EscrowNext
  <2> QED
    BY <1>4, <2>1, <2>2, <2>3, <2>4 DEF PaymentRow, PaymentStatuses
<1>10. EscrowInv'
  <2>1. ASSUME NEW r \in PayRequests, Settling(r)'
        PROVE  payments'[payReq'[r].order].status # "PENDING"
    <3>1. Settling(r) /\ payReq' = payReq
      BY <1>2, <2>1 DEF Settling
    <3>2. payReq[r].order \in OrderIds /\ payments[payReq[r].order].status # "PENDING"
      BY <3>1, SettlingRow DEF EscrowInv
    <3> QED
      BY <1>6, <1>7, <3>1, <3>2
  <2>2. ASSUME NEW n \in OrderIds, payments'[n].status = "PENDING"
        PROVE  /\ intents'[payments'[n].stripePaymentIntentId].status # "captured"
               /\ ~intents'[payments'[n].stripePaymentIntentId].refunded
    BY <1>2, <1>6, <1>7, <2>2 DEF EscrowInv
  <2>3. ASSUME ~Redelivery, NEW j \in webhooks'
        PROVE  payments'[intents'[j].order].status = "PENDING"
    <3>1. j \in webhooks /\ j # i
      BY <1>2, <2>3
    <3>2. /\ intents[j].order \in OrderIds
          /\ payments[intents[j].order].stripePaymentIntentId = j
      BY <1>3, <3>1, IntentRow
    <3>3. intents[j].order # o
      BY <1>2, <3>1, <3>2
    <3> QED
      BY <1>2, <1>7, <2>3, <3>1, <3>2, <3>3 DEF EscrowInv
  <2> QED
    BY <2>1, <2>2, <2>3 DEF EscrowInv
<1> QED
  BY <1>9, <1>10

\* The row is inserted: the ledger enters PENDING while the buyer still has
\* the money, for the intent of the row has only just been created.
LEMMA EscrowInserts ==
  ASSUME PaymentsInv, PaymentsInv', EscrowInv,
         NEW p \in PayRequests, CreatePaymentRow(p)
  PROVE  EscrowInv' /\ EscrowStep
<1>0. PICK q : q = payReq[p]
  OBVIOUS
<1>1. PICK o : o = q.order
  OBVIOUS
<1>2. PICK i : i = q.intent
  OBVIOUS
<1>3. PICK row : row = [status |-> "PENDING", stripePaymentIntentId |-> i,
                        amount |-> q.amount, stripeChargeId |-> FALSE]
  OBVIOUS
<1>4. /\ q.pc = "createRow" /\ payments[o].status = Null
      /\ payments' = [payments EXCEPT ![o] = row]
      /\ payReq' = [payReq EXCEPT ![p] = Idle]
      /\ history' = history
      /\ UNCHANGED <<intents, webhooks>>
  BY <1>0, <1>1, <1>2, <1>3
     DEF CreatePaymentRow, RowInsertable, InitialStatus, PayFinish, OrdersUntouched
<1>5. /\ MoneyTypeOK /\ SlotsInv /\ MoneyInv
      /\ \A j \in IntentIds : IntentConsistent(j)
  BY PaymentsInvParts DEF MoneyInv
<1>6. /\ o \in OrderIds /\ i \in IntentIds \ secrets
      /\ intents[i].status = "open" /\ intents[i].order = o
  <2>1. q # Idle
    BY <1>4 DEF Idle
  <2> QED
    BY <1>0, <1>1, <1>2, <1>4, <1>5, <2>1, PayAtPc DEF SlotsInv, PayRequestWellFounded
<1>7. ~Authorised(i) /\ ~intents[i].refunded
  BY <1>5, <1>6 DEF Authorised, IntentConsistent
<1>8. row.status = "PENDING" /\ row.stripePaymentIntentId = i /\ "PENDING" # Null
  BY <1>3, PaymentNullAssumption DEF PaymentStatuses
<1>9. /\ payments'[o] = row
      /\ \A n \in OrderIds \ {o} : payments'[n] = payments[n]
  BY <1>4, <1>5, <1>6 DEF MoneyTypeOK
<1>10. MoneyOf(o) = "buyer"
  <2>1. MoneyByRow(o) = "buyer"
    BY <1>4 DEF MoneyByRow
  <2> QED
    BY <1>6, <2>1, MoneyIsByRow
<1>11. ASSUME NEW n \in OrderIds PROVE SameMoney(n)
  <2>1. CASE n = o
    <3>1. MoneyByRow(n)' = "buyer"
      BY <1>4, <1>7, <1>8, <1>9, <2>1 DEF MoneyByRow, Authorised
    <3>2. MoneyByRow(n) = "buyer"
      BY <1>4, <2>1 DEF MoneyByRow
    <3> QED
      BY <3>1, <3>2, MoneyIsByRow, MoneyIsByRowNext DEF SameMoney
  <2>2. CASE n # o
    BY <1>4, <1>9, <2>2, MoneyStays
  <2> QED
    BY <2>1, <2>2
<1>12. \A n \in OrderIds \ {o} : SameLedger(n)
  BY <1>9 DEF SameLedger
<1>13. EscrowStep
  <2>1. EscrowOf!Enters(o, Null, "PENDING", {"buyer"})
    BY <1>4, <1>6, <1>8, <1>9, <1>10, <1>11, <1>12, EscrowEnters
  <2> QED
    BY <1>6, <2>1 DEF EscrowStep, EscrowOf!EscrowNext
<1>14. EscrowInv'
  <2>1. payReq'[p] = Idle /\ \A r \in PayRequests \ {p} : payReq'[r] = payReq[r]
    BY <1>4, <1>5 DEF SlotsInv
  <2>2. ASSUME NEW r \in PayRequests, Settling(r)'
        PROVE  payments'[payReq'[r].order].status # "PENDING"
    <3>1. r # p /\ Settling(r) /\ payReq'[r] = payReq[r]
      BY <2>1, <2>2 DEF Settling, Idle
    <3>2. payReq[r].order \in OrderIds \ {o} /\ payments[payReq[r].order].status # "PENDING"
      BY <1>4, <3>1, SettlingRow DEF EscrowInv
    <3> QED
      BY <1>9, <3>1, <3>2
  <2>3. ASSUME NEW n \in OrderIds, payments'[n].status = "PENDING"
        PROVE  /\ intents'[payments'[n].stripePaymentIntentId].status # "captured"
               /\ ~intents'[payments'[n].stripePaymentIntentId].refunded
    BY <1>4, <1>6, <1>7, <1>8, <1>9, <2>3 DEF EscrowInv
  <2>4. ASSUME ~Redelivery, NEW j \in webhooks'
        PROVE  payments'[intents'[j].order].status = "PENDING"
    <3>1. j \in webhooks /\ j \in secrets
      BY <1>4, <1>5 DEF MoneyTypeOK, IntentConsistent
    <3>2. intents[j].order \in OrderIds /\ payments[intents[j].order].status # Null
      BY <3>1, IntentRow
    <3>3. intents[j].order # o
      BY <1>4, <3>2
    <3> QED
      BY <1>4, <1>9, <2>4, <3>1, <3>2, <3>3 DEF EscrowInv
  <2> QED
    BY <2>2, <2>3, <2>4 DEF EscrowInv
<1> QED
  BY <1>13, <1>14

\* Before there is a row, an intent is nobody's money.
LEMMA EscrowIntent ==
  ASSUME PaymentsInv, PaymentsInv', EscrowInv,
         NEW p \in PayRequests, NEW i \in IntentIds, CreatePaymentIntent(p, i)
  PROVE  EscrowInv' /\ EscrowStep
<1>1. PICK n : /\ payReq' = [payReq EXCEPT ![p] = n]
               /\ n.pc \notin {"capture", "markReleased", "refund", "markRefunded"}
  <2>1. /\ payReq[p].pc = "createIntent"
        /\ payReq' = [payReq EXCEPT ![p] = [payReq[p] EXCEPT !.pc = "createRow",
                                                            !.intent = i]]
    BY DEF CreatePaymentIntent
  <2>2. payReq[p] # Idle
    BY <2>1 DEF Idle
  <2>3. payReq[p] \in PayRequest
    BY <2>2, PaymentsInvParts DEF SlotsInv
  <2>4. [payReq[p] EXCEPT !.pc = "createRow", !.intent = i].pc = "createRow"
    BY <2>3 DEF PayRequest
  <2> QED
    BY <2>1, <2>4
<1>2. /\ intents[i].status = Null
      /\ \A j \in IntentIds \ {i} : intents'[j] = intents[j]
      /\ history' = history
      /\ UNCHANGED <<payments, webhooks>>
  BY PaymentsInvParts DEF CreatePaymentIntent, OrdersUntouched, MoneyInv, MoneyTypeOK
<1>3. ASSUME NEW o \in OrderIds, payments[o].status # Null
      PROVE  payments[o].stripePaymentIntentId \in IntentIds \ {i}
  BY <1>2, <1>3, RowIntent
<1>4. \A o \in OrderIds : SameMoney(o) /\ SameLedger(o)
  BY <1>2, <1>3, MoneyStays DEF SameLedger
<1>5. EscrowStep
  BY <1>2, <1>4, EscrowStutters
<1>6. EscrowInv'
  <2>1. payReq'[p] = n /\ \A r \in PayRequests \ {p} : payReq'[r] = payReq[r]
    BY <1>1, PaymentsInvParts DEF SlotsInv
  <2>2. ASSUME NEW r \in PayRequests, Settling(r)'
        PROVE  payments'[payReq'[r].order].status # "PENDING"
    <3>1. r # p /\ Settling(r) /\ payReq'[r] = payReq[r]
      BY <1>1, <2>1, <2>2 DEF Settling
    <3> QED
      BY <1>2, <3>1 DEF EscrowInv
  <2>3. ASSUME NEW m \in OrderIds, payments'[m].status = "PENDING"
        PROVE  /\ intents'[payments'[m].stripePaymentIntentId].status # "captured"
               /\ ~intents'[payments'[m].stripePaymentIntentId].refunded
    <3>1. payments[m].status = "PENDING" /\ "PENDING" # Null
      BY <1>2, <2>3, PaymentNullAssumption DEF PaymentStatuses
    <3> QED
      BY <1>2, <1>3, <3>1 DEF EscrowInv
  <2>4. ASSUME ~Redelivery, NEW j \in webhooks'
        PROVE  payments'[intents'[j].order].status = "PENDING"
    <3>1. j \in webhooks /\ j \in IntentIds /\ j \in secrets
      BY <1>2, PaymentsInvParts DEF MoneyInv, MoneyTypeOK, IntentConsistent
    <3>2. j # i
      BY <1>2, <3>1, PaymentsInvParts DEF MoneyInv, IntentConsistent
    <3> QED
      BY <1>2, <2>4, <3>1, <3>2 DEF EscrowInv
  <2> QED
    BY <2>2, <2>3, <2>4 DEF EscrowInv
<1> QED
  BY <1>5, <1>6

\* The reads, the answers and the ends of a request, and the steps on orders:
\* Stripe and the ledger wait, at most an order is delivered.
LEMMA EscrowWaits ==
  ASSUME PaymentsInv, PaymentsInv', EscrowInv,
         UNCHANGED <<payments, intents, webhooks>>,
         history' = history \/ \E o, to : AddHistory(o, to),
         \A p \in PayRequests :
             \/ payReq'[p] = payReq[p]
             \/ payments[payReq'[p].order].status # "PENDING"
             \/ ~Settling(p)'
  PROVE  EscrowInv' /\ EscrowStep
<1>1. EscrowInv' /\ \A o \in OrderIds : SameMoney(o) /\ SameLedger(o)
  BY EscrowQuiet
<1>2. history \in [OrderIds -> SUBSET Statuses]
  BY PaymentsInvParts DEF OrdersInv, OrdersTypeOK
<1>3. CASE history' = history
  BY <1>1, <1>3, EscrowStutters
<1>4. ASSUME NEW o, NEW to, AddHistory(o, to)
      PROVE  EscrowStep
  <2>1. CASE o \in OrderIds
    BY <1>1, <1>2, <1>4, <2>1, EscrowDelivers
  <2>2. CASE o \notin OrderIds
    <3>1. history' = history
      BY <1>2, <1>4, <2>2 DEF AddHistory
    <3> QED
      BY <1>1, <3>1, EscrowStutters
  <2> QED
    BY <2>1, <2>2
<1> QED
  BY <1>1, <1>3, <1>4

\* EscrowInv is inductive, and every step is one of Escrow's or none.
LEMMA EscrowSimulates ==
  ASSUME PaymentsInv, PaymentsInv', EscrowInv, [PaymentsNext]_vars
  PROVE  EscrowInv' /\ EscrowStep
<1>1. SlotsInv
  BY PaymentsInvParts
<1>2. CASE [OrdersNext]_orderVars /\ UNCHANGED payVars
  <2>1. history' = history \/ \E o, to : AddHistory(o, to)
    BY <1>2, HistorySteps
  <2>2. UNCHANGED <<payments, intents, webhooks>> /\ payReq' = payReq
    BY <1>2 DEF payVars
  <2> QED
    BY <2>1, <2>2, EscrowWaits
<1>3. ASSUME NEW p \in PayRequests, NEW o \in OrderIds,
             ReadForPayment(p, o) \/ ReadForRelease(p, o) \/ ReadForRefund(p, o)
      PROVE  EscrowInv' /\ EscrowStep
  <2>1. PICK q : /\ payReq' = [payReq EXCEPT ![p] = q]
                 /\ \/ payments[q.order].status = "HELD"
                    \/ q.pc \notin {"capture", "markReleased", "refund", "markRefunded"}
    <3>1. CASE ReadForPayment(p, o)
      <4> DEFINE n == [pc |-> "createIntent", order |-> o, intent |-> Null,
                       amount |-> AmountDue(o)]
      <4>1. payReq' = [payReq EXCEPT ![p] = n]
        BY <3>1 DEF ReadForPayment, PayBegin
      <4>2. n.pc \notin {"capture", "markReleased", "refund", "markRefunded"}
        BY <3>1 DEF ReadForPayment
      <4> HIDE DEF n
      <4> QED
        BY <4>1, <4>2
    <3>2. CASE ReadForRelease(p, o)
      <4> DEFINE n == [pc |-> "capture", order |-> o, amount |-> Null,
                       intent |-> payments[o].stripePaymentIntentId]
      <4>1. payReq' = [payReq EXCEPT ![p] = n]
        BY <3>2 DEF ReadForRelease, PayBegin
      <4>2. payments[n.order].status = "HELD"
        BY <3>2 DEF ReadForRelease, Releasable
      <4> HIDE DEF n
      <4> QED
        BY <4>1, <4>2
    <3>3. CASE ReadForRefund(p, o)
      <4> DEFINE n == [pc |-> "refund", order |-> o, amount |-> Null,
                       intent |-> payments[o].stripePaymentIntentId]
      <4>1. payReq' = [payReq EXCEPT ![p] = n]
        BY <3>3 DEF ReadForRefund, PayBegin
      <4>2. payments[n.order].status = "HELD"
        BY <3>3 DEF ReadForRefund, Refundable
      <4> HIDE DEF n
      <4> QED
        BY <4>1, <4>2
    <3> QED
      BY <1>3, <3>1, <3>2, <3>3
  <2>2. payReq'[p] = q /\ \A r \in PayRequests \ {p} : payReq'[r] = payReq[r]
    BY <1>1, <2>1 DEF SlotsInv
  <2>3. UNCHANGED <<payments, intents, webhooks>> /\ history' = history
    BY <1>3 DEF ReadForPayment, ReadForRelease, ReadForRefund, OrdersUntouched
  <2>4. \A r \in PayRequests :
             \/ payReq'[r] = payReq[r]
             \/ payments[payReq'[r].order].status # "PENDING"
             \/ ~Settling(r)'
    BY <2>1, <2>2 DEF Settling
  <2> QED
    BY <2>3, <2>4, EscrowWaits
<1>4. ASSUME NEW p \in PayRequests, NotifyReleased(p) \/ Refused(p) \/ PayFail(p)
      PROVE  EscrowInv' /\ EscrowStep
  <2>1. payReq' = [payReq EXCEPT ![p] = Idle]
    BY <1>4 DEF NotifyReleased, Refused, PayFail, PayFinish, AfterRefusal
  <2>2. UNCHANGED <<payments, intents, webhooks>> /\ history' = history
    BY <1>4 DEF NotifyReleased, Refused, PayFail, OrdersUntouched
  <2>3. \A r \in PayRequests : payReq'[r] = payReq[r] \/ ~Settling(r)'
    BY <1>1, <2>1 DEF SlotsInv, Settling, Idle
  <2> QED
    BY <2>2, <2>3, EscrowWaits
<1>5. CASE UNCHANGED vars
  BY <1>2, <1>5 DEF vars
<1> QED
  BY <1>2, <1>3, <1>4, <1>5, EscrowIntent, EscrowInserts, EscrowCapture, EscrowSettles,
     EscrowRefund, EscrowAuthorise, EscrowHeld
     DEF PaymentsNext, PayArrive, PayProceed, StripeNext

\* At the start all the money is with the buyers.
LEMMA EscrowStarts == PaymentsInit => EscrowInv /\ EscrowOf!EscrowInit
<1> SUFFICES ASSUME PaymentsInit PROVE EscrowInv /\ EscrowOf!EscrowInit
  OBVIOUS
<1>1. /\ payments = [o \in OrderIds |-> NoPayment]
      /\ payReq = [p \in PayRequests |-> Idle]
      /\ webhooks = {}
      /\ history = [o \in OrderIds |-> {}]
  BY DEF PaymentsInit, OrdersInit
<1>2. NoPayment.status = Null /\ "PENDING" # Null
  BY PaymentNullAssumption DEF NoPayment, PaymentStatuses
<1>3. \A o \in OrderIds : payments[o].status = Null
  BY <1>1, <1>2
<1>4. \A o \in OrderIds : MoneyOf(o) = "buyer"
  <2>1. \A o \in OrderIds : MoneyByRow(o) = "buyer"
    BY <1>3 DEF MoneyByRow
  <2> QED
    BY <2>1, PayInvInit, MoneyIsByRow
<1>5. EscrowOf!EscrowInit
  BY <1>1, <1>3, <1>4 DEF EscrowOf!EscrowInit
<1>6. EscrowInv
  BY <1>1, <1>2, <1>3 DEF EscrowInv, Settling, Idle
<1> QED
  BY <1>5, <1>6

\* The payments keep the promise of Escrow, however many requests release and
\* refund the same order at a time, whatever dies in between, and whether or
\* not Stripe delivers an event again.
THEOREM EscrowImplemented == PaymentsSpec => MoneyIsEscrowed
<1>1. PaymentsInit => PaymentsInv /\ EscrowInv /\ EscrowOf!EscrowInit
  BY PayInvInit, EscrowStarts
<1>2. PaymentsInv /\ EscrowInv /\ [PaymentsNext]_vars
         => PaymentsInv' /\ EscrowInv' /\ EscrowStep
  BY PayInvStep, EscrowSimulates
<1>3. PaymentsInv /\ EscrowInv /\ [PaymentsNext]_vars
         => PaymentsInv' /\ EscrowInv'
            /\ [EscrowOf!EscrowNext]_(EscrowOf!escrowVars)
  BY <1>2 DEF EscrowStep
<1> QED
  BY <1>1, <1>3, PTL DEF PaymentsSpec, MoneyIsEscrowed, EscrowOf!EscrowSpec
=============================================================================
