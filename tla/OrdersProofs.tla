---------------------------- MODULE OrdersProofs ----------------------------
(***************************************************************************)
(* The theorems about Orders, for every set of orders and request slots,   *)
(* every set of prices, and with or without failing requests.              *)
(*                                                                         *)
(* OrdersTypeOK is inductive by itself.  The safety invariants are proved  *)
(* together, as the inductive invariant OrdersInv: what a write keeps      *)
(* depends on the snapshot it writes back, so the snapshots and messages   *)
(* of the requests in flight must be known to be well founded              *)
(* (RequestsWellFounded).  These speak of facts that, once true, stay      *)
(* true: entries in history, signers and offered, and a contractSignedAt   *)
(* that is set (Grows).                                                    *)
(***************************************************************************)
EXTENDS Orders, TLAPS

-----------------------------------------------------------------------------
(***************************************************************************)
(* Types                                                                   *)
(***************************************************************************)
\* A new order table, a new history and a new request have the types that
\* what is put into them has.
LEMMA BecomeTyped ==
  ASSUME OrdersTypeOK, NEW r \in Requests, NEW q \in Request,
         NEW m \in Message \cup {Null}, Become(r, q, m)
  PROVE  /\ req' \in [Requests -> Request]
         /\ sent' \in Message \cup {Null}
  BY DEF OrdersTypeOK, Become

LEMMA RowTyped ==
  ASSUME OrdersTypeOK, NEW o \in OrderIds, NEW row \in OrderRow,
         orders' = [orders EXCEPT ![o] = row]
  PROVE  orders' \in [OrderIds -> OrderRow]
  BY DEF OrdersTypeOK

LEMMA HistoryTyped ==
  ASSUME OrdersTypeOK, NEW o \in OrderIds, NEW to \in Statuses, AddHistory(o, to)
  PROVE  history' \in [OrderIds -> SUBSET Statuses]
  BY DEF OrdersTypeOK, AddHistory

\* The program counter and the operation of a request give its type.
LEMMA RequestTyped ==
  ASSUME OrdersTypeOK, NEW r \in Requests
  PROVE  /\ Writes(r, "updateStatus") => req[r] \in Updating
         /\ Writes(r, "submitCounterOffer") => req[r] \in Offering
         /\ Writes(r, "acceptCounterOffer") => req[r] \in Accepting
         /\ req[r].pc \in {"notify", "enqueue"} => req[r] \in Announcing
<1>1. req[r] \in Request
  BY DEF OrdersTypeOK
<1>2. CASE req[r] \in Updating
  BY <1>2 DEF Updating, Writes
<1>3. CASE req[r] \in Offering
  BY <1>3 DEF Offering, Writes
<1>4. CASE req[r] \in Accepting
  BY <1>4 DEF Accepting, Writes
<1>5. CASE req[r] \in Announcing
  BY <1>5 DEF Announcing, Writes
<1>6. CASE req[r] = Idle
  BY <1>6 DEF Idle, Writes
<1> QED
  BY <1>1, <1>2, <1>3, <1>4, <1>5, <1>6 DEF Request

\* What updateStatus computes from a snapshot.
LEMMA UpdateTyped ==
  ASSUME NEW q \in Updating
  PROVE  /\ TargetStatus(q) \in Statuses
         /\ Announced(q) \in Statuses \cup OrderNotices
         /\ SignedByBuyer(q) \in BOOLEAN
         /\ SignedByProvider(q) \in BOOLEAN
  BY DEF TargetStatus, Announced, OrderNotices, SignedByBuyer, SignedByProvider, Updating

LEMMA InitTyped == OrdersInit => OrdersTypeOK
  BY DEF OrdersInit, OrdersTypeOK, NoRow, OrderRow, MaybeStatus, MaybePrice,
         Request

LEMMA StepTyped ==
  OrdersTypeOK /\ [OrdersNext]_orderVars => OrdersTypeOK'
<1> SUFFICES ASSUME OrdersTypeOK, [OrdersNext]_orderVars PROVE OrdersTypeOK'
  OBVIOUS
<1>1. CASE UNCHANGED orderVars
  BY <1>1 DEF orderVars, OrdersTypeOK
<1>2. ASSUME NEW r \in Requests, NEW o \in OrderIds,
             NEW instant \in BOOLEAN, NEW quote \in MaybePrice,
             CreateOrder(r, o, instant, quote)
      PROVE  OrdersTypeOK'
  <2> DEFINE booked == IsInstantBooking(instant, quote)
             status == IF booked THEN "CONFIRMED" ELSE "REQUESTED"
             row    == [orders[o] EXCEPT !.status = status,
                                         !.isInstantBooking = booked,
                                         !.initialQuote = quote]
             m      == [order |-> o, to |-> "PROVIDER", about |-> "booking"]
             q      == [pc |-> "notify", message |-> m]
  <2>1. status \in Statuses /\ booked \in BOOLEAN
    BY DEF Statuses, IsInstantBooking
  <2>2. row \in OrderRow
    BY <2>1, ZenonT(60) DEF OrdersTypeOK, OrderRow, MaybeStatus
  <2>3. q \in Request
    BY DEF Request, Announcing, OrderMessage, Parties, OrderNotices
  <2> QED
    BY <1>2, <2>1, <2>2, <2>3, BecomeTyped, RowTyped, HistoryTyped
       DEF CreateOrder, Begin, OrdersTypeOK
<1>3. ASSUME NEW r \in Requests, NEW o \in OrderIds,
             NEW actor \in Actors, NEW target \in Statuses,
             ReadForUpdateStatus(r, o, actor, target)
      PROVE  OrdersTypeOK'
  <2> DEFINE q == [pc |-> "write", op |-> "updateStatus", order |-> o,
                   actor |-> actor, status |-> orders[o].status,
                   isSignedByBuyer |-> orders[o].isSignedByBuyer,
                   isSignedByProvider |-> orders[o].isSignedByProvider,
                   target |-> target]
  <2>1. orders[o] \in OrderRow
    BY DEF OrdersTypeOK
  <2>2. orders[o].status \in Statuses
    BY <1>3 DEF ReadForUpdateStatus, Allowed, ORDER_TRANSITIONS, Statuses
  <2>3. q \in Request
    BY <2>1, <2>2 DEF OrderRow, Updating, Request
  <2> QED
    BY <1>3, <2>3, BecomeTyped DEF ReadForUpdateStatus, Begin, OrdersTypeOK
<1>4. ASSUME NEW r \in Requests, NEW o \in OrderIds, NEW amount \in Prices,
             ReadForCounterOffer(r, o, amount)
      PROVE  OrdersTypeOK'
  <2>1. [pc |-> "write", op |-> "submitCounterOffer", order |-> o,
         amount |-> amount] \in Request
    BY DEF Offering, Request
  <2> QED
    BY <1>4, <2>1, BecomeTyped DEF ReadForCounterOffer, Begin, OrdersTypeOK
<1>5. ASSUME NEW r \in Requests, NEW o \in OrderIds, ReadForAcceptance(r, o)
      PROVE  OrdersTypeOK'
  <2>1. OfferOn(o) \in Prices
    BY <1>5 DEF ReadForAcceptance, OfferOn, OrdersTypeOK, OrderRow, MaybePrice
  <2>2. [pc |-> "write", op |-> "acceptCounterOffer", order |-> o,
         amount |-> OfferOn(o)] \in Request
    BY <2>1 DEF Accepting, Request
  <2> QED
    BY <1>5, <2>2, BecomeTyped DEF ReadForAcceptance, Begin, OrdersTypeOK
<1>6. ASSUME NEW r \in Requests, WriteStatus(r)
      PROVE  OrdersTypeOK'
  <2> DEFINE q   == req[r]
             o   == q.order
             row == Updated(orders[o], q)
             m   == [order |-> o, to |-> Counterparty(q.actor),
                     about |-> Announced(q)]
  <2>1. q \in Updating
    BY <1>6, RequestTyped DEF WriteStatus
  <2>2. o \in OrderIds /\ q.actor \in Actors
    BY <2>1 DEF Updating
  <2>3. row \in OrderRow
    <3>1. orders[o] \in OrderRow
      BY <2>2 DEF OrdersTypeOK
    <3>2. /\ TargetStatus(q) \in MaybeStatus
          /\ SignedByBuyer(q) \in BOOLEAN
          /\ SignedByProvider(q) \in BOOLEAN
          /\ (orders[o].contractSignedAt \/ TargetStatus(q) = "CONTRACT_SIGNED")
                \in BOOLEAN
      BY <2>1, UpdateTyped DEF MaybeStatus
    <3> HIDE DEF o, q
    <3> QED
      BY <3>1, <3>2 DEF OrderRow, Updated
  <2>4. [pc |-> "notify", message |-> m] \in Request
    BY <2>1, <2>2, UpdateTyped
       DEF Request, Announcing, OrderMessage, Counterparty, Parties
  <2>5. signers' \in [OrderIds -> SUBSET Actors]
    BY <1>6, <2>2 DEF WriteStatus, OrdersTypeOK
  <2>6. orders' \in [OrderIds -> OrderRow]
    <3>1. orders' = [orders EXCEPT ![o] = row]
      BY <1>6 DEF WriteStatus
    <3> QED
      BY <2>2, <2>3, <3>1, RowTyped
  <2>7. history' \in [OrderIds -> SUBSET Statuses]
    BY <1>6, <2>1, <2>2, UpdateTyped, HistoryTyped DEF WriteStatus
  <2> QED
    BY <1>6, <2>4, <2>5, <2>6, <2>7, BecomeTyped
       DEF WriteStatus, Announce, OrdersTypeOK
<1>7. ASSUME NEW r \in Requests, WriteCounterOffer(r)
      PROVE  OrdersTypeOK'
  <2> DEFINE q == req[r]
             m == [order |-> q.order, to |-> "BUYER", about |-> "counterOffer"]
  <2>1. q.order \in OrderIds /\ q.amount \in Prices
    BY <1>7, RequestTyped DEF WriteCounterOffer, Offering
  <2>2. [pc |-> "notify", message |-> m] \in Request
    BY <2>1 DEF Request, Announcing, OrderMessage, Parties, OrderNotices
  <2>3. [orders[q.order] EXCEPT !.counterOffer = q.amount] \in OrderRow
    BY <2>1 DEF OrdersTypeOK, OrderRow, MaybePrice
  <2>4. offered' \in [OrderIds -> SUBSET Prices]
    BY <1>7, <2>1 DEF WriteCounterOffer, OrdersTypeOK
  <2>5. orders' \in [OrderIds -> OrderRow]
    BY <1>7, <2>1, <2>3, RowTyped DEF WriteCounterOffer
  <2> QED
    BY <1>7, <2>2, <2>4, <2>5, BecomeTyped
       DEF WriteCounterOffer, Announce, OrdersTypeOK
<1>8. ASSUME NEW r \in Requests, WriteAcceptance(r)
      PROVE  OrdersTypeOK'
  <2> DEFINE q   == req[r]
             row == [orders[q.order] EXCEPT !.agreedPrice = q.amount,
                                            !.counterOffer = Null,
                                            !.status = "CONFIRMED"]
  <2>1. q.order \in OrderIds /\ q.amount \in Prices
    BY <1>8, RequestTyped DEF WriteAcceptance, Accepting
  <2>2. row \in OrderRow
    <3>1. orders[q.order] \in OrderRow
      BY <2>1 DEF OrdersTypeOK
    <3>2. /\ "CONFIRMED" \in MaybeStatus
          /\ Null \in MaybePrice
          /\ q.amount \in MaybePrice
      BY <2>1 DEF MaybeStatus, Statuses, MaybePrice
    <3> HIDE DEF q
    <3> QED
      BY <3>1, <3>2 DEF OrderRow
  <2>3. history' \in [OrderIds -> SUBSET Statuses]
    BY <1>8, <2>1, HistoryTyped DEF WriteAcceptance, Statuses
  <2>4. orders' \in [OrderIds -> OrderRow]
    BY <1>8, <2>1, <2>2, RowTyped DEF WriteAcceptance
  <2> QED
    BY <1>8, <2>3, <2>4, BecomeTyped DEF WriteAcceptance, Request, OrdersTypeOK
<1>9. ASSUME NEW r \in Requests, Notify(r)
      PROVE  OrdersTypeOK'
  <2> DEFINE m == req[r].message
  <2>1. m \in OrderMessage
    BY <1>9, RequestTyped DEF Notify, Announcing
  <2>2. [pc |-> "enqueue", message |-> [m EXCEPT !.to = "ordersQueue"]] \in Request
    BY <2>1 DEF Request, Announcing, OrderMessage
  <2> QED
    BY <1>9, <2>1, <2>2, BecomeTyped DEF Notify, Request, Message, OrdersTypeOK
<1>10. ASSUME NEW r \in Requests, EnqueueStatusChanged(r)
       PROVE  OrdersTypeOK'
  <2>1. req[r].message \in OrderMessage
    BY <1>10, RequestTyped DEF EnqueueStatusChanged, Announcing
  <2> QED
    BY <1>10, <2>1, BecomeTyped
       DEF EnqueueStatusChanged, Request, Message, OrdersTypeOK
<1>11. ASSUME NEW r \in Requests, Fail(r)
       PROVE  OrdersTypeOK'
  BY <1>11, BecomeTyped DEF Fail, Request, OrdersTypeOK
<1> QED
  BY <1>1, <1>2, <1>3, <1>4, <1>5, <1>6, <1>7, <1>8, <1>9, <1>10, <1>11
     DEF OrdersNext, Arrive, Proceed

\* Every reachable state is well typed: in particular an update never writes
\* a status outside the enumeration, and only parties are notified.
THEOREM OrdersTypeCorrect == OrdersSpec => []OrdersTypeOK
  BY InitTyped, StepTyped, PTL DEF OrdersSpec

-----------------------------------------------------------------------------
(***************************************************************************)
(* What the writes do, field by field                                      *)
(***************************************************************************)
LEMMA WriteStatusEffect ==
  ASSUME OrdersTypeOK, NEW r \in Requests, WriteStatus(r),
         NEW q, q = req[r], NEW o, o = q.order
  PROVE  /\ q \in Updating
         /\ o \in OrderIds
         /\ orders' = [orders EXCEPT ![o] = Updated(orders[o], q)]
         /\ orders'[o].status = TargetStatus(q)
         /\ orders'[o].isSignedByBuyer = SignedByBuyer(q)
         /\ orders'[o].isSignedByProvider = SignedByProvider(q)
         /\ orders'[o].contractSignedAt =
               (orders[o].contractSignedAt \/ TargetStatus(q) = "CONTRACT_SIGNED")
         /\ orders'[o].isInstantBooking = orders[o].isInstantBooking
         /\ orders'[o].initialQuote = orders[o].initialQuote
         /\ orders'[o].counterOffer = orders[o].counterOffer
         /\ orders'[o].agreedPrice = orders[o].agreedPrice
         /\ history' = [history EXCEPT ![o] = history[o] \cup {TargetStatus(q)}]
         /\ signers' = [signers EXCEPT ![o] =
                           IF Signing(q) THEN signers[o] \cup {q.actor}
                                         ELSE signers[o]]
         /\ offered' = offered
<1>1. q \in Updating
  BY RequestTyped DEF WriteStatus
<1>2. o \in OrderIds
  BY <1>1 DEF Updating
<1>3. orders' = [orders EXCEPT ![o] = Updated(orders[o], q)]
  BY DEF WriteStatus
<1>4. /\ history' = [history EXCEPT ![o] = history[o] \cup {TargetStatus(q)}]
      /\ signers' = [signers EXCEPT ![o] =
                        IF Signing(q) THEN signers[o] \cup {q.actor}
                                      ELSE signers[o]]
      /\ offered' = offered
  BY DEF WriteStatus, AddHistory
<1>5. orders[o] \in OrderRow /\ orders'[o] = Updated(orders[o], q)
  BY <1>2, <1>3 DEF OrdersTypeOK
<1>6. ASSUME NEW row \in OrderRow
      PROVE  LET new == Updated(row, q)
             IN  /\ new.status = TargetStatus(q)
                 /\ new.isSignedByBuyer = SignedByBuyer(q)
                 /\ new.isSignedByProvider = SignedByProvider(q)
                 /\ new.contractSignedAt =
                       (row.contractSignedAt \/ TargetStatus(q) = "CONTRACT_SIGNED")
                 /\ new.isInstantBooking = row.isInstantBooking
                 /\ new.initialQuote = row.initialQuote
                 /\ new.counterOffer = row.counterOffer
                 /\ new.agreedPrice = row.agreedPrice
  <2>1. /\ Updated(row, q).status = TargetStatus(q)
        /\ Updated(row, q).isSignedByBuyer = SignedByBuyer(q)
        /\ Updated(row, q).isSignedByProvider = SignedByProvider(q)
    BY DEF Updated, OrderRow
  <2>2. Updated(row, q).contractSignedAt =
           (row.contractSignedAt \/ TargetStatus(q) = "CONTRACT_SIGNED")
    BY DEF Updated, OrderRow
  <2>3. /\ Updated(row, q).isInstantBooking = row.isInstantBooking
        /\ Updated(row, q).initialQuote = row.initialQuote
        /\ Updated(row, q).counterOffer = row.counterOffer
        /\ Updated(row, q).agreedPrice = row.agreedPrice
    BY DEF Updated, OrderRow
  <2> QED
    BY <2>1, <2>2, <2>3
<1> QED
  BY <1>1, <1>2, <1>3, <1>4, <1>5, <1>6

LEMMA WriteCounterOfferEffect ==
  ASSUME OrdersTypeOK, NEW r \in Requests, WriteCounterOffer(r),
         NEW q, q = req[r], NEW o, o = q.order
  PROVE  /\ q \in Offering
         /\ o \in OrderIds
         /\ orders' = [orders EXCEPT ![o] =
                          [orders[o] EXCEPT !.counterOffer = q.amount]]
         /\ orders'[o] = [orders[o] EXCEPT !.counterOffer = q.amount]
         /\ orders[o] \in OrderRow
         /\ history' = history
         /\ signers' = signers
         /\ offered' = [offered EXCEPT ![o] = offered[o] \cup {q.amount}]
<1>1. q \in Offering
  BY RequestTyped DEF WriteCounterOffer
<1>2. o \in OrderIds
  BY <1>1 DEF Offering
<1>3. /\ orders' = [orders EXCEPT ![o] =
                          [orders[o] EXCEPT !.counterOffer = q.amount]]
      /\ history' = history
      /\ signers' = signers
      /\ offered' = [offered EXCEPT ![o] = offered[o] \cup {q.amount}]
  BY DEF WriteCounterOffer
<1> QED
  BY <1>1, <1>2, <1>3 DEF OrdersTypeOK

LEMMA WriteAcceptanceEffect ==
  ASSUME OrdersTypeOK, NEW r \in Requests, WriteAcceptance(r),
         NEW q, q = req[r], NEW o, o = q.order
  PROVE  /\ q \in Accepting
         /\ o \in OrderIds
         /\ orders' = [orders EXCEPT ![o] =
                          [orders[o] EXCEPT !.agreedPrice = q.amount,
                                            !.counterOffer = Null,
                                            !.status = "CONFIRMED"]]
         /\ orders'[o] = [orders[o] EXCEPT !.agreedPrice = q.amount,
                                           !.counterOffer = Null,
                                           !.status = "CONFIRMED"]
         /\ orders[o] \in OrderRow
         /\ history' = [history EXCEPT ![o] = history[o] \cup {"CONFIRMED"}]
         /\ signers' = signers
         /\ offered' = offered
<1>1. q \in Accepting
  BY RequestTyped DEF WriteAcceptance
<1>2. o \in OrderIds
  BY <1>1 DEF Accepting
<1>3. /\ orders' = [orders EXCEPT ![o] =
                          [orders[o] EXCEPT !.agreedPrice = q.amount,
                                            !.counterOffer = Null,
                                            !.status = "CONFIRMED"]]
      /\ history' = [history EXCEPT ![o] = history[o] \cup {"CONFIRMED"}]
      /\ signers' = signers
      /\ offered' = offered
  BY DEF WriteAcceptance, AddHistory
<1> QED
  BY <1>1, <1>2, <1>3 DEF OrdersTypeOK

-----------------------------------------------------------------------------
(***************************************************************************)
(* What never goes away again, and the requests it carries.                *)
(***************************************************************************)
Grows ==
    \A o \in OrderIds :
        /\ history[o] \subseteq history'[o]
        /\ signers[o] \subseteq signers'[o]
        /\ offered[o] \subseteq offered'[o]
        /\ orders[o].contractSignedAt => orders'[o].contractSignedAt

\* A step that only lets these grow keeps the slots it does not move well
\* founded.
LEMMA SlotKept ==
  ASSUME OrdersTypeOK, Grows, NEW s \in Requests, req'[s] = req[s],
         UpdateWellFounded(s), OfferWellFounded(s), MessageCommitted(s)
  PROVE  UpdateWellFounded(s)' /\ OfferWellFounded(s)' /\ MessageCommitted(s)'
<1>1. UpdateWellFounded(s)'
  <2> SUFFICES ASSUME Writes(s, "updateStatus")' PROVE UpdateWellFounded(s)'
    BY DEF UpdateWellFounded
  <2>1. Writes(s, "updateStatus")
    BY DEF Writes
  <2>2. req[s].order \in OrderIds
    BY <2>1, RequestTyped DEF Updating
  <2> QED
    BY <2>1, <2>2 DEF UpdateWellFounded, Grows
<1>2. OfferWellFounded(s)'
  <2>1. Writes(s, "submitCounterOffer") \/ Writes(s, "acceptCounterOffer")
           => req[s].order \in OrderIds
    BY RequestTyped DEF Offering, Accepting
  <2> QED
    BY <2>1 DEF OfferWellFounded, Grows, Writes
<1>3. MessageCommitted(s)'
  <2>1. req[s].pc \in {"notify", "enqueue"} => req[s].message.order \in OrderIds
    BY RequestTyped DEF Announcing, OrderMessage
  <2> QED
    BY <2>1 DEF MessageCommitted, Grows
<1> QED
  BY <1>1, <1>2, <1>3

LEMMA OtherSlots ==
  ASSUME OrdersTypeOK, RequestsWellFounded, Grows,
         NEW r \in Requests, NEW q, req' = [req EXCEPT ![r] = q],
         UpdateWellFounded(r)', OfferWellFounded(r)', MessageCommitted(r)'
  PROVE  RequestsWellFounded'
<1>1. ASSUME NEW s \in Requests, s # r
      PROVE  UpdateWellFounded(s)' /\ OfferWellFounded(s)' /\ MessageCommitted(s)'
  <2>1. req'[s] = req[s]
    BY <1>1 DEF OrdersTypeOK
  <2> QED
    BY <1>1, <2>1, SlotKept DEF RequestsWellFounded
<1> QED
  BY <1>1 DEF RequestsWellFounded

-----------------------------------------------------------------------------
(***************************************************************************)
(* What is known of the rows, and the steps that keep it.                  *)
(***************************************************************************)
RowsInv ==
    /\ WorkIsContracted
    /\ SignaturesGenuine
    /\ NoStageSkipped
    /\ InstantBookingUnpriced
    /\ AgreedPriceWasOffered
    /\ RowsConsistent

\* The steps that read or announce.
LEMMA RowsUntouched ==
  ASSUME RowsInv, UNCHANGED <<orders, history, signers, offered>>
  PROVE  RowsInv' /\ Grows
<1>1. Grows
  BY DEF Grows
<1>2. WorkIsContracted' /\ SignaturesGenuine'
  BY DEF RowsInv, WorkIsContracted, SignaturesGenuine
<1>3. NoStageSkipped' /\ InstantBookingUnpriced'
  BY DEF RowsInv, NoStageSkipped, InstantBookingUnpriced
<1>4. AgreedPriceWasOffered' /\ RowsConsistent'
  BY DEF RowsInv, AgreedPriceWasOffered, RowsConsistent
<1> QED
  BY <1>1, <1>2, <1>3, <1>4 DEF RowsInv

\* A transition leads to a stage all whose presuppositions are met, if those
\* of the status it starts from are.
LEMMA TransitionKeepsOrder ==
  ASSUME NEW from, NEW to, NEW h, Allowed(from, to), from \in h, Before(from) \subseteq h
  PROVE  Before(to) \subseteq h
  BY DEF Allowed, ORDER_TRANSITIONS, Before

LEMMA CreateOrderKeepsRows ==
  ASSUME OrdersTypeOK, RowsInv, NEW r \in Requests, NEW o \in OrderIds,
         NEW instant \in BOOLEAN, NEW quote \in MaybePrice,
         CreateOrder(r, o, instant, quote)
  PROVE  RowsInv' /\ Grows
<1> DEFINE booked == IsInstantBooking(instant, quote)
           status == IF booked THEN "CONFIRMED" ELSE "REQUESTED"
<1>1. orders[o] = NoRow /\ history[o] = {}
  BY DEF CreateOrder, RowsInv, RowsConsistent
<1>2. \A p \in OrderIds \ {o} : orders'[p] = orders[p] /\ history'[p] = history[p]
  BY DEF CreateOrder, AddHistory, OrdersTypeOK
<1>3. /\ orders'[o] = [NoRow EXCEPT !.status = status,
                                    !.isInstantBooking = booked,
                                    !.initialQuote = quote]
      /\ history'[o] = {status}
      /\ signers' = signers
      /\ offered' = offered
  BY <1>1 DEF CreateOrder, AddHistory, OrdersTypeOK
<1>4. /\ orders'[o].status = status
      /\ orders'[o].isInstantBooking = booked
      /\ orders'[o].initialQuote = quote
      /\ orders'[o].counterOffer = Null
      /\ orders'[o].agreedPrice = Null
      /\ ~orders'[o].isSignedByBuyer
      /\ ~orders'[o].isSignedByProvider
  BY <1>3 DEF NoRow
<1>5. status \in {"CONFIRMED", "REQUESTED"} /\ status # Null
  BY NullAssumption DEF Statuses
<1> HIDE DEF status
<1>6. Grows
  BY <1>1, <1>2, <1>3 DEF Grows, NoRow
<1>7. WorkIsContracted'
  BY <1>2, <1>4, <1>5 DEF RowsInv, WorkIsContracted, Working
<1>8. SignaturesGenuine'
  BY <1>2, <1>3, <1>4 DEF RowsInv, SignaturesGenuine
<1>9. NoStageSkipped'
  <2>1. Before(status) = {}
    BY <1>5 DEF Before
  <2> QED
    BY <1>2, <1>3, <1>4, <2>1 DEF RowsInv, NoStageSkipped
<1>10. InstantBookingUnpriced'
  <2>1. booked => quote \in {Null, 0} /\ status = "CONFIRMED"
    BY DEF IsInstantBooking, status
  <2> HIDE DEF booked
  <2> QED
    <3>1. ASSUME orders'[o].isInstantBooking
          PROVE  /\ orders'[o].initialQuote \in {Null, 0}
                 /\ "REQUESTED" \notin history'[o]
      BY <1>3, <1>4, <2>1, <3>1
    <3> QED
      BY <1>2, <1>4, <3>1 DEF RowsInv, InstantBookingUnpriced
<1>11. AgreedPriceWasOffered'
  BY <1>2, <1>3, <1>4 DEF RowsInv, AgreedPriceWasOffered
<1>12. RowsConsistent'
  BY <1>2, <1>3, <1>4, <1>5 DEF RowsInv, RowsConsistent
<1> QED
  BY <1>6, <1>7, <1>8, <1>9, <1>10, <1>11, <1>12 DEF RowsInv

LEMMA WriteStatusKeepsRows ==
  ASSUME OrdersTypeOK, RowsInv, NEW r \in Requests, WriteStatus(r),
         UpdateWellFounded(r)
  PROVE  RowsInv' /\ Grows /\ TargetStatus(req[r]) \in history'[req[r].order]
<1> DEFINE q == req[r]
           o == q.order
           t == TargetStatus(q)
<1>1. /\ q \in Updating
      /\ o \in OrderIds
      /\ orders' = [orders EXCEPT ![o] = Updated(orders[o], q)]
      /\ orders'[o].status = t
      /\ orders'[o].isSignedByBuyer = SignedByBuyer(q)
      /\ orders'[o].isSignedByProvider = SignedByProvider(q)
      /\ orders'[o].contractSignedAt =
            (orders[o].contractSignedAt \/ t = "CONTRACT_SIGNED")
      /\ orders'[o].isInstantBooking = orders[o].isInstantBooking
      /\ orders'[o].initialQuote = orders[o].initialQuote
      /\ orders'[o].counterOffer = orders[o].counterOffer
      /\ orders'[o].agreedPrice = orders[o].agreedPrice
      /\ history' = [history EXCEPT ![o] = history[o] \cup {t}]
      /\ signers' = [signers EXCEPT ![o] =
                        IF Signing(q) THEN signers[o] \cup {q.actor}
                                      ELSE signers[o]]
      /\ offered' = offered
  BY WriteStatusEffect
<1>2. /\ Allowed(q.status, q.target)
      /\ q.status \in history[o]
      /\ q.status \in Working =>
             /\ q.isSignedByBuyer
             /\ q.isSignedByProvider
             /\ orders[o].contractSignedAt
      /\ q.isSignedByBuyer => signers[o] \cap {"BUYER", "ADMIN"} # {}
      /\ q.isSignedByProvider => signers[o] \cap {"PROVIDER", "ADMIN"} # {}
  BY DEF WriteStatus, UpdateWellFounded
<1> HIDE DEF q, o
<1>3. \A p \in OrderIds \ {o} : /\ orders'[p] = orders[p]
                                /\ history'[p] = history[p]
                                /\ signers'[p] = signers[p]
  BY <1>1 DEF OrdersTypeOK
<1>4. /\ history'[o] = history[o] \cup {t}
      /\ signers'[o] = IF Signing(q) THEN signers[o] \cup {q.actor}
                                     ELSE signers[o]
  BY <1>1 DEF OrdersTypeOK
<1>5. t \in {q.status, q.target} /\ t # Null
  <2>1. t \in Statuses
    BY <1>1, UpdateTyped
  <2> QED
    BY <2>1, NullAssumption DEF TargetStatus
<1>6. Grows
  <2>1. orders[o].contractSignedAt => orders'[o].contractSignedAt
    BY <1>1
  <2> QED
    BY <1>1, <1>3, <1>4, <2>1 DEF Grows
<1>7. WorkIsContracted'
  <2>1. ASSUME t \in Working
        PROVE  /\ SignedByBuyer(q)
               /\ SignedByProvider(q)
               /\ orders[o].contractSignedAt \/ t = "CONTRACT_SIGNED"
    <3>1. CASE Signing(q)
      <4>1. q.status = "CONFIRMED"
        BY <1>2, <3>1 DEF Signing, Allowed, ORDER_TRANSITIONS
      <4>2. ShouldAdvance(q)
        BY <2>1, <4>1 DEF TargetStatus, Working
      <4> QED
        BY <3>1, <4>2 DEF ShouldAdvance, TargetStatus, Signing
    <3>2. CASE ~Signing(q)
      <4>1. t = q.target
        BY <3>2 DEF TargetStatus, ShouldAdvance
      <4>2. q.status \in Working
        BY <1>2, <2>1, <3>2, <4>1 DEF Signing, Allowed, ORDER_TRANSITIONS, Working
      <4> QED
        BY <1>2, <4>2 DEF SignedByBuyer, SignedByProvider
    <3> QED
      BY <3>1, <3>2
  <2> HIDE DEF t
  <2> QED
    BY <1>1, <1>3, <2>1 DEF RowsInv, WorkIsContracted
<1>8. SignaturesGenuine'
  <2>1. SignedByBuyer(q) => signers'[o] \cap {"BUYER", "ADMIN"} # {}
    BY <1>2, <1>4 DEF SignedByBuyer
  <2>2. SignedByProvider(q) => signers'[o] \cap {"PROVIDER", "ADMIN"} # {}
    BY <1>2, <1>4 DEF SignedByProvider
  <2> QED
    BY <1>1, <1>3, <2>1, <2>2 DEF RowsInv, SignaturesGenuine
<1>9. NoStageSkipped'
  <2>1. \A s \in history[o] : Before(s) \subseteq history[o]
    BY <1>1 DEF RowsInv, NoStageSkipped
  <2>2. Before(q.target) \subseteq history[o]
    BY <1>2, <2>1, TransitionKeepsOrder
  <2>3. Before(t) \subseteq history[o]
    BY <1>2, <1>5, <2>1, <2>2
  <2> HIDE DEF t
  <2> QED
    BY <1>1, <1>3, <1>4, <2>1, <2>3 DEF RowsInv, NoStageSkipped
<1>10. InstantBookingUnpriced'
  <2>1. t = "REQUESTED" => "REQUESTED" \in history[o]
    <3>1. q.target # "REQUESTED"
      BY <1>2 DEF Allowed, ORDER_TRANSITIONS
    <3> QED
      BY <1>2, <1>5, <3>1
  <2> HIDE DEF t
  <2> QED
    BY <1>1, <1>3, <1>4, <2>1 DEF RowsInv, InstantBookingUnpriced
<1>11. AgreedPriceWasOffered'
  BY <1>1, <1>3, <1>4 DEF RowsInv, AgreedPriceWasOffered
<1>12. RowsConsistent'
  BY <1>1, <1>3, <1>4, <1>5 DEF RowsInv, RowsConsistent
<1> QED
  BY <1>4, <1>6, <1>7, <1>8, <1>9, <1>10, <1>11, <1>12 DEF RowsInv, q, o

LEMMA WriteCounterOfferKeepsRows ==
  ASSUME OrdersTypeOK, RowsInv, NEW r \in Requests, WriteCounterOffer(r),
         OfferWellFounded(r)
  PROVE  RowsInv' /\ Grows
<1> DEFINE q == req[r]
           o == q.order
<1>1. /\ q \in Offering
      /\ o \in OrderIds
      /\ orders' = [orders EXCEPT ![o] =
                       [orders[o] EXCEPT !.counterOffer = q.amount]]
      /\ orders'[o] = [orders[o] EXCEPT !.counterOffer = q.amount]
      /\ orders[o] \in OrderRow
      /\ history' = history
      /\ signers' = signers
      /\ offered' = [offered EXCEPT ![o] = offered[o] \cup {q.amount}]
  BY WriteCounterOfferEffect
<1>2. "REQUESTED" \in history[o]
  BY DEF WriteCounterOffer, OfferWellFounded
<1> HIDE DEF q, o
<1>3. /\ \A p \in OrderIds \ {o} : /\ orders'[p] = orders[p]
                                   /\ offered'[p] = offered[p]
      /\ offered'[o] = offered[o] \cup {q.amount}
  BY <1>1 DEF OrdersTypeOK
<1>4. /\ orders'[o].status = orders[o].status
      /\ orders'[o].isInstantBooking = orders[o].isInstantBooking
      /\ orders'[o].agreedPrice = orders[o].agreedPrice
      /\ orders'[o].isSignedByBuyer = orders[o].isSignedByBuyer
      /\ orders'[o].isSignedByProvider = orders[o].isSignedByProvider
      /\ orders'[o].contractSignedAt = orders[o].contractSignedAt
      /\ orders'[o].counterOffer = q.amount
  BY <1>1 DEF OrderRow
<1>5. orders[o].status # Null /\ ~orders[o].isInstantBooking
  BY <1>1, <1>2 DEF RowsInv, RowsConsistent, InstantBookingUnpriced
<1>6. Grows
  BY <1>1, <1>3, <1>4 DEF Grows
<1>7. WorkIsContracted'
  BY <1>3, <1>4 DEF RowsInv, WorkIsContracted
<1>8. SignaturesGenuine'
  BY <1>1, <1>3, <1>4 DEF RowsInv, SignaturesGenuine
<1>9. NoStageSkipped'
  BY <1>1, <1>3, <1>4 DEF RowsInv, NoStageSkipped
<1>10. InstantBookingUnpriced'
  BY <1>1, <1>3, <1>4, <1>5 DEF RowsInv, InstantBookingUnpriced
<1>11. AgreedPriceWasOffered'
  BY <1>1, <1>3, <1>4 DEF RowsInv, AgreedPriceWasOffered
<1>12. RowsConsistent'
  BY <1>1, <1>2, <1>3, <1>4, <1>5 DEF RowsInv, RowsConsistent
<1> QED
  BY <1>6, <1>7, <1>8, <1>9, <1>10, <1>11, <1>12 DEF RowsInv

LEMMA WriteAcceptanceKeepsRows ==
  ASSUME OrdersTypeOK, RowsInv, NEW r \in Requests, WriteAcceptance(r),
         OfferWellFounded(r)
  PROVE  RowsInv' /\ Grows
<1> DEFINE q == req[r]
           o == q.order
<1>1. /\ q \in Accepting
      /\ o \in OrderIds
      /\ orders' = [orders EXCEPT ![o] =
                       [orders[o] EXCEPT !.agreedPrice = q.amount,
                                         !.counterOffer = Null,
                                         !.status = "CONFIRMED"]]
      /\ orders'[o] = [orders[o] EXCEPT !.agreedPrice = q.amount,
                                        !.counterOffer = Null,
                                        !.status = "CONFIRMED"]
      /\ orders[o] \in OrderRow
      /\ history' = [history EXCEPT ![o] = history[o] \cup {"CONFIRMED"}]
      /\ signers' = signers
      /\ offered' = offered
  BY WriteAcceptanceEffect
<1>2. "REQUESTED" \in history[o] /\ q.amount \in offered[o]
  BY DEF WriteAcceptance, OfferWellFounded
<1> HIDE DEF q, o
<1>3. /\ \A p \in OrderIds \ {o} : /\ orders'[p] = orders[p]
                                   /\ history'[p] = history[p]
      /\ history'[o] = history[o] \cup {"CONFIRMED"}
  BY <1>1 DEF OrdersTypeOK
<1>4. /\ orders'[o].status = "CONFIRMED"
      /\ orders'[o].counterOffer = Null
      /\ orders'[o].agreedPrice = q.amount
      /\ orders'[o].isInstantBooking = orders[o].isInstantBooking
      /\ orders'[o].isSignedByBuyer = orders[o].isSignedByBuyer
      /\ orders'[o].isSignedByProvider = orders[o].isSignedByProvider
      /\ orders'[o].contractSignedAt = orders[o].contractSignedAt
  <2>1. /\ orders'[o].status = "CONFIRMED"
        /\ orders'[o].counterOffer = Null
        /\ orders'[o].agreedPrice = q.amount
    BY <1>1 DEF OrderRow
  <2>2. /\ orders'[o].isInstantBooking = orders[o].isInstantBooking
        /\ orders'[o].isSignedByBuyer = orders[o].isSignedByBuyer
    BY <1>1 DEF OrderRow
  <2>3. /\ orders'[o].isSignedByProvider = orders[o].isSignedByProvider
        /\ orders'[o].contractSignedAt = orders[o].contractSignedAt
    BY <1>1 DEF OrderRow
  <2> QED
    BY <2>1, <2>2, <2>3
<1>5. ~orders[o].isInstantBooking
  BY <1>1, <1>2 DEF RowsInv, InstantBookingUnpriced
<1>6. Grows
  BY <1>1, <1>3, <1>4 DEF Grows
<1>7. WorkIsContracted'
  BY <1>3, <1>4 DEF RowsInv, WorkIsContracted, Working
<1>8. SignaturesGenuine'
  BY <1>1, <1>3, <1>4 DEF RowsInv, SignaturesGenuine
<1>9. NoStageSkipped'
  <2>1. Before("CONFIRMED") = {}
    BY DEF Before
  <2> QED
    BY <1>3, <1>4, <2>1 DEF RowsInv, NoStageSkipped
<1>10. InstantBookingUnpriced'
  BY <1>3, <1>4, <1>5 DEF RowsInv, InstantBookingUnpriced
<1>11. AgreedPriceWasOffered'
  BY <1>1, <1>2, <1>3, <1>4 DEF RowsInv, AgreedPriceWasOffered
<1>12. RowsConsistent'
  <2>1. Null # "CONFIRMED"
    BY NullAssumption DEF Statuses
  <2> QED
    BY <1>1, <1>3, <1>4, <2>1 DEF RowsInv, RowsConsistent
<1> QED
  BY <1>6, <1>7, <1>8, <1>9, <1>10, <1>11, <1>12 DEF RowsInv

-----------------------------------------------------------------------------
(***************************************************************************)
(* The inductive invariant and its consequences.                           *)
(***************************************************************************)
LEMMA InvInit == OrdersInit => OrdersInv
<1> SUFFICES ASSUME OrdersInit PROVE OrdersInv
  OBVIOUS
<1>1. OrdersTypeOK
  BY InitTyped
<1>2. \A o \in OrderIds :
         orders[o] = NoRow /\ history[o] = {} /\ signers[o] = {} /\ offered[o] = {}
  BY DEF OrdersInit
<1>3. \A r \in Requests : req[r] = Idle
  BY DEF OrdersInit
<1>4. Null \notin Working
  BY NullAssumption DEF Working, Statuses
<1>5. WorkIsContracted /\ SignaturesGenuine /\ NoStageSkipped
  BY <1>2, <1>4 DEF NoRow, WorkIsContracted, SignaturesGenuine, NoStageSkipped
<1>6. InstantBookingUnpriced /\ AgreedPriceWasOffered /\ RowsConsistent
  <2>1. /\ ~NoRow.isInstantBooking
        /\ NoRow.agreedPrice = Null
        /\ NoRow.counterOffer = Null
    BY DEF NoRow
  <2> QED
    BY <1>2, <2>1
       DEF InstantBookingUnpriced, AgreedPriceWasOffered, RowsConsistent
<1>7. AnnouncedIsCommitted
  BY DEF OrdersInit, AnnouncedIsCommitted
<1>8. RequestsWellFounded
  BY <1>3 DEF Idle, RequestsWellFounded, UpdateWellFounded, OfferWellFounded,
              MessageCommitted, Writes
<1> QED
  BY <1>1, <1>5, <1>6, <1>7, <1>8 DEF OrdersInv

\* A slot that is idle, or that announces what history knows, is well founded.
LEMMA AnnouncingSlot ==
  ASSUME NEW r \in Requests,
         \/ req'[r] = Idle
         \/ /\ req'[r].pc \in {"notify", "enqueue"}
            /\ req'[r].message.about \in Statuses =>
                  req'[r].message.about \in history'[req'[r].message.order]
  PROVE  UpdateWellFounded(r)' /\ OfferWellFounded(r)' /\ MessageCommitted(r)'
<1>1. req'[r].pc # "write"
  BY DEF Idle
<1>2. MessageCommitted(r)'
  BY DEF Idle, MessageCommitted
<1> QED
  BY <1>1, <1>2 DEF UpdateWellFounded, OfferWellFounded, Writes

LEMMA InvStep == OrdersInv /\ [OrdersNext]_orderVars => OrdersInv'
<1> SUFFICES ASSUME OrdersInv, [OrdersNext]_orderVars PROVE OrdersInv'
  OBVIOUS
<1> USE DEF Become
<1>1. /\ OrdersTypeOK /\ RowsInv /\ AnnouncedIsCommitted /\ RequestsWellFounded
      /\ OrdersTypeOK'
      /\ req \in [Requests -> Request]
  BY StepTyped DEF OrdersInv, RowsInv, OrdersTypeOK
<1>2. \A r \in Requests :
         UpdateWellFounded(r) /\ OfferWellFounded(r) /\ MessageCommitted(r)
  BY <1>1 DEF RequestsWellFounded
<1>3. SUFFICES RowsInv' /\ AnnouncedIsCommitted' /\ RequestsWellFounded'
  BY <1>1 DEF OrdersInv, RowsInv
<1>4. CASE UNCHANGED orderVars
  BY <1>1, <1>2, <1>4, RowsUntouched
     DEF orderVars, AnnouncedIsCommitted, RequestsWellFounded, UpdateWellFounded,
         OfferWellFounded, MessageCommitted, Writes
<1>5. ASSUME NEW r \in Requests, NEW o \in OrderIds,
             NEW instant \in BOOLEAN, NEW quote \in MaybePrice,
             CreateOrder(r, o, instant, quote)
      PROVE  RowsInv' /\ AnnouncedIsCommitted' /\ RequestsWellFounded'
  <2> DEFINE q == [pc |-> "notify",
                   message |-> [order |-> o, to |-> "PROVIDER",
                                about |-> "booking"]]
  <2>1. RowsInv' /\ Grows
    BY <1>1, <1>5, CreateOrderKeepsRows
  <2>2. req' = [req EXCEPT ![r] = q] /\ sent' = Null
    BY <1>5 DEF CreateOrder, Begin
  <2>3. UpdateWellFounded(r)' /\ OfferWellFounded(r)' /\ MessageCommitted(r)'
    BY <1>1, <2>2, AnnouncingSlot DEF Statuses
  <2> QED
    BY <1>1, <2>1, <2>2, <2>3, OtherSlots DEF AnnouncedIsCommitted
<1>6. ASSUME NEW r \in Requests, NEW o \in OrderIds,
             NEW actor \in Actors, NEW target \in Statuses,
             ReadForUpdateStatus(r, o, actor, target)
      PROVE  RowsInv' /\ AnnouncedIsCommitted' /\ RequestsWellFounded'
  <2> DEFINE q == [pc |-> "write", op |-> "updateStatus", order |-> o,
                   actor |-> actor, status |-> orders[o].status,
                   isSignedByBuyer |-> orders[o].isSignedByBuyer,
                   isSignedByProvider |-> orders[o].isSignedByProvider,
                   target |-> target]
  <2>1. RowsInv' /\ Grows
    BY <1>1, <1>6, RowsUntouched DEF ReadForUpdateStatus
  <2>2. req' = [req EXCEPT ![r] = q] /\ sent' = Null
    BY <1>6 DEF ReadForUpdateStatus, Begin
  <2>3. req'[r] = q
    BY <1>1, <2>2
  <2>4. Allowed(q.status, q.target) /\ q.status # Null
    BY <1>6, NullAssumption
       DEF ReadForUpdateStatus, Allowed, ORDER_TRANSITIONS, Statuses
  <2>5. UpdateWellFounded(r)'
    <3>1. q.status \in history[o]
      BY <1>1, <2>4 DEF RowsInv, NoStageSkipped
    <3>2. q.status \in Working => /\ q.isSignedByBuyer
                                  /\ q.isSignedByProvider
                                  /\ orders[o].contractSignedAt
      BY <1>1 DEF RowsInv, WorkIsContracted
    <3>3. /\ q.isSignedByBuyer => signers[o] \cap {"BUYER", "ADMIN"} # {}
          /\ q.isSignedByProvider => signers[o] \cap {"PROVIDER", "ADMIN"} # {}
      BY <1>1 DEF RowsInv, SignaturesGenuine
    <3>4. q.order = o /\ UNCHANGED <<orders, history, signers>>
      BY <1>6 DEF ReadForUpdateStatus
    <3> HIDE DEF q
    <3>5. /\ Allowed(req'[r].status, req'[r].target)
          /\ req'[r].status \in history'[req'[r].order]
          /\ req'[r].status \in Working =>
                /\ req'[r].isSignedByBuyer
                /\ req'[r].isSignedByProvider
                /\ orders'[req'[r].order].contractSignedAt
      BY <2>3, <2>4, <3>1, <3>2, <3>4
    <3>6. /\ req'[r].isSignedByBuyer =>
                signers'[req'[r].order] \cap {"BUYER", "ADMIN"} # {}
          /\ req'[r].isSignedByProvider =>
                signers'[req'[r].order] \cap {"PROVIDER", "ADMIN"} # {}
      BY <2>3, <3>3, <3>4
    <3> QED
      BY <3>5, <3>6 DEF UpdateWellFounded
  <2>6. OfferWellFounded(r)' /\ MessageCommitted(r)'
    BY <2>3 DEF OfferWellFounded, MessageCommitted, Writes
  <2> QED
    BY <1>1, <2>1, <2>2, <2>5, <2>6, OtherSlots DEF AnnouncedIsCommitted
<1>7. ASSUME NEW r \in Requests, NEW o \in OrderIds, NEW amount \in Prices,
             ReadForCounterOffer(r, o, amount)
      PROVE  RowsInv' /\ AnnouncedIsCommitted' /\ RequestsWellFounded'
  <2> DEFINE q == [pc |-> "write", op |-> "submitCounterOffer", order |-> o,
                   amount |-> amount]
  <2>1. RowsInv' /\ Grows
    BY <1>1, <1>7, RowsUntouched DEF ReadForCounterOffer
  <2>2. req' = [req EXCEPT ![r] = q] /\ sent' = Null
    BY <1>7 DEF ReadForCounterOffer, Begin
  <2>3. req'[r] = q
    BY <1>1, <2>2
  <2>4. "REQUESTED" \in history'[o]
    <3>1. "REQUESTED" # Null
      BY NullAssumption DEF Statuses
    <3> QED
      BY <1>1, <1>7, <3>1 DEF ReadForCounterOffer, RowsInv, NoStageSkipped
  <2>5. UpdateWellFounded(r)' /\ OfferWellFounded(r)' /\ MessageCommitted(r)'
    BY <2>3, <2>4 DEF UpdateWellFounded, OfferWellFounded, MessageCommitted, Writes
  <2> QED
    BY <1>1, <2>1, <2>2, <2>5, OtherSlots DEF AnnouncedIsCommitted
<1>8. ASSUME NEW r \in Requests, NEW o \in OrderIds, ReadForAcceptance(r, o)
      PROVE  RowsInv' /\ AnnouncedIsCommitted' /\ RequestsWellFounded'
  <2> DEFINE q == [pc |-> "write", op |-> "acceptCounterOffer", order |-> o,
                   amount |-> OfferOn(o)]
  <2>1. RowsInv' /\ Grows
    BY <1>1, <1>8, RowsUntouched DEF ReadForAcceptance
  <2>2. req' = [req EXCEPT ![r] = q] /\ sent' = Null
    BY <1>8 DEF ReadForAcceptance, Begin
  <2>3. req'[r] = q
    BY <1>1, <2>2
  <2>4. "REQUESTED" \in history'[o] /\ OfferOn(o) \in offered'[o]
    BY <1>1, <1>8 DEF ReadForAcceptance, OfferOn, RowsInv, RowsConsistent
  <2>5. UpdateWellFounded(r)' /\ OfferWellFounded(r)' /\ MessageCommitted(r)'
    <3> HIDE DEF OfferOn
    <3> QED
      BY <2>3, <2>4
         DEF UpdateWellFounded, OfferWellFounded, MessageCommitted, Writes
  <2> QED
    BY <1>1, <2>1, <2>2, <2>5, OtherSlots DEF AnnouncedIsCommitted
<1>9. ASSUME NEW r \in Requests, WriteStatus(r)
      PROVE  RowsInv' /\ AnnouncedIsCommitted' /\ RequestsWellFounded'
  <2> DEFINE m == [order |-> req[r].order, to |-> Counterparty(req[r].actor),
                   about |-> Announced(req[r])]
             q == [pc |-> "notify", message |-> m]
  <2>1. /\ RowsInv'
        /\ Grows
        /\ TargetStatus(req[r]) \in history'[req[r].order]
    BY <1>1, <1>2, <1>9, WriteStatusKeepsRows
  <2>2. req' = [req EXCEPT ![r] = q] /\ sent' = Null
    BY <1>9 DEF WriteStatus, Announce
  <2>3. req'[r] = q
    BY <1>1, <2>2
  <2>4. m.about \in Statuses => m.about \in history'[m.order]
    <3>1. Announced(req[r]) \in Statuses => Announced(req[r]) = TargetStatus(req[r])
      BY DEF Announced, TargetStatus, Statuses
    <3> QED
      BY <2>1, <3>1
  <2>5. UpdateWellFounded(r)' /\ OfferWellFounded(r)' /\ MessageCommitted(r)'
    BY <2>3, <2>4, AnnouncingSlot
  <2> QED
    BY <1>1, <2>1, <2>2, <2>5, OtherSlots DEF AnnouncedIsCommitted
<1>10. ASSUME NEW r \in Requests, WriteCounterOffer(r)
       PROVE  RowsInv' /\ AnnouncedIsCommitted' /\ RequestsWellFounded'
  <2> DEFINE q == [pc |-> "notify",
                   message |-> [order |-> req[r].order, to |-> "BUYER",
                                about |-> "counterOffer"]]
  <2>1. RowsInv' /\ Grows
    BY <1>1, <1>2, <1>10, WriteCounterOfferKeepsRows
  <2>2. req' = [req EXCEPT ![r] = q] /\ sent' = Null
    BY <1>10 DEF WriteCounterOffer, Announce
  <2>3. UpdateWellFounded(r)' /\ OfferWellFounded(r)' /\ MessageCommitted(r)'
    BY <1>1, <2>2, AnnouncingSlot DEF Statuses
  <2> QED
    BY <1>1, <2>1, <2>2, <2>3, OtherSlots DEF AnnouncedIsCommitted
<1>11. ASSUME NEW r \in Requests, WriteAcceptance(r)
       PROVE  RowsInv' /\ AnnouncedIsCommitted' /\ RequestsWellFounded'
  <2>1. RowsInv' /\ Grows
    BY <1>1, <1>2, <1>11, WriteAcceptanceKeepsRows
  <2>2. req' = [req EXCEPT ![r] = Idle] /\ sent' = Null
    BY <1>11 DEF WriteAcceptance
  <2>3. UpdateWellFounded(r)' /\ OfferWellFounded(r)' /\ MessageCommitted(r)'
    BY <1>1, <2>2, AnnouncingSlot
  <2> QED
    BY <1>1, <2>1, <2>2, <2>3, OtherSlots DEF AnnouncedIsCommitted
<1>12. ASSUME NEW r \in Requests, Notify(r)
       PROVE  RowsInv' /\ AnnouncedIsCommitted' /\ RequestsWellFounded'
  <2> DEFINE m == req[r].message
             q == IF m.about \in Statuses
                  THEN [pc |-> "enqueue",
                        message |-> [m EXCEPT !.to = "ordersQueue"]]
                  ELSE Idle
  <2>1. RowsInv' /\ Grows
    BY <1>1, <1>12, RowsUntouched DEF Notify
  <2>2. req' = [req EXCEPT ![r] = q] /\ sent' = m /\ history' = history
    BY <1>12 DEF Notify
  <2>3. req'[r] = q
    BY <1>1, <2>2
  <2>4. m \in OrderMessage /\ (m.about \in Statuses => m.about \in history[m.order])
    BY <1>1, <1>2, <1>12, RequestTyped DEF Notify, Announcing, MessageCommitted
  <2>5. UpdateWellFounded(r)' /\ OfferWellFounded(r)' /\ MessageCommitted(r)'
    <3>1. /\ [m EXCEPT !.to = "ordersQueue"].about = m.about
          /\ [m EXCEPT !.to = "ordersQueue"].order = m.order
      BY <2>4 DEF OrderMessage
    <3> HIDE DEF m
    <3>2. \/ req'[r] = Idle
          \/ /\ req'[r].pc = "enqueue"
             /\ req'[r].message = [m EXCEPT !.to = "ordersQueue"]
      BY <2>3
    <3> QED
      BY <2>2, <2>4, <3>1, <3>2, AnnouncingSlot
  <2> QED
    BY <1>1, <2>1, <2>2, <2>4, <2>5, OtherSlots DEF AnnouncedIsCommitted
<1>13. ASSUME NEW r \in Requests, EnqueueStatusChanged(r)
       PROVE  RowsInv' /\ AnnouncedIsCommitted' /\ RequestsWellFounded'
  <2>1. RowsInv' /\ Grows
    BY <1>1, <1>13, RowsUntouched DEF EnqueueStatusChanged
  <2>2. /\ req' = [req EXCEPT ![r] = Idle]
        /\ sent' = req[r].message
        /\ history' = history
    BY <1>13 DEF EnqueueStatusChanged
  <2>3. UpdateWellFounded(r)' /\ OfferWellFounded(r)' /\ MessageCommitted(r)'
    BY <1>1, <2>2, AnnouncingSlot
  <2>4. AnnouncedIsCommitted'
    BY <1>2, <1>13, <2>2
       DEF EnqueueStatusChanged, MessageCommitted, AnnouncedIsCommitted
  <2> QED
    BY <1>1, <2>1, <2>2, <2>3, <2>4, OtherSlots
<1>14. ASSUME NEW r \in Requests, Fail(r)
       PROVE  RowsInv' /\ AnnouncedIsCommitted' /\ RequestsWellFounded'
  <2>1. RowsInv' /\ Grows
    BY <1>1, <1>14, RowsUntouched DEF Fail
  <2>2. req' = [req EXCEPT ![r] = Idle] /\ sent' = Null
    BY <1>14 DEF Fail
  <2>3. UpdateWellFounded(r)' /\ OfferWellFounded(r)' /\ MessageCommitted(r)'
    BY <1>1, <2>2, AnnouncingSlot
  <2> QED
    BY <1>1, <2>1, <2>2, <2>3, OtherSlots DEF AnnouncedIsCommitted
<1> QED
  BY <1>4, <1>5, <1>6, <1>7, <1>8, <1>9, <1>10, <1>11, <1>12, <1>13, <1>14
     DEF OrdersNext, Arrive, Proceed

\* OrdersInv is inductive, so every reachable state has it.
THEOREM OrdersInvariant == OrdersSpec => []OrdersInv
  BY InvInit, InvStep, PTL DEF OrdersSpec

\* However requests interleave or die, an order that is CONTRACT_SIGNED,
\* IN_PROGRESS or DELIVERED carries both signatures and the time of signing.
THEOREM WorkContracted == OrdersSpec => []WorkIsContracted
<1>1. OrdersInv => WorkIsContracted
  BY DEF OrdersInv
<1> QED
  BY <1>1, OrdersInvariant, PTL

\* A signature flag is only ever set for a party that signed, or for which an
\* admin did.
THEOREM SignaturesAreGenuine == OrdersSpec => []SignaturesGenuine
<1>1. OrdersInv => SignaturesGenuine
  BY DEF OrdersInv
<1> QED
  BY <1>1, OrdersInvariant, PTL

\* The history of an order has every stage that leads to its status.
THEOREM StagesComplete == OrdersSpec => []NoStageSkipped
<1>1. OrdersInv => NoStageSkipped
  BY DEF OrdersInv
<1> QED
  BY <1>1, OrdersInvariant, PTL

\* An instant booking is never negotiated, so it never carries a price.
THEOREM InstantBookingsUnpriced == OrdersSpec => []InstantBookingUnpriced
<1>1. OrdersInv => InstantBookingUnpriced
  BY DEF OrdersInv
<1> QED
  BY <1>1, OrdersInvariant, PTL

\* A price is agreed only on an amount the provider offered.
THEOREM AgreedPricesOffered == OrdersSpec => []AgreedPriceWasOffered
<1>1. OrdersInv => AgreedPriceWasOffered
  BY DEF OrdersInv
<1> QED
  BY <1>1, OrdersInvariant, PTL

\* No party and no job ever hears of a status that is not committed.
THEOREM AnnouncementsCommitted == OrdersSpec => []AnnouncedIsCommitted
<1>1. OrdersInv => AnnouncedIsCommitted
  BY DEF OrdersInv
<1> QED
  BY <1>1, OrdersInvariant, PTL

-----------------------------------------------------------------------------
(***************************************************************************)
(* What a race can do at most.  Any number of requests may be between the  *)
(* read and the write of one order; UpdateWellFounded and OfferWellFounded *)
(* tell what the snapshot of an overtaken one is still good for.           *)
(***************************************************************************)
\* An order changes by its creation or by one of the three writes.
LEMMA RowChanges ==
  ASSUME OrdersInv, [OrdersNext]_orderVars, NEW o \in OrderIds
  PROVE  \/ orders'[o] = orders[o]
         \/ orders[o] = NoRow
         \/ \E r \in Requests :
               /\ req[r].order = o
               /\ WriteStatus(r) \/ WriteCounterOffer(r) \/ WriteAcceptance(r)
<1>0. OrdersTypeOK /\ RowsConsistent
  BY DEF OrdersInv
<1>1. ASSUME NEW r \in Requests, NEW p \in OrderIds,
             NEW instant \in BOOLEAN, NEW quote \in MaybePrice,
             CreateOrder(r, p, instant, quote)
      PROVE  orders'[o] = orders[o] \/ orders[o] = NoRow
  <2>1. orders[p] = NoRow /\ (o # p => orders'[o] = orders[o])
    BY <1>0, <1>1 DEF CreateOrder, RowsConsistent, OrdersTypeOK
  <2> QED
    BY <2>1
<1>2. ASSUME NEW r \in Requests,
             WriteStatus(r) \/ WriteCounterOffer(r) \/ WriteAcceptance(r)
      PROVE  orders'[o] = orders[o] \/ req[r].order = o
  BY <1>0, <1>2 DEF WriteStatus, WriteCounterOffer, WriteAcceptance, OrdersTypeOK
<1>3. \/ orders' = orders
      \/ \E r \in Requests : \/ WriteStatus(r) \/ WriteCounterOffer(r)
                             \/ WriteAcceptance(r)
      \/ \E r \in Requests, p \in OrderIds, instant \in BOOLEAN, quote \in MaybePrice :
             CreateOrder(r, p, instant, quote)
  BY DEF orderVars, OrdersNext, Arrive, Proceed, ReadForUpdateStatus,
         ReadForCounterOffer, ReadForAcceptance, Notify, EnqueueStatusChanged, Fail
<1> QED
  BY <1>1, <1>2, <1>3

\* What updateStatus writes, and what its snapshot is good for.
LEMMA StatusWritten ==
  ASSUME OrdersInv, NEW r \in Requests, WriteStatus(r), NEW q, q = req[r],
         NEW o, o = q.order
  PROVE  /\ Writes(r, "updateStatus")
         /\ q \in Updating
         /\ orders'[o].status = TargetStatus(q)
         /\ orders'[o].isSignedByBuyer = SignedByBuyer(q)
         /\ orders'[o].isSignedByProvider = SignedByProvider(q)
         /\ Allowed(q.status, q.target)
         /\ q.status \in history[o]
         /\ q.status \in Working => q.isSignedByBuyer /\ q.isSignedByProvider
<1>1. OrdersTypeOK /\ UpdateWellFounded(r) /\ Writes(r, "updateStatus")
  BY DEF OrdersInv, RequestsWellFounded, WriteStatus
<1>2. /\ q \in Updating
      /\ orders'[o].status = TargetStatus(q)
      /\ orders'[o].isSignedByBuyer = SignedByBuyer(q)
      /\ orders'[o].isSignedByProvider = SignedByProvider(q)
  BY <1>1, WriteStatusEffect
<1> QED
  BY <1>1, <1>2 DEF UpdateWellFounded

\* What acceptCounterOffer writes.
LEMMA AcceptanceWritten ==
  ASSUME OrdersInv, NEW r \in Requests, WriteAcceptance(r), NEW q, q = req[r],
         NEW o, o = q.order
  PROVE  /\ Writes(r, "acceptCounterOffer")
         /\ q.amount # Null
         /\ "REQUESTED" \in history[o]
         /\ orders'[o].status = "CONFIRMED"
         /\ orders'[o].agreedPrice = q.amount
         /\ orders'[o].isSignedByBuyer = orders[o].isSignedByBuyer
         /\ orders'[o].isSignedByProvider = orders[o].isSignedByProvider
<1>1. OrdersTypeOK /\ OfferWellFounded(r) /\ Writes(r, "acceptCounterOffer")
  BY DEF OrdersInv, RequestsWellFounded, WriteAcceptance
<1>2. /\ q \in Accepting
      /\ orders'[o] = [orders[o] EXCEPT !.agreedPrice = q.amount,
                                        !.counterOffer = Null,
                                        !.status = "CONFIRMED"]
      /\ orders[o] \in OrderRow
  BY <1>1, WriteAcceptanceEffect
<1>3. q.amount # Null
  BY <1>2, PricesAssumption, NullAssumption DEF Accepting
<1>4. /\ orders'[o].status = "CONFIRMED"
      /\ orders'[o].agreedPrice = q.amount
      /\ orders'[o].isSignedByBuyer = orders[o].isSignedByBuyer
      /\ orders'[o].isSignedByProvider = orders[o].isSignedByProvider
  BY <1>2, ZenonT(60) DEF OrderRow
<1> QED
  BY <1>1, <1>3, <1>4 DEF OfferWellFounded

\* A counter-offer leaves status and signatures alone.
LEMMA OfferWritten ==
  ASSUME OrdersTypeOK, NEW r \in Requests, WriteCounterOffer(r),
         NEW o, o = req[r].order
  PROVE  /\ orders'[o].status = orders[o].status
         /\ orders'[o].isSignedByBuyer = orders[o].isSignedByBuyer
         /\ orders'[o].isSignedByProvider = orders[o].isSignedByProvider
<1>1. /\ orders'[o] = [orders[o] EXCEPT !.counterOffer = req[r].amount]
      /\ orders[o] \in OrderRow
  BY WriteCounterOfferEffect
<1> QED
  BY <1>1 DEF OrderRow

\* A write that clears a flag comes from a snapshot without it: it is out of
\* date, and it was taken before the contract was complete.
LEMMA SignatureLoss ==
  ASSUME OrdersInv, [OrdersNext]_orderVars, NEW o \in OrderIds, LosesSignature(o)
  PROVE  /\ orders'[o].status \in {"CONFIRMED", "CANCELLED"}
         /\ \E r \in Requests : Overtaken(r, o) /\ WriteStatus(r)
<1>1. orders'[o] # orders[o] /\ orders[o] # NoRow
  BY DEF LosesSignature, NoRow
<1>2. PICK r \in Requests :
         /\ req[r].order = o
         /\ WriteStatus(r) \/ WriteCounterOffer(r) \/ WriteAcceptance(r)
  BY <1>1, RowChanges
<1>3. ~WriteCounterOffer(r) /\ ~WriteAcceptance(r)
  BY <1>2, OfferWritten, AcceptanceWritten DEF OrdersInv, LosesSignature
<1>4. PICK q : q = req[r]
  OBVIOUS
<1>5. /\ Writes(r, "updateStatus")
      /\ orders'[o].status = TargetStatus(q)
      /\ orders'[o].isSignedByBuyer = SignedByBuyer(q)
      /\ orders'[o].isSignedByProvider = SignedByProvider(q)
      /\ Allowed(q.status, q.target)
      /\ q.status \in Working => q.isSignedByBuyer /\ q.isSignedByProvider
  BY <1>2, <1>3, <1>4, StatusWritten
<1>6. \/ orders[o].isSignedByBuyer /\ ~q.isSignedByBuyer /\ ~SignedByBuyer(q)
      \/ orders[o].isSignedByProvider /\ ~q.isSignedByProvider /\ ~SignedByProvider(q)
  BY <1>5 DEF LosesSignature, SignedByBuyer, SignedByProvider
<1>7. q.status \notin Working /\ ~(Signing(q) /\ ShouldAdvance(q))
  BY <1>5, <1>6 DEF ShouldAdvance
<1>8. TargetStatus(q) \in {"CONFIRMED", "CANCELLED"}
  BY <1>5, <1>7
     DEF TargetStatus, ShouldAdvance, Signing, Allowed, ORDER_TRANSITIONS, Working
<1>9. Overtaken(r, o)
  BY <1>2, <1>4, <1>5, <1>6 DEF Overtaken
<1> QED
  BY <1>2, <1>3, <1>5, <1>8, <1>9

\* A write from a snapshot that is current makes a legal change; one that is
\* not goes by a status, or a negotiation, that the order has had.
LEMMA LegalUnlessOvertaken ==
  ASSUME OrdersInv, [OrdersNext]_orderVars, NEW o \in OrderIds, ~LegalChange(o)
  PROVE  /\ \E r \in Requests : Overtaken(r, o) /\ (WriteStatus(r) \/ WriteAcceptance(r))
         /\ \E s \in history[o] :
               s = orders'[o].status \/ Allowed(s, orders'[o].status)
<1>1. orders'[o] # orders[o] /\ orders[o] # NoRow
  BY DEF LegalChange, NoRow
<1>2. PICK r \in Requests :
         /\ req[r].order = o
         /\ WriteStatus(r) \/ WriteCounterOffer(r) \/ WriteAcceptance(r)
  BY <1>1, RowChanges
<1>3. ~WriteCounterOffer(r)
  BY <1>2, OfferWritten DEF OrdersInv, LegalChange
<1>4. PICK q : q = req[r]
  OBVIOUS
<1>5. CASE WriteStatus(r)
  <2>1. /\ Writes(r, "updateStatus")
        /\ orders'[o].status = TargetStatus(q)
        /\ Allowed(q.status, q.target)
        /\ q.status \in history[o]
    BY <1>2, <1>4, <1>5, StatusWritten
  <2>2. orders'[o].status = q.status \/ Allowed(q.status, orders'[o].status)
    BY <2>1 DEF TargetStatus
  <2>3. q.status # orders[o].status
    BY <2>2 DEF LegalChange, Allowed
  <2>4. Overtaken(r, o)
    BY <1>2, <1>4, <2>1, <2>3 DEF Overtaken
  <2> QED
    BY <1>5, <2>1, <2>2, <2>4
<1>6. CASE WriteAcceptance(r)
  <2>1. /\ Writes(r, "acceptCounterOffer")
        /\ q.amount # Null
        /\ "REQUESTED" \in history[o]
        /\ orders'[o].status = "CONFIRMED"
        /\ orders'[o].agreedPrice = q.amount
    BY <1>2, <1>4, <1>6, AcceptanceWritten
  <2>2. q.amount # orders[o].counterOffer
    BY <2>1 DEF LegalChange
  <2>3. Overtaken(r, o)
    BY <1>2, <1>4, <2>1, <2>2 DEF Overtaken
  <2>4. Allowed("REQUESTED", orders'[o].status)
    BY <2>1 DEF Allowed, ORDER_TRANSITIONS
  <2> QED
    BY <1>6, <2>1, <2>3, <2>4
<1> QED
  BY <1>2, <1>3, <1>5, <1>6

\* Only the write of an overtaken updateStatus clears a signature, and it
\* leaves the order where no work rests on the contract.
THEOREM LossesAreOvertaken == OrdersSpec => SignatureLostByOvertaken
<1>1. OrdersInv /\ [OrdersNext]_orderVars =>
        [\A o \in OrderIds : LosesSignature(o) =>
            /\ orders'[o].status \in {"CONFIRMED", "CANCELLED"}
            /\ \E r \in Requests : Overtaken(r, o) /\ WriteStatus(r)]_orderVars
  BY SignatureLoss
<1> QED
  BY <1>1, OrdersInvariant, PTL DEF OrdersSpec, SignatureLostByOvertaken

\* Whatever overlaps, a status changes along ORDER_TRANSITIONS or by the
\* acceptance of the offer that is pending, unless an overtaken request writes;
\* and then to a status the order has had, or one that follows such a status.
THEOREM ChangesLegalOrOvertaken == OrdersSpec => ChangeLegalOrOvertaken
<1>1. OrdersInv /\ [OrdersNext]_orderVars =>
        [\A o \in OrderIds : LegalChange(o) \/
            /\ \E r \in Requests : Overtaken(r, o) /\ (WriteStatus(r) \/ WriteAcceptance(r))
            /\ \E s \in history[o] :
                  s = orders'[o].status \/ Allowed(s, orders'[o].status)]_orderVars
  BY LegalUnlessOvertaken
<1> QED
  BY <1>1, OrdersInvariant, PTL DEF OrdersSpec, ChangeLegalOrOvertaken

-----------------------------------------------------------------------------
(***************************************************************************)
(* For the services around this one: what they see a step on orders do,    *)
(* and what a step of theirs that leaves orders alone keeps.               *)
(***************************************************************************)
\* The history of an order changes by one entry, or not at all.
LEMMA HistorySteps ==
  ASSUME [OrdersNext]_orderVars
  PROVE  history' = history \/ \E o, to : AddHistory(o, to)
  BY ZenonT(60) DEF orderVars, OrdersNext, Arrive, Proceed, CreateOrder, ReadForUpdateStatus,
         ReadForCounterOffer, ReadForAcceptance, WriteStatus, WriteCounterOffer,
         WriteAcceptance, Notify, EnqueueStatusChanged, Fail

\* No entry of the history is ever taken back.
LEMMA HistoryGrows ==
  ASSUME OrdersTypeOK, [OrdersNext]_orderVars
  PROVE  \A o \in OrderIds : history[o] \subseteq history'[o]
<1>1. ASSUME NEW o, NEW to, AddHistory(o, to)
      PROVE  \A p \in OrderIds : history[p] \subseteq history'[p]
  BY <1>1 DEF AddHistory, OrdersTypeOK
<1> QED
  BY <1>1, HistorySteps

\* An order that exists goes on existing, and stays an instant booking or not.
LEMMA RowsStay ==
  ASSUME OrdersTypeOK, [OrdersNext]_orderVars
  PROVE  \A o \in OrderIds : orders[o].status # Null =>
             /\ orders'[o].status # Null
             /\ orders'[o].isInstantBooking = orders[o].isInstantBooking
<1>1. ASSUME NEW r \in Requests, NEW o \in OrderIds,
             NEW instant \in BOOLEAN, NEW quote \in MaybePrice,
             CreateOrder(r, o, instant, quote)
      PROVE  orders[o].status = Null /\ \A n \in OrderIds \ {o} : orders'[n] = orders[n]
  BY <1>1 DEF CreateOrder, OrdersTypeOK
<1>2. ASSUME NEW r \in Requests, WriteStatus(r), NEW o, o = req[r].order
      PROVE  /\ orders'[o].status # Null
             /\ orders'[o].isInstantBooking = orders[o].isInstantBooking
             /\ \A n \in OrderIds \ {o} : orders'[n] = orders[n]
  <2>1. /\ req[r] \in Updating
        /\ orders' = [orders EXCEPT ![o] = Updated(orders[o], req[r])]
        /\ orders'[o].status = TargetStatus(req[r])
        /\ orders'[o].isInstantBooking = orders[o].isInstantBooking
    BY <1>2, WriteStatusEffect
  <2> QED
    BY <2>1, UpdateTyped, NullAssumption DEF OrdersTypeOK
<1>3. ASSUME NEW r \in Requests, WriteCounterOffer(r), NEW o, o = req[r].order
      PROVE  /\ orders'[o].status = orders[o].status
             /\ orders'[o].isInstantBooking = orders[o].isInstantBooking
             /\ \A n \in OrderIds \ {o} : orders'[n] = orders[n]
  <2>1. /\ orders' = [orders EXCEPT ![o] =
                         [orders[o] EXCEPT !.counterOffer = req[r].amount]]
        /\ orders'[o] = [orders[o] EXCEPT !.counterOffer = req[r].amount]
        /\ orders[o] \in OrderRow
    BY <1>3, WriteCounterOfferEffect
  <2> QED
    BY <2>1 DEF OrdersTypeOK, OrderRow
<1>4. ASSUME NEW r \in Requests, WriteAcceptance(r), NEW o, o = req[r].order
      PROVE  /\ orders'[o].status = "CONFIRMED"
             /\ orders'[o].isInstantBooking = orders[o].isInstantBooking
             /\ \A n \in OrderIds \ {o} : orders'[n] = orders[n]
  <2>1. /\ orders' = [orders EXCEPT ![o] =
                         [orders[o] EXCEPT !.agreedPrice = req[r].amount,
                                           !.counterOffer = Null,
                                           !.status = "CONFIRMED"]]
        /\ orders'[o] = [orders[o] EXCEPT !.agreedPrice = req[r].amount,
                                          !.counterOffer = Null,
                                          !.status = "CONFIRMED"]
        /\ orders[o] \in OrderRow
    BY <1>4, WriteAcceptanceEffect
  <2> QED
    BY <2>1 DEF OrdersTypeOK, OrderRow
<1>5. \/ orders' = orders
      \/ \E r \in Requests : \/ WriteStatus(r) \/ WriteCounterOffer(r)
                             \/ WriteAcceptance(r)
      \/ \E r \in Requests, o \in OrderIds, instant \in BOOLEAN, quote \in MaybePrice :
             CreateOrder(r, o, instant, quote)
  BY DEF orderVars, OrdersNext, Arrive, Proceed, ReadForUpdateStatus,
         ReadForCounterOffer, ReadForAcceptance, Notify, EnqueueStatusChanged, Fail
<1>6. "CONFIRMED" # Null
  BY NullAssumption DEF Statuses
<1> QED
  BY <1>1, <1>2, <1>3, <1>4, <1>5, <1>6

\* A step on orders sends only messages of the order service.
LEMMA OrdersSend ==
  ASSUME OrdersTypeOK, [OrdersNext]_orderVars
  PROVE  sent' \in {sent, Null} \cup OrderMessage
<1>1. ASSUME NEW r \in Requests, Notify(r) \/ EnqueueStatusChanged(r)
      PROVE  sent' \in OrderMessage
  <2>1. req[r] \in Announcing /\ sent' = req[r].message
    BY <1>1, RequestTyped DEF Notify, EnqueueStatusChanged, Become
  <2> QED
    BY <2>1 DEF Announcing
<1>2. \/ sent' \in {sent, Null}
      \/ \E r \in Requests : Notify(r) \/ EnqueueStatusChanged(r)
  BY ZenonT(60) DEF orderVars, OrdersNext, Arrive, Proceed, CreateOrder, ReadForUpdateStatus,
         ReadForCounterOffer, ReadForAcceptance, WriteStatus, WriteCounterOffer,
         WriteAcceptance, Fail, Begin, Announce, Become
<1> QED
  BY <1>1, <1>2

LEMMA UntouchedKeepsOrders ==
  ASSUME OrdersInv, NEW m \in Message \cup {Null}, OrdersUntouched(m),
         m # Null => m.about \notin Statuses
  PROVE  OrdersInv'
<1>1. UNCHANGED <<orders, history, req, signers, offered>> /\ sent' = m
  BY DEF OrdersUntouched
<1>2. RowsInv' /\ Grows
  BY <1>1, RowsUntouched DEF OrdersInv, RowsInv
<1>3. OrdersTypeOK'
  BY <1>1 DEF OrdersInv, OrdersTypeOK
<1>4. AnnouncedIsCommitted'
  BY <1>1 DEF AnnouncedIsCommitted
<1>5. RequestsWellFounded'
  BY <1>1, <1>2, SlotKept DEF OrdersInv, RequestsWellFounded
<1> QED
  BY <1>2, <1>3, <1>4, <1>5 DEF OrdersInv, RowsInv
=============================================================================
