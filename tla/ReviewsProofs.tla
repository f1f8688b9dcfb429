--------------------------- MODULE ReviewsProofs ---------------------------
(***************************************************************************)
(* The order service keeps its invariants although createReview writes to  *)
(* the Order table, too, and a review is about a delivered order.          *)
(*                                                                         *)
(* Steps on orders keep what is known of the reviews because history only  *)
(* grows.  Steps on reviews leave orders alone, but for MarkReviewed; that *)
(* one keeps RowsInv because the request saw the order DELIVERED.          *)
(***************************************************************************)
EXTENDS Reviews, OrdersProofs

-----------------------------------------------------------------------------
(***************************************************************************)
(* What a step on orders does to the state the reviews depend on.          *)
(***************************************************************************)
LEMMA OrderStepKeepsReviews ==
  ASSUME ReviewsInv, [OrdersNext]_orderVars, UNCHANGED reviewVars
  PROVE  ReviewsInv'
<1>1. OrdersInv' /\ OrdersTypeOK /\ OrdersTypeOK'
  BY InvStep, StepTyped DEF ReviewsInv, OrdersInv
<1>2. \A o \in OrderIds : history[o] \subseteq history'[o]
  BY <1>1, HistoryGrows
<1>3. UNCHANGED <<reviews, rated, revReq, died>>
  BY DEF reviewVars
<1>4. /\ reviews \subseteq OrderIds
      /\ \A v \in ReviewRequests : revReq[v] # Idle => revReq[v].order \in OrderIds
  BY DEF ReviewsInv, ReviewsTypeOK, ReviewRequest
<1>5. ReviewsTypeOK'
  BY <1>1, <1>3 DEF ReviewsInv, ReviewsTypeOK
<1>6. ReviewedAfterDelivery'
  BY <1>1, <1>2, <1>3, <1>4 DEF ReviewsInv, ReviewedAfterDelivery, OrdersInv
<1>7. ReviewNoticeTrue'
  <2>1. sent' \in {sent, Null} \cup OrderMessage
    BY <1>1, OrdersSend
  <2>2. \A m \in OrderMessage : m.about # "review"
    BY DEF OrderMessage, Statuses, OrderNotices
  <2> QED
    BY <1>2, <1>3, <1>4, <2>1, <2>2 DEF ReviewsInv, ReviewNoticeTrue
<1>8. \A v \in ReviewRequests : ReviewWellFounded(v)'
  BY <1>2, <1>3, <1>4 DEF ReviewsInv, ReviewWellFounded
<1> QED
  BY <1>1, <1>5, <1>6, <1>7, <1>8 DEF ReviewsInv

-----------------------------------------------------------------------------
(***************************************************************************)
(* What a step on reviews does to orders.                                  *)
(***************************************************************************)
\* The unguarded write of REVIEWED, on an order that was DELIVERED at some
\* time, whatever it is now.
LEMMA MarkReviewedKeepsOrders ==
  ASSUME OrdersInv, NEW o \in OrderIds, "DELIVERED" \in history[o],
         orders' = [orders EXCEPT ![o].status = "REVIEWED"],
         AddHistory(o, "REVIEWED"), sent' = Null,
         UNCHANGED <<req, signers, offered>>
  PROVE  OrdersInv' /\ "REVIEWED" \in history'[o]
<1>1. orders[o] \in OrderRow /\ OrdersTypeOK
  BY DEF OrdersInv, OrdersTypeOK
<1>2. /\ \A p \in OrderIds \ {o} : orders'[p] = orders[p] /\ history'[p] = history[p]
      /\ history'[o] = history[o] \cup {"REVIEWED"}
      /\ orders'[o] = [orders[o] EXCEPT !.status = "REVIEWED"]
  BY <1>1 DEF AddHistory, OrdersTypeOK
<1>3. /\ orders'[o].status = "REVIEWED"
      /\ orders'[o].isInstantBooking = orders[o].isInstantBooking
      /\ orders'[o].initialQuote = orders[o].initialQuote
      /\ orders'[o].counterOffer = orders[o].counterOffer
      /\ orders'[o].agreedPrice = orders[o].agreedPrice
  BY <1>1, <1>2 DEF OrderRow
<1>4. /\ orders'[o].isSignedByBuyer = orders[o].isSignedByBuyer
      /\ orders'[o].isSignedByProvider = orders[o].isSignedByProvider
      /\ orders'[o].contractSignedAt = orders[o].contractSignedAt
  BY <1>1, <1>2 DEF OrderRow
<1>5. OrdersTypeOK'
  <2>1. [orders[o] EXCEPT !.status = "REVIEWED"] \in OrderRow
    BY <1>1 DEF OrderRow, MaybeStatus, Statuses
  <2>2. orders' \in [OrderIds -> OrderRow]
    BY <1>1, <2>1, RowTyped
  <2>3. history' \in [OrderIds -> SUBSET Statuses]
    BY <1>1, HistoryTyped DEF Statuses
  <2> QED
    BY <1>1, <2>2, <2>3 DEF OrdersTypeOK
<1>6. Grows
  BY <1>2, <1>4 DEF Grows
<1>7. WorkIsContracted' /\ SignaturesGenuine'
  BY <1>2, <1>3, <1>4
     DEF OrdersInv, WorkIsContracted, Working, SignaturesGenuine
<1>8. NoStageSkipped'
  <2>1. /\ Before("DELIVERED") = {"CONFIRMED", "CONTRACT_SIGNED", "IN_PROGRESS"}
        /\ Before("REVIEWED") = {"CONFIRMED", "CONTRACT_SIGNED", "IN_PROGRESS",
                                 "DELIVERED"}
    BY DEF Before
  <2>2. Before("REVIEWED") \subseteq history[o]
    BY <2>1 DEF OrdersInv, NoStageSkipped
  <2> QED
    BY <1>2, <1>3, <2>2 DEF OrdersInv, NoStageSkipped
<1>9. InstantBookingUnpriced' /\ AgreedPriceWasOffered'
  BY <1>2, <1>3 DEF OrdersInv, InstantBookingUnpriced, AgreedPriceWasOffered
<1>10. RowsConsistent'
  <2>1. "REVIEWED" # Null
    BY NullAssumption DEF Statuses
  <2> QED
    BY <1>2, <1>3, <2>1 DEF OrdersInv, RowsConsistent
<1>11. AnnouncedIsCommitted'
  BY DEF AnnouncedIsCommitted
<1>12. RequestsWellFounded'
  BY <1>1, <1>6, SlotKept DEF OrdersInv, RequestsWellFounded
<1> QED
  BY <1>2, <1>5, <1>7, <1>8, <1>9, <1>10, <1>11, <1>12 DEF OrdersInv

-----------------------------------------------------------------------------
(***************************************************************************)
(* What a step on reviews does to reviews.                                 *)
(***************************************************************************)
\* Slot v goes on as q: the rest follows if q, the rows written and the
\* message sent are in order.
LEMMA ReviewStep ==
  ASSUME ReviewsInv, OrdersInv',
         NEW v \in ReviewRequests, NEW q \in ReviewRequest \cup {Idle},
         RevBecome(v, q),
         \A o \in OrderIds : history[o] \subseteq history'[o],
         reviews \subseteq reviews', rated' \subseteq OrderIds,
         died' \subseteq OrderIds,
         \A o \in reviews' : o \in OrderIds /\ "DELIVERED" \in history'[o],
         ReviewWellFounded(v)', ReviewNoticeTrue'
  PROVE  ReviewsInv'
<1>1. revReq \in [ReviewRequests -> ReviewRequest \cup {Idle}]
  BY DEF ReviewsInv, ReviewsTypeOK
<1>2. \A w \in ReviewRequests \ {v} : revReq'[w] = revReq[w]
  BY <1>1 DEF RevBecome
<1>3. ReviewsTypeOK'
  BY <1>1 DEF RevBecome, ReviewsTypeOK, OrdersInv
<1>4. ReviewedAfterDelivery'
  BY DEF ReviewedAfterDelivery, OrdersInv
<1>5. ASSUME NEW w \in ReviewRequests, w # v
      PROVE  ReviewWellFounded(w)'
  <2>1. revReq[w] # Idle => revReq[w].order \in OrderIds
    BY <1>1 DEF ReviewRequest
  <2>2. ReviewWellFounded(w)
    BY DEF ReviewsInv
  <2> QED
    BY <1>2, <1>5, <2>1, <2>2 DEF ReviewWellFounded
<1> QED
  BY <1>3, <1>4, <1>5 DEF ReviewsInv

\* A slot at pc is a request about an order, with what that pc implies.
LEMMA AtPc ==
  ASSUME ReviewsInv, NEW v \in ReviewRequests, revReq[v] # Idle
  PROVE  /\ revReq[v] \in ReviewRequest
         /\ revReq[v].order \in OrderIds
         /\ "DELIVERED" \in history[revReq[v].order]
         /\ revReq[v].pc # "insert" => revReq[v].order \in reviews
         /\ revReq[v].pc \notin {"insert", "markReviewed"} =>
               "REVIEWED" \in history[revReq[v].order]
  BY DEF ReviewsInv, ReviewsTypeOK, ReviewRequest, ReviewWellFounded

LEMMA RevInvInit == ReviewsInit => ReviewsInv
<1> SUFFICES ASSUME ReviewsInit PROVE ReviewsInv
  OBVIOUS
<1>1. OrdersInv /\ OrdersTypeOK /\ NoStageSkipped
  BY InvInit DEF ReviewsInit, OrdersInv
<1>2. ReviewsTypeOK /\ ReviewedAfterDelivery
  BY <1>1 DEF ReviewsInit, ReviewsTypeOK, ReviewedAfterDelivery
<1>3. ReviewNoticeTrue
  BY DEF ReviewsInit, OrdersInit, ReviewNoticeTrue
<1>4. \A v \in ReviewRequests : ReviewWellFounded(v)
  BY DEF ReviewsInit, ReviewWellFounded
<1> QED
  BY <1>1, <1>2, <1>3, <1>4 DEF ReviewsInv

LEMMA RevInvStep == ReviewsInv /\ [ReviewsNext]_orderReviewVars => ReviewsInv'
<1> SUFFICES ASSUME ReviewsInv, [ReviewsNext]_orderReviewVars PROVE ReviewsInv'
  OBVIOUS
<1>1. /\ OrdersInv
      /\ OrdersTypeOK
      /\ reviews \subseteq OrderIds
      /\ rated \subseteq OrderIds
      /\ died \subseteq OrderIds
      /\ revReq \in [ReviewRequests -> ReviewRequest \cup {Idle}]
      /\ \A o \in reviews : "DELIVERED" \in history[o]
  BY DEF ReviewsInv, ReviewsTypeOK, ReviewedAfterDelivery
<1>2. CASE [OrdersNext]_orderVars /\ UNCHANGED reviewVars
  BY <1>2, OrderStepKeepsReviews
\* A step that leaves orders alone and sends nothing.
<1>3. ASSUME OrdersUntouched(Null)
      PROVE  OrdersInv' /\ history' = history /\ ReviewNoticeTrue'
  BY <1>1, <1>3, UntouchedKeepsOrders DEF OrdersUntouched, ReviewNoticeTrue
<1>4. ASSUME NEW v \in ReviewRequests, NEW o \in OrderIds, ReadForReview(v, o)
      PROVE  ReviewsInv'
  <2> DEFINE q == [pc |-> "insert", order |-> o]
  <2>1. q \in ReviewRequest
    BY DEF ReviewRequest
  <2>2. "DELIVERED" \in history[o]
    <3>1. orders[o].status \in {"DELIVERED", "REVIEWED"} /\ orders[o].status # Null
      BY <1>4, NullAssumption DEF ReadForReview, Reviewable, Statuses
    <3> QED
      BY <1>1, <3>1 DEF OrdersInv, NoStageSkipped, Before
  <2>3. RevBecome(v, q) /\ OrdersUntouched(Null) /\ UNCHANGED <<reviews, rated, died>>
    BY <1>4 DEF ReadForReview
  <2>4. ReviewWellFounded(v)'
    BY <1>1, <1>3, <2>2, <2>3 DEF RevBecome, ReviewWellFounded
  <2> QED
    BY <1>1, <1>3, <2>1, <2>3, <2>4, ReviewStep
<1>5. ASSUME NEW v \in ReviewRequests, InsertReview(v)
      PROVE  ReviewsInv'
  <2> DEFINE o == revReq[v].order
             q == [pc |-> "markReviewed", order |-> o]
  <2>1. revReq[v] # Idle /\ o \in OrderIds /\ "DELIVERED" \in history[o]
    BY <1>5, AtPc DEF InsertReview, RevGoTo, Idle
  <2>2. /\ RevBecome(v, q)
        /\ reviews' = reviews \cup {o}
        /\ OrdersUntouched(Null)
        /\ UNCHANGED <<rated, died>>
    BY <1>5 DEF InsertReview, RevGoTo, AfterInsert
  <2>3. q \in ReviewRequest
    BY <2>1 DEF ReviewRequest
  <2>4. ReviewWellFounded(v)'
    BY <1>1, <1>3, <2>1, <2>2 DEF RevBecome, ReviewWellFounded
  <2> QED
    BY <1>1, <1>3, <2>1, <2>2, <2>3, <2>4, ReviewStep
<1>6. ASSUME NEW v \in ReviewRequests, DuplicateReview(v) \/ RevFail(v)
      PROVE  ReviewsInv'
  <2>1. RevBecome(v, Idle) /\ OrdersUntouched(Null) /\ UNCHANGED <<reviews, rated>>
    BY <1>6 DEF DuplicateReview, RevFail
  <2>3. died' \subseteq OrderIds
    BY <1>1, <1>6, AtPc DEF DuplicateReview, RevFail
  <2>2. ReviewWellFounded(v)'
    BY <1>1, <2>1 DEF RevBecome, ReviewWellFounded
  <2> QED
    BY <1>1, <1>3, <2>1, <2>2, <2>3, ReviewStep
<1>7. ASSUME NEW v \in ReviewRequests, MarkReviewed(v)
      PROVE  ReviewsInv'
  <2> DEFINE o == revReq[v].order
             q == [pc |-> "aggregate", order |-> o]
  <2>1. /\ o \in OrderIds
        /\ "DELIVERED" \in history[o]
        /\ o \in reviews
    BY <1>7, AtPc DEF MarkReviewed, RevGoTo, Idle
  <2>2. RevBecome(v, q) /\ sent' = Null /\ UNCHANGED <<reviews, rated, died>>
    BY <1>7 DEF MarkReviewed, RevGoTo
  <2>3. OrdersInv' /\ "REVIEWED" \in history'[o]
    <3> HIDE DEF o
    <3> QED
      BY <1>1, <1>7, <2>1, MarkReviewedKeepsOrders DEF MarkReviewed, o
  <2>4. \A p \in OrderIds : history[p] \subseteq history'[p]
    BY <1>1, <1>7 DEF MarkReviewed, AddHistory, OrdersTypeOK
  <2>5. q \in ReviewRequest
    BY <2>1 DEF ReviewRequest
  <2>6. ReviewWellFounded(v)'
    BY <1>1, <2>1, <2>2, <2>3, <2>4 DEF RevBecome, ReviewWellFounded
  <2>7. ReviewNoticeTrue'
    BY <2>2 DEF ReviewNoticeTrue
  <2> QED
    BY <1>1, <2>2, <2>3, <2>4, <2>5, <2>6, <2>7, ReviewStep
<1>8. ASSUME NEW v \in ReviewRequests, AggregateRatings(v)
      PROVE  ReviewsInv'
  <2> DEFINE o == revReq[v].order
             q == [pc |-> "writeRating", order |-> o, counted |-> Published(o)]
  <2>1. /\ o \in OrderIds
        /\ "DELIVERED" \in history[o]
        /\ "REVIEWED" \in history[o]
        /\ o \in reviews
    BY <1>8, AtPc DEF AggregateRatings, Idle
  <2>2. RevBecome(v, q) /\ OrdersUntouched(Null) /\ UNCHANGED <<reviews, rated, died>>
    BY <1>8 DEF AggregateRatings
  <2>3. q \in ReviewRequest
    BY <1>1, <2>1 DEF ReviewRequest, Published
  <2>4. ReviewWellFounded(v)'
    BY <1>1, <1>3, <2>1, <2>2 DEF RevBecome, ReviewWellFounded
  <2> QED
    BY <1>1, <1>3, <2>2, <2>3, <2>4, ReviewStep
<1>9. ASSUME NEW v \in ReviewRequests, WriteRating(v)
      PROVE  ReviewsInv'
  <2> DEFINE o == revReq[v].order
             q == [pc |-> "notify", order |-> o]
  <2>1. /\ revReq[v] \in ReviewRequest
        /\ o \in OrderIds
        /\ "DELIVERED" \in history[o]
        /\ "REVIEWED" \in history[o]
        /\ o \in reviews
    BY <1>9, AtPc DEF WriteRating, RevGoTo, Idle
  <2>2. /\ RevBecome(v, q)
        /\ OrdersUntouched(Null)
        /\ rated' = revReq[v].counted
        /\ UNCHANGED <<reviews, died>>
    BY <1>9 DEF WriteRating, RevGoTo
  <2>3. rated' \subseteq OrderIds
    BY <1>9, <2>1, <2>2 DEF WriteRating, RevGoTo, ReviewRequest
  <2>4. q \in ReviewRequest
    BY <2>1 DEF ReviewRequest
  <2>5. ReviewWellFounded(v)'
    BY <1>1, <1>3, <2>1, <2>2 DEF RevBecome, ReviewWellFounded
  <2> QED
    BY <1>1, <1>3, <2>2, <2>3, <2>4, <2>5, ReviewStep
<1>10. ASSUME NEW v \in ReviewRequests, NotifyReview(v)
       PROVE  ReviewsInv'
  <2> DEFINE o == revReq[v].order
             m == [order |-> o, to |-> Reviewed, about |-> "review"]
  <2>1. /\ o \in OrderIds
        /\ "REVIEWED" \in history[o]
        /\ o \in reviews
    BY <1>10, AtPc DEF NotifyReview, Idle
  <2>2. RevBecome(v, Idle) /\ OrdersUntouched(m) /\ UNCHANGED <<reviews, rated, died>>
    BY <1>10 DEF NotifyReview
  <2>3. m \in Message /\ m.about \notin Statuses /\ m.order = o
    BY <2>1 DEF Message, Reviewed, Parties, Statuses
  <2> HIDE DEF m
  <2>4. OrdersInv' /\ history' = history /\ sent' = m
    BY <1>1, <2>2, <2>3, UntouchedKeepsOrders DEF OrdersUntouched
  <2>5. ReviewNoticeTrue'
    BY <2>1, <2>2, <2>3, <2>4 DEF ReviewNoticeTrue
  <2>6. ReviewWellFounded(v)'
    BY <1>1, <2>2 DEF RevBecome, ReviewWellFounded
  <2> QED
    BY <1>1, <2>2, <2>4, <2>5, <2>6, ReviewStep
<1>11. CASE UNCHANGED orderReviewVars
  BY <1>2, <1>11 DEF orderReviewVars
<1> QED
  BY <1>2, <1>4, <1>5, <1>6, <1>7, <1>8, <1>9, <1>10, <1>11
     DEF ReviewsNext, RevProceed

\* ReviewsInv is inductive.
THEOREM ReviewsInvariant == ReviewsSpec => []ReviewsInv
  BY RevInvInit, RevInvStep, PTL DEF ReviewsSpec

\* Every reachable state of reviews and orders together is well typed.
THEOREM ReviewsTypeCorrect == ReviewsSpec => []ReviewsTypeOK
<1>1. ReviewsInv => ReviewsTypeOK
  BY DEF ReviewsInv
<1> QED
  BY <1>1, ReviewsInvariant, PTL

\* All that OrdersInv says of orders holds with createReview as a second
\* writer of their status.
THEOREM OrdersSurviveReviews == ReviewsSpec => []OrdersInv
<1>1. ReviewsInv => OrdersInv
  BY DEF ReviewsInv
<1> QED
  BY <1>1, ReviewsInvariant, PTL

\* Every review is about an order that was delivered.
THEOREM ReviewsAfterDelivery == ReviewsSpec => []ReviewedAfterDelivery
<1>1. ReviewsInv => ReviewedAfterDelivery
  BY DEF ReviewsInv
<1> QED
  BY <1>1, ReviewsInvariant, PTL

\* The provider is told of a review only when it is stored and the order has
\* been REVIEWED.
THEOREM ReviewNoticesTrue == ReviewsSpec => []ReviewNoticeTrue
<1>1. ReviewsInv => ReviewNoticeTrue
  BY DEF ReviewsInv
<1> QED
  BY <1>1, ReviewsInvariant, PTL
=============================================================================
