------------------------------ MODULE Reviews ------------------------------
(***************************************************************************)
(* createReview of src/reviews/reviews.service.ts, composed with the life  *)
(* of the orders that are reviewed (Orders).                               *)
(*                                                                         *)
(* Four writes follow one another without a transaction: the review row,   *)
(* the status of the order, the denormalised rating of the provider and    *)
(* the notification.  The status is a second writer of the Order table.    *)
(*                                                                         *)
(* All orders here are with one provider.  averageRating and totalReviews  *)
(* are functions of the reviews they were computed from; the model keeps   *)
(* that set (of reviewed orders) instead.                                  *)
(***************************************************************************)
EXTENDS Orders

CONSTANT ReviewRequests     \* slots: createReview requests in flight at once

VARIABLES
    reviews,    \* the orders that have a Review row (orderId is unique)
    rated,      \* the reviews the provider's rating was computed from
    revReq,     \* the request in each slot
    died        \* observed: the orders whose stored review was left half done

reviewVars == <<reviews, rated, revReq, died>>
orderReviewVars == <<orderVars, reviewVars>>

ReviewRequest ==
    [pc: {"insert", "markReviewed", "aggregate", "notify"}, order: OrderIds]
        \cup [pc: {"writeRating"}, order: OrderIds, counted: SUBSET OrderIds]

ReviewsTypeOK ==
    /\ OrdersTypeOK
    /\ reviews \subseteq OrderIds
    /\ rated \subseteq OrderIds
    /\ died \subseteq OrderIds
    /\ revReq \in [ReviewRequests -> ReviewRequest \cup {Idle}]

ReviewsInit ==
    /\ OrdersInit
    /\ reviews = {}
    /\ rated = {}
    /\ died = {}
    /\ revReq = [v \in ReviewRequests |-> Idle]

-----------------------------------------------------------------------------
RevBecome(v, q) == revReq' = [revReq EXCEPT ![v] = q]

\* Slot v, which is at pc, goes on to the step called next.
RevGoTo(v, pc, next) ==
    /\ revReq[v].pc = pc
    /\ RevBecome(v, [pc |-> next, order |-> revReq[v].order])

\* Mutant: an order on its way to delivery will do.
Reviewable_Early(o) ==
    orders[o].status \in {"IN_PROGRESS", "DELIVERED", "REVIEWED"} /\ o \notin reviews

Reviewable(o) == orders[o].status \in {"DELIVERED", "REVIEWED"} /\ o \notin reviews

ReadForReview(v, o) ==
    /\ Reviewable(o)
    /\ revReq[v] = Idle
    /\ RevBecome(v, [pc |-> "insert", order |-> o])
    /\ OrdersUntouched(Null)
    /\ UNCHANGED <<reviews, rated, died>>

\* Mutant: the status comes last.
AfterInsert_Rating == "aggregate"

AfterInsert == "markReviewed"

InsertReview(v) ==
    LET o == revReq[v].order
    IN  /\ RevGoTo(v, "insert", AfterInsert)
        /\ o \notin reviews
        /\ reviews' = reviews \cup {o}
        /\ OrdersUntouched(Null)
        /\ UNCHANGED <<rated, died>>

\* orderId is unique: the insert fails and the handler throws.
DuplicateReview(v) ==
    /\ revReq[v].pc = "insert"
    /\ revReq[v].order \in reviews
    /\ RevBecome(v, Idle)
    /\ OrdersUntouched(Null)
    /\ UNCHANGED <<reviews, rated, died>>

\* The status is written whatever it is by now.
MarkReviewed(v) ==
    LET o == revReq[v].order
    IN  /\ RevGoTo(v, "markReviewed", "aggregate")
        /\ orders' = [orders EXCEPT ![o].status = "REVIEWED"]
        /\ AddHistory(o, "REVIEWED")
        /\ sent' = Null
        /\ UNCHANGED <<req, signers, offered, reviews, rated, died>>

\* recalculateProviderRating: aggregate, then write.
\* Mutant: the review just written is not among the published ones.
Published_Others(o) == reviews \ {o}

Published(o) == reviews

AggregateRatings(v) ==
    LET q == revReq[v]
    IN  /\ q.pc = "aggregate"
        /\ RevBecome(v, [pc |-> "writeRating", order |-> q.order,
                         counted |-> Published(q.order)])
        /\ OrdersUntouched(Null)
        /\ UNCHANGED <<reviews, rated, died>>

WriteRating(v) ==
    /\ RevGoTo(v, "writeRating", "notify")
    /\ rated' = revReq[v].counted
    /\ OrdersUntouched(Null)
    /\ UNCHANGED <<reviews, died>>

\* Mutant: the moderators are told.
Reviewed_Moderators == "ADMIN"

\* Who hears of a review.
Reviewed == "PROVIDER"

NotifyReview(v) ==
    /\ revReq[v].pc = "notify"
    /\ RevBecome(v, Idle)
    /\ OrdersUntouched([order |-> revReq[v].order, to |-> Reviewed,
                        about |-> "review"])
    /\ UNCHANGED <<reviews, rated, died>>

\* Nothing takes up again what a request that dies has left undone.
RevFail(v) ==
    /\ CanFail
    /\ revReq[v] # Idle
    /\ RevBecome(v, Idle)
    /\ died' = IF revReq[v].pc = "insert" THEN died
               ELSE died \cup {revReq[v].order}
    /\ OrdersUntouched(Null)
    /\ UNCHANGED <<reviews, rated>>

RevProceed(v) ==
    \/ InsertReview(v)
    \/ DuplicateReview(v)
    \/ MarkReviewed(v)
    \/ AggregateRatings(v)
    \/ WriteRating(v)
    \/ NotifyReview(v)

ReviewsNext ==
    \/ OrdersNext /\ UNCHANGED reviewVars
    \/ \E v \in ReviewRequests :
          \/ \E o \in OrderIds : ReadForReview(v, o)
          \/ RevProceed(v)
          \/ RevFail(v)

ReviewsSpec == ReviewsInit /\ [][ReviewsNext]_orderReviewVars

-----------------------------------------------------------------------------
(***************************************************************************)
(* What holds whatever the interleaving.                                   *)
(***************************************************************************)
\* Only a delivered order gets a review, and the second writer of the status
\* leaves no stage of an order out: the snapshot that allowed the review may
\* be old, but the delivery it saw did happen.
ReviewedAfterDelivery ==
    /\ \A o \in reviews : "DELIVERED" \in history[o]
    /\ NoStageSkipped

\* The provider hears of a review only when it is stored and the order has
\* been REVIEWED, even when two requests for one order are in flight and one
\* of them is refused by the unique orderId.
ReviewNoticeTrue ==
    sent # Null /\ sent.about = "review" =>
        /\ sent.order \in reviews
        /\ "REVIEWED" \in history[sent.order]

(***************************************************************************)
(* The strengthening that makes these inductive: what has happened to the  *)
(* order of a request by the time the request is at its pc.                *)
(***************************************************************************)
ReviewWellFounded(v) ==
    LET q == revReq[v]
    IN  q # Idle =>
            /\ "DELIVERED" \in history[q.order]
            /\ q.pc # "insert" => q.order \in reviews
            /\ q.pc \notin {"insert", "markReviewed"} =>
                   "REVIEWED" \in history[q.order]

ReviewsInv ==
    /\ OrdersInv
    /\ ReviewsTypeOK
    /\ ReviewedAfterDelivery
    /\ ReviewNoticeTrue
    /\ \A v \in ReviewRequests : ReviewWellFounded(v)

(***************************************************************************)
(* The rating, which nothing but createReview keeps up to date.            *)
(***************************************************************************)
\* A stored review gets into the provider's rating unless its request dies
\* on the way: the row and the rating are written by separate statements of
\* createReview, and a second request for the order is refused in between.
ReviewIsCounted ==
    \A o \in OrderIds : o \in reviews ~> (o \in rated \/ o \in died)

\* "Recalculate provider's aggregate rating (denormalized, fast search sort)":
\* once no review is being created, the rating is that of all reviews.  The
\* recalculation that aggregated first may write last.
RatingIsCurrent ==
    (\A v \in ReviewRequests : revReq[v] = Idle) => rated = reviews
=============================================================================
