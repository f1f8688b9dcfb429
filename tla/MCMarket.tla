------------------------------ MODULE MCMarket ------------------------------
(***************************************************************************)
(* Payments and Reviews for TLC.  Both are composed with the orders, whose *)
(* rows they read and, the reviews, write.  They meet in the status of an  *)
(* order only, and no property relates a payment to a review: serving says *)
(* which of the two accompanies the orders in a behaviour.                 *)
(***************************************************************************)
EXTENDS Payments, Reviews

VARIABLE serving

marketVars == <<orderVars, payVars, reviewVars, serving>>

MarketInit ==
    /\ serving \in {"payments", "reviews"}
    /\ PaymentsInit
    /\ ReviewsInit

\* The step of a service while it accompanies the orders.
Paying(step) == serving = "payments" /\ step /\ UNCHANGED <<reviewVars, serving>>

Reviewing(step) == serving = "reviews" /\ step /\ UNCHANGED <<payVars, serving>>

MarketNext == Paying(PaymentsNext) \/ Reviewing(ReviewsNext)

MarketSpec == MarketInit /\ [][MarketNext]_marketVars

\* The handlers run on an event loop that gives every request in flight its
\* answer; nobody has to pay, to release or to send a review.
FairMarketSpec ==
    /\ MarketSpec
    /\ \A p \in PayRequests : WF_marketVars(Paying(PayProceed(p)))
    /\ \A v \in ReviewRequests : WF_marketVars(Reviewing(RevProceed(v)))
=============================================================================
