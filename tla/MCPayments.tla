----------------------------- MODULE MCPayments -----------------------------
(***************************************************************************)
(* Instances of Payments for TLC.  Slots of one kind are interchangeable,  *)
(* and so are the ids Stripe gives out.                                    *)
(***************************************************************************)
EXTENDS Payments, TLC

Symmetry == Permutations(Requests) \cup Permutations(PayRequests)
                \cup Permutations(IntentIds)
=============================================================================
