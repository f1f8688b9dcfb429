----------------------------- MODULE MCReviews -----------------------------
(***************************************************************************)
(* Instances of Reviews for TLC.                                           *)
(***************************************************************************)
EXTENDS Reviews

\* For the instance with two orders: an admin alone takes the orders along,
\* and nobody cancels.
OnlyAdminSigns ==
    \A o \in OrderIds :
        signers[o] \subseteq {"ADMIN"} /\ "CANCELLED" \notin history[o]
=============================================================================
