--------------------------- MODULE MCSubscriptions ---------------------------
(***************************************************************************)
(* Instances of Subscriptions for TLC; the values are in the cfgs.         *)
(***************************************************************************)
EXTENDS Subscriptions
=============================================================================
