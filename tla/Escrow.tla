------------------------------- MODULE Escrow -------------------------------
(***************************************************************************)
(* What the payments promise, without requests, intents and webhooks: the  *)
(* money of an order, what the ledger says of it, and the delivery that    *)
(* has to come first.  Payments implements it.                             *)
(*                                                                         *)
(* Money and ledger change one after the other, never together, so a crash *)
(* may leave the ledger behind; it never gets ahead of the money.  Money   *)
(* never comes back to a place it has left.  The ledger does: the last     *)
(* part of EscrowNext says in which ways, and that in none of them it      *)
(* claims a payout or a return that has not taken place.                   *)
(***************************************************************************)
CONSTANTS
    Orders,     \* the orders that may be paid for
    Null,       \* no payment
    Again       \* TRUE when the ledger may hear more than once of a hold

VARIABLES
    money,      \* where the money of an order is
    ledger,     \* the status of its payment
    delivered   \* the orders that have been delivered

escrowVars == <<money, ledger, delivered>>

\* Money that was held is let go; money that was paid out is paid back.
Returned == {"letGo", "paidBack"}

\* Paid out, whether or not it was paid back later.
PaidOut == {"provider", "paidBack"}

EscrowInit ==
    /\ money = [o \in Orders |-> "buyer"]
    /\ ledger = [o \in Orders |-> Null]
    /\ delivered = {}

\* Money moves while the ledger is in one of the statuses for it.
Moves(o, from, to, statuses) ==
    /\ money[o] = from
    /\ ledger[o] \in statuses
    /\ money' = [money EXCEPT ![o] = to]
    /\ UNCHANGED <<ledger, delivered>>

\* The ledger follows.
Enters(o, from, to, places) ==
    /\ ledger[o] = from
    /\ money[o] \in places
    /\ ledger' = [ledger EXCEPT ![o] = to]
    /\ UNCHANGED <<money, delivered>>

Deliver(o) == delivered' = delivered \cup {o} /\ UNCHANGED <<money, ledger>>

EscrowNext ==
    \E o \in Orders :
        \/ Deliver(o)
        \/ Enters(o, Null, "PENDING", {"buyer"})
        \/ Moves(o, "buyer", "held", {"PENDING"})
        \/ Enters(o, "PENDING", "HELD", {"held"})
        \/ Moves(o, "held", "provider", {"HELD"}) /\ o \in delivered
        \/ Enters(o, "HELD", "RELEASED", PaidOut)
        \/ Moves(o, "held", "letGo", {"HELD"})
        \/ Moves(o, "provider", "paidBack", {"HELD", "RELEASED"})
        \/ Enters(o, "HELD", "REFUNDED", Returned)
        \* A hold that is heard of again is entered over what came of it.
        \/ Again /\ Enters(o, "RELEASED", "HELD", PaidOut)
        \/ Again /\ Enters(o, "REFUNDED", "HELD", Returned)
        \* A release and a refund overlap, and both are entered.
        \/ Enters(o, "RELEASED", "REFUNDED", {"paidBack"})
        \/ Enters(o, "REFUNDED", "RELEASED", {"paidBack"})

EscrowSpec == EscrowInit /\ [][EscrowNext]_escrowVars
=============================================================================
