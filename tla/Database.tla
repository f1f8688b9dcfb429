------------------------------ MODULE Database ------------------------------
(***************************************************************************)
(* What the modules of the services share: the rows they keep have SQL     *)
(* NULL in them, and a request of theirs may die between two awaits, when  *)
(* the store or the queue throws or the process stops.                     *)
(***************************************************************************)
CONSTANTS
    CanFail,    \* TRUE when a request may die between two awaits
    Null        \* SQL NULL

ASSUME CanFailAssumption == CanFail \in BOOLEAN
=============================================================================
