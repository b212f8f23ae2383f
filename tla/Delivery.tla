------------------------------- MODULE Delivery -------------------------------
(***************************************************************************)
(* What handing a list of messages to a chain promises: the messages reach *)
(* it in order and each at most once, Ok is returned when all of them      *)
(* have, and an Err leaves a beginning of the list delivered.              *)
(***************************************************************************)
EXTENDS Naturals

VARIABLES
    total,       \* messages in the list
    delivered,   \* how many of them, from the first on, were delivered
    result       \* "none" until the call returns

vars == <<total, delivered, result>>

Init == total \in Nat /\ delivered = 0 /\ result = "none"

Deliver ==
    /\ result = "none"
    /\ delivered' \in delivered..total
    /\ result' = "ok" => delivered' = total
    /\ result' \in {"none", "ok", "err"}
    /\ UNCHANGED total

Spec == Init /\ [][Deliver]_vars
===============================================================================
