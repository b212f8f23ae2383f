------------------------------ MODULE Submission ------------------------------
(***************************************************************************)
(* What submitting a transaction promises its caller: the transaction is   *)
(* executed at most once, Ok comes after it has been, and nothing is       *)
(* executed for a caller that has not asked.  An Err promises nothing: the *)
(* transaction may have been executed, or may be yet.                      *)
(***************************************************************************)
CONSTANT Call

VARIABLES
    asked,      \* calls that have begun
    outcome,    \* outcome[c]: what execution did with the transaction
    answer      \* answer[c]: what the call returned

Init ==
    /\ asked = {}
    /\ outcome = [c \in Call |-> "none"]
    /\ answer = [c \in Call |-> "none"]

Ask(c) ==
    /\ c \notin asked /\ asked' = asked \cup {c}
    /\ UNCHANGED <<outcome, answer>>

(* Once executed, for better or worse, a transaction is not again.         *)
Execute(c) ==
    /\ c \in asked /\ outcome[c] = "none"
    /\ \E o \in {"succeeded", "failed"} : outcome' = [outcome EXCEPT ![c] = o]
    /\ UNCHANGED <<asked, answer>>

Answer(c) ==
    /\ c \in asked /\ answer[c] = "none"
    /\ \E a \in {"Ok", "Err"} :
          /\ a = "Ok" => outcome[c] = "succeeded"
          /\ answer' = [answer EXCEPT ![c] = a]
    /\ UNCHANGED <<asked, outcome>>

Next == \E c \in Call : Ask(c) \/ Execute(c) \/ Answer(c)

Spec == Init /\ [][Next]_<<asked, outcome, answer>>
===============================================================================
