------------------------------- MODULE TxSubmit -------------------------------
(***************************************************************************)
(* submit_call (cosmos/client.rs) for several calls that use one account:  *)
(* the relayer's two directions and the test tasks share a key.  A call    *)
(* reads the account's sequence number, signs, broadcasts, and searches    *)
(* for the transaction until it is found or 30 seconds have passed.        *)
(*                                                                         *)
(* The node is external: its mempool takes a transaction only with the     *)
(* number it expects next, and answers with the hash even if it does not.  *)
(* The calls' messages differ, and so do their hashes.                     *)
(***************************************************************************)
EXTENDS Integers

CONSTANTS
    Call,       \* the calls of submit_call
    Patience    \* searches in the 30 seconds of confirm_tx

ASSUME TxAssumption == Patience \in Nat

VARIABLES
    committed,  \* the account's sequence number in the latest block
    expected,   \* the number the mempool takes next
    pending,    \* transactions in the mempool
    taken,      \* transactions the mempool has ever taken
    outcome,    \* outcome[c]: "none" until executed, "succeeded" or "failed"
    pc,         \* pc[c]: the next step of the call
    sequence,   \* sequence[c]: the number c's transaction is signed with
    waited,     \* waited[c]: searches that found nothing
    answer      \* answer[c]: "none" until the call returns Ok or Err

nodeVars == <<committed, expected, pending, taken, outcome>>
vars == <<nodeVars, pc, sequence, waited, answer>>

TypeOK ==
    /\ committed \in Nat /\ expected \in Nat
    /\ pending \subseteq Call /\ taken \subseteq Call
    /\ outcome \in [Call -> {"none", "succeeded", "failed"}]
    /\ pc \in [Call -> {"idle", "query", "sign", "broadcast", "confirm", "returned"}]
    /\ sequence \in [Call -> Nat]
    /\ waited \in [Call -> 0..Patience]
    /\ answer \in [Call -> {"none", "Ok", "Err"}]

Init ==
    /\ committed = 0 /\ expected = 0 /\ pending = {} /\ taken = {}
    /\ outcome = [c \in Call |-> "none"]
    /\ pc = [c \in Call |-> "idle"]
    /\ sequence = [c \in Call |-> 0]
    /\ waited = [c \in Call |-> 0]
    /\ answer = [c \in Call |-> "none"]

-------------------------------------------------------------------------------
(* The node.                                                               *)

(* CheckTx.  Whatever it says, the hash is returned.                       *)
CheckTx(c) ==
    IF sequence[c] = expected
    THEN /\ pending' = pending \cup {c} /\ taken' = taken \cup {c}
         /\ expected' = expected + 1
    ELSE UNCHANGED <<pending, taken, expected>>

(* A block with the transaction that is due; it pays even if it fails.     *)
Execute(c) ==
    /\ c \in pending /\ sequence[c] = committed
    /\ committed' = committed + 1 /\ pending' = pending \ {c}
    /\ \E o \in {"succeeded", "failed"} : outcome' = [outcome EXCEPT ![c] = o]
    /\ UNCHANGED <<expected, taken, pc, sequence, waited, answer>>

(* The mempool is lost, at a restart of the node.                          *)
Forget ==
    /\ pending # {}
    /\ pending' = {} /\ expected' = committed
    /\ UNCHANGED <<committed, taken, outcome, pc, sequence, waited, answer>>

-------------------------------------------------------------------------------
(* A call.                                                                 *)
Goto(c, step) == pc' = [pc EXCEPT ![c] = step]

Return(c, a) == Goto(c, "returned") /\ answer' = [answer EXCEPT ![c] = a]

submit_call(c) ==
    /\ pc[c] = "idle" /\ Goto(c, "query")
    /\ UNCHANGED <<nodeVars, sequence, waited, answer>>

(* The number is the committed one, whatever is pending.                   *)
query_account_variant(c) ==   \* pending transactions are counted
    /\ pc[c] = "query" /\ Goto(c, "sign")
    /\ sequence' = [sequence EXCEPT ![c] = expected]
    /\ UNCHANGED <<nodeVars, waited, answer>>

query_account_next_variant(c) ==   \* the number after it is signed with
    /\ pc[c] = "query" /\ Goto(c, "sign")
    /\ sequence' = [sequence EXCEPT ![c] = committed + 1]
    /\ UNCHANGED <<nodeVars, waited, answer>>

query_account(c) ==
    /\ pc[c] = "query" /\ Goto(c, "sign")
    /\ sequence' = [sequence EXCEPT ![c] = committed]
    /\ UNCHANGED <<nodeVars, waited, answer>>

sign_tx(c) ==
    /\ pc[c] = "sign"
    /\ \/ Goto(c, "broadcast") /\ UNCHANGED answer
       \/ Return(c, "Err")
    /\ UNCHANGED <<nodeVars, sequence, waited>>

broadcast_tx(c) ==
    /\ pc[c] = "broadcast" /\ CheckTx(c) /\ Goto(c, "confirm")
    /\ UNCHANGED <<committed, outcome, sequence, waited, answer>>

(* An answer that is lost is an Err, and so is a request that is.          *)
BroadcastFails(c) ==
    /\ pc[c] = "broadcast" /\ Return(c, "Err")
    /\ CheckTx(c) \/ UNCHANGED <<pending, taken, expected>>
    /\ UNCHANGED <<committed, outcome, sequence, waited>>

(* confirm_tx: one search, and what follows it.                            *)
Found_variant(c) ==   \* the code of the result is not looked at
    /\ pc[c] = "confirm" /\ outcome[c] # "none" /\ Return(c, "Ok")
    /\ UNCHANGED <<nodeVars, sequence, waited>>

Found(c) ==
    /\ pc[c] = "confirm" /\ outcome[c] # "none"
    /\ Return(c, IF outcome[c] = "succeeded" THEN "Ok" ELSE "Err")
    /\ UNCHANGED <<nodeVars, sequence, waited>>

NotFound_endless_variant(c) ==   \* the time is not looked at
    /\ pc[c] = "confirm" /\ outcome[c] = "none"
    /\ UNCHANGED vars

NotFound_once_more_variant(c) ==   \* one search too many
    /\ pc[c] = "confirm" /\ outcome[c] = "none"
    /\ IF waited[c] <= Patience
       THEN waited' = [waited EXCEPT ![c] = waited[c] + 1] /\ UNCHANGED <<pc, answer>>
       ELSE Return(c, "Err") /\ UNCHANGED waited
    /\ UNCHANGED <<nodeVars, sequence>>

NotFound_retry_variant(c) ==   \* the call starts again
    /\ pc[c] = "confirm" /\ outcome[c] = "none" /\ Goto(c, "query")
    /\ UNCHANGED <<nodeVars, sequence, waited, answer>>

NotFound(c) ==
    /\ pc[c] = "confirm" /\ outcome[c] = "none"
    /\ IF waited[c] < Patience
       THEN waited' = [waited EXCEPT ![c] = waited[c] + 1] /\ UNCHANGED <<pc, answer>>
       ELSE Return(c, "Err") /\ UNCHANGED waited
    /\ UNCHANGED <<nodeVars, sequence>>

(* The account or the transaction cannot be asked for.                     *)
QueryFails(c) ==
    /\ pc[c] \in {"query", "confirm"} /\ Return(c, "Err")
    /\ UNCHANGED <<nodeVars, sequence, waited>>

Step(c) == query_account(c) \/ sign_tx(c) \/ broadcast_tx(c) \/ Found(c) \/ NotFound(c)

Next ==
    \/ Forget
    \/ \E c \in Call :
          submit_call(c) \/ Step(c) \/ BroadcastFails(c) \/ QueryFails(c) \/ Execute(c)

(* A call that is running gets on; its requests are answered or fail.      *)
Fairness == \A c \in Call : WF_vars(Step(c))

Spec == Init /\ [][Next]_vars /\ Fairness

-------------------------------------------------------------------------------
(* However many calls there are, the mempool holds one transaction of the  *)
(* account at most: the numbers are read from committed state, so nothing  *)
(* is ever queued behind another transaction (client.rs:265).              *)
AtMostOnePending == \A c, d \in pending : c = d

(* A transaction is refused, its hash returned and searched for, only if   *)
(* another call's has been taken with the same number: a call that has     *)
(* the account to itself is never refused (tx.rs:81-87).                   *)
RefusedOnlyByCollision ==
    \A c \in Call :
        pc[c] = "confirm" /\ c \notin taken =>
            \E d \in taken : d # c /\ sequence[d] = sequence[c]

(* Each number is used by one transaction that was executed, and by one    *)
(* only; the calls that signed with it too are not executed any more.      *)
NumbersUsedOnce ==
    /\ \A c \in Call :
          outcome[c] # "none" => c \in taken \ pending /\ sequence[c] < committed
    /\ \A c, d \in Call :
          c # d /\ outcome[c] # "none" /\ outcome[d] # "none" => sequence[c] # sequence[d]

(* The calls keep the promise of Submission (client.rs:188-215).           *)
Promise == INSTANCE Submission WITH asked <- {c \in Call : pc[c] # "idle"}
KeepsPromise == Promise!Spec

(* Every call returns, even if its transaction was refused or lost         *)
(* (tx.rs:89-119).                                                         *)
EveryCallReturns == \A c \in Call : pc[c] # "idle" ~> pc[c] = "returned"
===============================================================================
