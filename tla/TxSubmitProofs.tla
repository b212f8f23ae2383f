---------------------------- MODULE TxSubmitProofs ----------------------------
(***************************************************************************)
(* Proofs about TxSubmit: for any number of calls and any patience.        *)
(***************************************************************************)
EXTENDS TxSubmit, TLAPS

(* A call that has not broadcast has nothing in the mempool or the chain,  *)
(* and one that has not returned has no answer.                            *)
Before == {"idle", "query", "sign", "broadcast"}

NotYet ==
    \A c \in Call :
        /\ pc[c] \in Before => c \notin taken /\ outcome[c] = "none"
        /\ pc[c] # "returned" => answer[c] = "none"

(* The number a call has read is not above the committed one.              *)
ReadNumbers ==
    \A c \in Call : pc[c] \in {"sign", "broadcast"} => sequence[c] <= committed

(* What is pending is due, has not been executed, and is alone.            *)
Due ==
    /\ committed <= expected
    /\ \A c \in pending :
          /\ sequence[c] = committed /\ expected = committed + 1
          /\ c \in taken /\ outcome[c] = "none"

(* Every number below the expected one has been taken.                     *)
NumbersTaken ==
    \A i \in Nat : i < expected => \E d \in taken : sequence[d] = i

TxInv ==
    /\ TypeOK /\ NotYet /\ ReadNumbers /\ Due /\ NumbersTaken
    /\ AtMostOnePending /\ RefusedOnlyByCollision /\ NumbersUsedOnce

LEMMA InitInv == Init => TxInv
<1> SUFFICES ASSUME Init PROVE TxInv
  OBVIOUS
<1> USE TxAssumption DEF Init
<1>1. TypeOK /\ NotYet /\ ReadNumbers /\ Due
  BY DEF TypeOK, NotYet, Before, ReadNumbers, Due
<1>2. NumbersTaken /\ AtMostOnePending
  BY DEF NumbersTaken, AtMostOnePending
<1>3. RefusedOnlyByCollision /\ NumbersUsedOnce
  BY DEF RefusedOnlyByCollision, NumbersUsedOnce
<1> QED
  BY <1>1, <1>2, <1>3 DEF TxInv

(* Steps of a call that leave the node and the numbers alone: the call     *)
(* goes on before it broadcasts, or waits, or returns.                     *)
LEMMA OwnSteps ==
    ASSUME TxInv, NEW c \in Call, UNCHANGED nodeVars, UNCHANGED sequence,
           TypeOK', NotYet',
           \A d \in Call : d # c => pc'[d] = pc[d],
           pc'[c] \in {"sign", "broadcast"} => pc[c] \in {"sign", "broadcast"},
           pc'[c] = "confirm" => pc[c] = "confirm"
    PROVE  TxInv'
<1>1. ReadNumbers'
  BY DEF TxInv, ReadNumbers, TypeOK, nodeVars
<1>2. Due' /\ NumbersTaken' /\ AtMostOnePending' /\ NumbersUsedOnce'
  BY DEF TxInv, Due, NumbersTaken, AtMostOnePending, NumbersUsedOnce, nodeVars
<1>3. RefusedOnlyByCollision'
  BY DEF TxInv, RefusedOnlyByCollision, TypeOK, nodeVars
<1> QED
  BY <1>1, <1>2, <1>3 DEF TxInv

(* What CheckTx leaves behind for a call that broadcasts.                  *)
LEMMA CheckTxFacts ==
    ASSUME TxInv, NEW c \in Call, pc[c] = "broadcast", CheckTx(c),
           UNCHANGED <<committed, outcome, sequence>>
    PROVE  /\ pending' \subseteq Call /\ taken' \subseteq Call /\ expected' \in Nat
           /\ Due' /\ NumbersTaken' /\ AtMostOnePending' /\ NumbersUsedOnce'
           /\ taken \subseteq taken' /\ taken' \subseteq taken \cup {c}
           /\ c \in taken' \/ \E d \in taken' : d # c /\ sequence[d] = sequence[c]
<1>0. /\ c \notin taken /\ outcome[c] = "none" /\ sequence[c] <= committed
      /\ committed \in Nat /\ expected \in Nat /\ sequence[c] \in Nat
  BY DEF TxInv, NotYet, Before, ReadNumbers, TypeOK
<1>1. CASE sequence[c] = expected
  <2>1. /\ pending' = pending \cup {c} /\ taken' = taken \cup {c}
        /\ expected' = expected + 1
    BY <1>1 DEF CheckTx
  <2>2. committed = expected
    BY <1>0, <1>1 DEF TxInv, Due
  <2>3. pending = {}
    BY <1>0, <2>2 DEF TxInv, Due
  <2>4. Due' /\ AtMostOnePending'
    BY <1>0, <1>1, <2>1, <2>2, <2>3 DEF Due, AtMostOnePending
  <2>5. NumbersTaken'
    <3> SUFFICES ASSUME NEW i \in Nat, i < expected'
                 PROVE  \E d \in taken' : sequence[d] = i
      BY DEF NumbersTaken
    <3>1. i < expected \/ i = expected
      BY <1>0, <2>1
    <3> QED
      BY <1>1, <2>1, <3>1 DEF TxInv, NumbersTaken
  <2>6. NumbersUsedOnce'
    BY <1>0, <2>1 DEF TxInv, NumbersUsedOnce
  <2> QED
    BY <1>0, <2>1, <2>4, <2>5, <2>6 DEF TxInv, TypeOK
<1>2. CASE sequence[c] # expected
  <2>1. UNCHANGED <<pending, taken, expected>>
    BY <1>2 DEF CheckTx
  <2>2. sequence[c] < expected
    BY <1>0, <1>2 DEF TxInv, Due
  <2>3. PICK d \in taken : sequence[d] = sequence[c]
    BY <1>0, <2>2 DEF TxInv, NumbersTaken
  <2>4. Due' /\ NumbersTaken' /\ AtMostOnePending' /\ NumbersUsedOnce'
    BY <2>1 DEF TxInv, Due, NumbersTaken, AtMostOnePending, NumbersUsedOnce
  <2> QED
    BY <1>0, <2>1, <2>3, <2>4 DEF TxInv, TypeOK
<1> QED
  BY <1>1, <1>2

(* A broadcast, answered or not.                                           *)
LEMMA Broadcasts ==
    ASSUME TxInv, NEW c \in Call, pc[c] = "broadcast", CheckTx(c),
           UNCHANGED <<committed, outcome, sequence, waited>>,
           \/ Goto(c, "confirm") /\ UNCHANGED answer
           \/ Return(c, "Err")
    PROVE  TxInv'
<1>0. /\ pending' \subseteq Call /\ taken' \subseteq Call /\ expected' \in Nat
      /\ Due' /\ NumbersTaken' /\ AtMostOnePending' /\ NumbersUsedOnce'
      /\ taken \subseteq taken' /\ taken' \subseteq taken \cup {c}
      /\ c \in taken' \/ \E d \in taken' : d # c /\ sequence[d] = sequence[c]
  BY CheckTxFacts
<1>1. /\ pc' \in [Call -> {"idle", "query", "sign", "broadcast", "confirm", "returned"}]
      /\ pc'[c] \in {"confirm", "returned"}
      /\ \A d \in Call : d # c => pc'[d] = pc[d]
      /\ answer' \in [Call -> {"none", "Ok", "Err"}]
      /\ \A d \in Call : d # c => answer'[d] = answer[d]
      /\ pc'[c] = "confirm" => answer'[c] = answer[c]
  BY DEF TxInv, TypeOK, Goto, Return
<1>2. TypeOK'
  BY <1>0, <1>1 DEF TxInv, TypeOK
<1>3. NotYet'
  BY <1>0, <1>1 DEF TxInv, NotYet, Before
<1>4. ReadNumbers'
  BY <1>1 DEF TxInv, ReadNumbers
<1>5. RefusedOnlyByCollision'
  <2> SUFFICES ASSUME NEW b \in Call, pc'[b] = "confirm", b \notin taken'
               PROVE  \E d \in taken' : d # b /\ sequence[d] = sequence[b]
    BY DEF RefusedOnlyByCollision
  <2>1. CASE b = c
    BY <1>0, <2>1
  <2>2. CASE b # c
    BY <1>0, <1>1, <2>2 DEF TxInv, RefusedOnlyByCollision
  <2> QED
    BY <2>1, <2>2
<1> QED
  BY <1>0, <1>2, <1>3, <1>4, <1>5 DEF TxInv

(* A call reads the number; no transaction of it exists yet.               *)
LEMMA ReadsNumber ==
    ASSUME TxInv, NEW c \in Call, query_account(c)
    PROVE  TxInv'
<1>0. /\ pc[c] = "query" /\ c \notin taken /\ outcome[c] = "none" /\ answer[c] = "none"
      /\ sequence'[c] = committed /\ pc'[c] = "sign"
      /\ \A d \in Call : d # c => sequence'[d] = sequence[d] /\ pc'[d] = pc[d]
      /\ UNCHANGED <<nodeVars, waited, answer>>
  BY DEF TxInv, TypeOK, NotYet, Before, query_account, Goto
<1>1. TypeOK'
  BY DEF TxInv, TypeOK, query_account, Goto, nodeVars
<1>2. NotYet'
  BY <1>0 DEF TxInv, NotYet, Before, nodeVars
<1>3. ReadNumbers'
  BY <1>0 DEF TxInv, TypeOK, ReadNumbers, nodeVars
<1>4. Due' /\ NumbersTaken' /\ AtMostOnePending'
  BY <1>0 DEF TxInv, TypeOK, Due, NumbersTaken, AtMostOnePending, nodeVars
<1>5. RefusedOnlyByCollision'
  BY <1>0 DEF TxInv, TypeOK, RefusedOnlyByCollision, nodeVars
<1>6. NumbersUsedOnce'
  BY <1>0 DEF TxInv, NumbersUsedOnce, nodeVars
<1> QED
  BY <1>1, <1>2, <1>3, <1>4, <1>5, <1>6 DEF TxInv

(* A block: the number executed is below the new one, and was above those  *)
(* executed before.                                                        *)
LEMMA Executes ==
    ASSUME TxInv, NEW c \in Call, Execute(c)
    PROVE  TxInv'
<1>0. /\ c \in pending /\ c \in taken /\ sequence[c] = committed /\ outcome[c] = "none"
      /\ expected = committed + 1 /\ committed \in Nat
      /\ committed' = committed + 1 /\ pending' = {}
      /\ outcome'[c] \in {"succeeded", "failed"}
      /\ \A d \in Call : d # c => outcome'[d] = outcome[d]
      /\ UNCHANGED <<expected, taken, pc, sequence, waited, answer>>
  BY DEF TxInv, TypeOK, Due, AtMostOnePending, Execute
<1>1. TypeOK'
  BY DEF TxInv, TypeOK, Execute
<1>2. NotYet' /\ ReadNumbers'
  BY <1>0 DEF TxInv, TypeOK, NotYet, ReadNumbers
<1>3. Due' /\ AtMostOnePending'
  BY <1>0 DEF Due, AtMostOnePending
<1>4. NumbersTaken' /\ RefusedOnlyByCollision'
  BY <1>0 DEF TxInv, NumbersTaken, RefusedOnlyByCollision
<1>5. NumbersUsedOnce'
  <2>1. \A d \in Call : d # c /\ outcome'[d] # "none" =>
            d \in taken /\ sequence[d] < committed
    BY <1>0 DEF TxInv, NumbersUsedOnce
  <2>2. \A d \in Call : outcome'[d] # "none" => d \in taken' \ pending' /\ sequence'[d] < committed'
    BY <1>0, <2>1 DEF TxInv, TypeOK
  <2>3. ASSUME NEW b \in Call, NEW d \in Call, b # d, outcome'[b] # "none", outcome'[d] # "none"
        PROVE  sequence'[b] # sequence'[d]
    <3>1. CASE b = c
      BY <1>0, <2>1, <2>3, <3>1
    <3>2. CASE d = c
      BY <1>0, <2>1, <2>3, <3>2
    <3>3. CASE b # c /\ d # c
      BY <1>0, <2>3, <3>3 DEF TxInv, NumbersUsedOnce
    <3> QED
      BY <3>1, <3>2, <3>3
  <2> QED
    BY <2>2, <2>3 DEF NumbersUsedOnce
<1> QED
  BY <1>1, <1>2, <1>3, <1>4, <1>5 DEF TxInv

(* A mempool that is lost gives its number back.                           *)
LEMMA Forgets ==
    ASSUME TxInv, Forget
    PROVE  TxInv'
<1>0. /\ pending' = {} /\ expected' = committed /\ committed \in Nat /\ expected \in Nat
      /\ UNCHANGED <<committed, taken, outcome, pc, sequence, waited, answer>>
  BY DEF TxInv, TypeOK, Forget
<1>1. TypeOK' /\ NotYet' /\ ReadNumbers' /\ RefusedOnlyByCollision'
  BY <1>0 DEF TxInv, TypeOK, NotYet, ReadNumbers, RefusedOnlyByCollision
<1>2. Due' /\ AtMostOnePending'
  BY <1>0 DEF Due, AtMostOnePending
<1>3. NumbersTaken'
  BY <1>0 DEF TxInv, Due, NumbersTaken
<1>4. NumbersUsedOnce'
  BY <1>0 DEF TxInv, NumbersUsedOnce
<1> QED
  BY <1>1, <1>2, <1>3, <1>4 DEF TxInv

LEMMA StepInv == TxInv /\ [Next]_vars => TxInv'
<1> SUFFICES ASSUME TxInv, [Next]_vars PROVE TxInv'
  OBVIOUS
<1>1. ASSUME NEW c \in Call, submit_call(c) PROVE TxInv'
  <2>1. TypeOK' /\ NotYet'
    BY <1>1 DEF TxInv, TypeOK, NotYet, Before, submit_call, Goto, nodeVars
  <2> QED
    BY <1>1, <2>1, OwnSteps DEF TxInv, TypeOK, submit_call, Goto
<1>2. ASSUME NEW c \in Call, sign_tx(c) PROVE TxInv'
  <2>1. TypeOK' /\ NotYet'
    BY <1>2 DEF TxInv, TypeOK, NotYet, Before, sign_tx, Goto, Return, nodeVars
  <2> QED
    BY <1>2, <2>1, OwnSteps DEF TxInv, TypeOK, sign_tx, Goto, Return
<1>3. ASSUME NEW c \in Call, Found(c) PROVE TxInv'
  <2>1. TypeOK' /\ NotYet'
    BY <1>3 DEF TxInv, TypeOK, NotYet, Before, Found, Goto, Return, nodeVars
  <2> QED
    BY <1>3, <2>1, OwnSteps DEF TxInv, TypeOK, Found, Goto, Return
<1>4. ASSUME NEW c \in Call, NotFound(c) PROVE TxInv'
  <2>1. TypeOK'
    BY <1>4, TxAssumption DEF TxInv, TypeOK, NotFound, Goto, Return, nodeVars
  <2>2. NotYet'
    BY <1>4 DEF TxInv, TypeOK, NotYet, Before, NotFound, Goto, Return, nodeVars
  <2> QED
    BY <1>4, <2>1, <2>2, OwnSteps DEF TxInv, TypeOK, NotFound, Goto, Return
<1>5. ASSUME NEW c \in Call, QueryFails(c) PROVE TxInv'
  <2>1. TypeOK' /\ NotYet'
    BY <1>5 DEF TxInv, TypeOK, NotYet, Before, QueryFails, Goto, Return, nodeVars
  <2> QED
    BY <1>5, <2>1, OwnSteps DEF TxInv, TypeOK, QueryFails, Goto, Return
<1>6. ASSUME NEW c \in Call, broadcast_tx(c) PROVE TxInv'
  BY <1>6, Broadcasts DEF broadcast_tx
<1>7. ASSUME NEW c \in Call, BroadcastFails(c) PROVE TxInv'
  <2>1. CASE CheckTx(c)
    BY <1>7, <2>1, Broadcasts DEF BroadcastFails
  <2>2. CASE UNCHANGED <<pending, taken, expected>>
    <3>1. TypeOK' /\ NotYet'
      BY <1>7, <2>2 DEF TxInv, TypeOK, NotYet, Before, BroadcastFails, Goto, Return
    <3> QED
      BY <1>7, <2>2, <3>1, OwnSteps DEF TxInv, TypeOK, BroadcastFails, Goto, Return, nodeVars
  <2> QED
    BY <1>7, <2>1, <2>2 DEF BroadcastFails
<1>8. CASE UNCHANGED vars
  BY <1>8 DEF TxInv, TypeOK, NotYet, ReadNumbers, Due, NumbersTaken, AtMostOnePending,
     RefusedOnlyByCollision, NumbersUsedOnce, vars, nodeVars
<1> QED
  BY <1>1, <1>2, <1>3, <1>4, <1>5, <1>6, <1>7, <1>8, ReadsNumber, Executes, Forgets DEF Next, Step

LEMMA Invariance == Spec => []TxInv
<1> QED
  BY InitInv, StepInv, PTL DEF Spec

(* Types and bounds: no call waits longer than confirm_tx does.            *)
THEOREM TypeCorrect == Spec => []TypeOK
<1> QED
  BY Invariance, PTL DEF TxInv

(* The mempool never holds two transactions of the account.                *)
THEOREM OnePending == Spec => []AtMostOnePending
<1> QED
  BY Invariance, PTL DEF TxInv

(* A refusal is always another call's doing.                               *)
THEOREM RefusalIsCollision == Spec => []RefusedOnlyByCollision
<1> QED
  BY Invariance, PTL DEF TxInv

(* No number is executed twice.                                            *)
THEOREM EachNumberOnce == Spec => []NumbersUsedOnce
<1> QED
  BY Invariance, PTL DEF TxInv

-------------------------------------------------------------------------------
(* The calls implement Submission.                                         *)
LEMMA PromiseInit == Init => Promise!Init
BY DEF Init, Promise!Init

LEMMA PromiseStep ==
    TxInv /\ [Next]_vars => [Promise!Next]_<<{c \in Call : pc[c] # "idle"}, outcome, answer>>
<1> DEFINE asked == {c \in Call : pc[c] # "idle"}
<1> SUFFICES ASSUME TxInv, [Next]_vars
             PROVE  Promise!Next \/ UNCHANGED <<asked, outcome, answer>>
  OBVIOUS
<1>1. ASSUME NEW c \in Call, submit_call(c) PROVE Promise!Ask(c)
  <2>1. c \notin asked /\ asked' = asked \cup {c}
    BY <1>1 DEF TxInv, TypeOK, submit_call, Goto
  <2> QED
    BY <1>1, <2>1 DEF Promise!Ask, submit_call, nodeVars
<1>2. ASSUME NEW c \in Call, pc[c] \notin {"idle", "returned"}, NEW a \in {"Ok", "Err"},
             Return(c, a), a = "Ok" => outcome[c] = "succeeded", UNCHANGED outcome
      PROVE  Promise!Answer(c)
  <2>1. c \in asked /\ asked' = asked /\ answer[c] = "none"
    BY <1>2 DEF TxInv, TypeOK, NotYet, Return, Goto
  <2> QED
    BY <1>2, <2>1 DEF Promise!Answer, Return
<1>3. ASSUME NEW c \in Call, NEW s \in {"sign", "broadcast", "confirm"}, Goto(c, s),
             pc[c] # "idle", UNCHANGED <<outcome, answer>>
      PROVE  UNCHANGED <<asked, outcome, answer>>
  BY <1>3 DEF TxInv, TypeOK, Goto
<1>4. ASSUME NEW c \in Call, Execute(c) PROVE Promise!Execute(c)
  <2>1. c \in asked /\ asked' = asked /\ outcome[c] = "none"
    BY <1>4 DEF TxInv, NotYet, Before, Due, Execute
  <2> QED
    BY <1>4, <2>1 DEF Promise!Execute, Execute
<1>5. ASSUME NEW c \in Call, Step(c)
      PROVE  Promise!Answer(c) \/ UNCHANGED <<asked, outcome, answer>>
  <2>1. CASE query_account(c)
    BY <2>1, <1>3 DEF query_account, nodeVars
  <2>2. CASE sign_tx(c)
    BY <2>2, <1>2, <1>3 DEF sign_tx, nodeVars
  <2>3. CASE broadcast_tx(c)
    BY <2>3, <1>3 DEF broadcast_tx
  <2>4. CASE Found(c)
    BY <2>4, <1>2 DEF Found, nodeVars, TxInv, TypeOK
  <2>5. CASE NotFound(c)
    <3>1. CASE waited[c] < Patience
      BY <2>5, <3>1 DEF NotFound, nodeVars
    <3>2. CASE ~(waited[c] < Patience)
      BY <2>5, <3>2, <1>2 DEF NotFound, nodeVars
    <3> QED
      BY <3>1, <3>2
  <2> QED
    BY <1>5, <2>1, <2>2, <2>3, <2>4, <2>5 DEF Step
<1>6. ASSUME NEW c \in Call, BroadcastFails(c) \/ QueryFails(c) PROVE Promise!Answer(c)
  BY <1>6, <1>2 DEF BroadcastFails, QueryFails, nodeVars
<1>7. CASE Forget \/ UNCHANGED vars
  BY <1>7 DEF Forget, vars, nodeVars
<1> QED
  BY <1>1, <1>4, <1>5, <1>6, <1>7 DEF Next, Promise!Next

(* submit_call keeps Submission's promise: Ok means executed, once.        *)
THEOREM PromiseKept == Spec => KeepsPromise
<1>1. Init /\ [][Next]_vars /\ []TxInv => Promise!Spec
  BY PromiseInit, PromiseStep, PTL DEF Promise!Spec
<1> QED
  BY <1>1, Invariance, PTL DEF Spec, KeepsPromise
===============================================================================
