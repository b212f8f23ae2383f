----------------------------- MODULE QueueProofs ------------------------------
(***************************************************************************)
(* Proofs about Queue: for lists of any length, messages and blocks of any *)
(* size.                                                                   *)
(***************************************************************************)
EXTENDS Queue, TLAPS, SequenceTheorems

(* What Consecutive and AllOrNothing rest on: the iterator stands right    *)
(* after what was delivered, and a CosmosClient gets no chunks.            *)
Progress ==
    /\ pc \in {"estimate", "whole"} => sent = <<>> /\ next = 1
    /\ pc = "chunks" => chunk > 0 /\ next = Delivered + 1

Whole ==
    /\ cosmos => pc # "chunks"
    /\ cosmos /\ pc = "whole" => ~Refused

QInv == TypeOK /\ Consecutive /\ Progress /\ Whole /\ AllOrNothing

(* A list to flush has messages, and each has a length.                    *)
LEMMA ListFacts ==
    ASSUME TypeOK
    PROVE  /\ n \in Nat \ {0}
           /\ \A i \in 1..n : lengths[i] \in Nat
BY QueueAssumption DEF TypeOK, n

(* A CosmosClient's list that is not refused fits into one transaction and *)
(* is not split.                                                           *)
LEMMA NotSplit ==
    ASSUME TypeOK, cosmos, ~Refused
    PROVE  ratio = 0 /\ n <= MaxCount /\ TxLen(lengths[n]) <= BlockMax
<1>1. n \in 1..n /\ n \in Nat /\ lengths[n] \in Nat
  BY ListFacts
<1>2. ~(n > MaxCount) /\ ~(TxLen(lengths[n]) > BlockMax)
  BY <1>1 DEF Refused
<1>3. n <= MaxCount /\ TxLen(lengths[n]) <= BlockMax
  BY <1>1, <1>2, QueueAssumption DEF TxLen
<1>4. lengths[n] < BlockMax
  BY <1>1, <1>3, QueueAssumption DEF TxLen
<1>5. \A a \in Nat, b \in Nat \ {0} : a < b => a \div b = 0
  OBVIOUS
<1> QED
  BY <1>1, <1>3, <1>4, <1>5, QueueAssumption DEF ratio

(* Every chunk is a run of messages that starts at the iterator.           *)
LEMMA ChunkFacts ==
    ASSUME TypeOK, chunk > 0, next <= n
    PROVE  ChunkEnd \in next..n
BY ListFacts DEF TypeOK, ChunkEnd

(* A sequence that is not empty has a last element.                        *)
LEMMA LastElement ==
    ASSUME NEW S, NEW s \in Seq(S), s # <<>>
    PROVE  Len(s) \in 1..Len(s) /\ s[Len(s)] \in S
<1>1. Len(s) \in Nat /\ Len(s) # 0
  BY EmptySeq
<1> QED
  BY <1>1

(* At most the whole list is delivered.                                    *)
LEMMA DeliveredRange == TypeOK => Delivered \in 0..n
<1> SUFFICES ASSUME TypeOK PROVE Delivered \in 0..n
  OBVIOUS
<1>1. sent # <<>> => sent[Len(sent)] \in [first : 1..n, last : 1..n]
  BY LastElement DEF TypeOK
<1>2. sent # <<>> => sent[Len(sent)].last \in 1..n
  BY <1>1
<1> QED
  BY <1>2, ListFacts DEF Delivered

(* One more transaction after those sent keeps them consecutive.           *)
LEMMA AppendTx ==
    ASSUME TypeOK, Consecutive, NEW last \in (Delivered + 1)..n,
           lengths' = lengths, sent' = Append(sent, Tx(Delivered + 1, last))
    PROVE  /\ sent' \in Seq([first : 1..n, last : 1..n])
           /\ Delivered' = last
           /\ \A i \in 1..Len(sent') :
                 /\ sent'[i].first <= sent'[i].last
                 /\ sent'[i].first = IF i = 1 THEN 1 ELSE sent'[i - 1].last + 1
<1> DEFINE tx == Tx(Delivered + 1, last)
<1>1. Delivered \in 0..n /\ n \in Nat
  BY DeliveredRange, ListFacts
<1>2. tx \in [first : 1..n, last : 1..n] /\ tx.first = Delivered + 1 /\ tx.last = last
  BY <1>1 DEF Tx
<1>3. sent \in Seq([first : 1..n, last : 1..n])
  BY DEF TypeOK
<1> HIDE DEF tx
<1>4. /\ sent' = Append(sent, tx) /\ Len(sent') = Len(sent) + 1
      /\ sent' \in Seq([first : 1..n, last : 1..n]) /\ sent' # <<>>
      /\ sent'[Len(sent) + 1] = tx
      /\ \A i \in 1..Len(sent) : sent'[i] = sent[i]
  BY <1>2, <1>3 DEF tx
<1>5. Delivered' = last
  BY <1>2, <1>4 DEF Delivered
<1>6. ASSUME NEW i \in 1..Len(sent')
      PROVE  /\ sent'[i].first <= sent'[i].last
             /\ sent'[i].first = IF i = 1 THEN 1 ELSE sent'[i - 1].last + 1
  <2>1. Len(sent) \in Nat
    BY <1>3
  <2>2. CASE i \in 1..Len(sent)
    <3>1. i # 1 => i - 1 \in 1..Len(sent)
      BY <2>1, <2>2
    <3> QED
      BY <1>4, <2>2, <3>1 DEF Consecutive
  <2>3. CASE i = Len(sent) + 1
    <3>1. sent'[i].first = Delivered + 1 /\ sent'[i].last = last
      BY <1>2, <1>4, <2>3
    <3>2. CASE sent = <<>>
      BY <1>1, <2>3, <3>1, <3>2 DEF Delivered
    <3>3. CASE sent # <<>>
      <4>1. Len(sent) \in 1..Len(sent) /\ i - 1 = Len(sent) /\ i # 1
        BY <1>3, <2>1, <2>3, <3>3
      <4>2. Delivered = sent'[i - 1].last
        BY <1>4, <3>3, <4>1 DEF Delivered
      <4> QED
        BY <1>1, <3>1, <4>1, <4>2
    <3> QED
      BY <3>2, <3>3
  <2> QED
    BY <1>4, <2>1, <2>2, <2>3
<1> QED
  BY <1>4, <1>5, <1>6


(* The two ways in which a transaction reaches the sink: the whole list,   *)
LEMMA WholeSent ==
    ASSUME QInv, pc = "whole", UNCHANGED <<lengths, cosmos, next>>, sent' = <<Tx(1, n)>>
    PROVE  /\ sent' \in Seq([first : 1..n, last : 1..n])
           /\ Delivered' = n
           /\ \A i \in 1..Len(sent') :
                 /\ sent'[i].first <= sent'[i].last
                 /\ sent'[i].first = IF i = 1 THEN 1 ELSE sent'[i - 1].last + 1
<1>1. sent = <<>> /\ Delivered = 0
  BY DEF QInv, Progress, Delivered
<1>2. n \in (Delivered + 1)..n
  BY <1>1, ListFacts DEF QInv
<1>3. sent' = Append(sent, Tx(Delivered + 1, n))
  BY <1>1
<1> QED
  BY <1>1, <1>2, <1>3, AppendTx DEF QInv

(* And a chunk, the next one of the iterator.                              *)
LEMMA ChunkSent ==
    ASSUME QInv, pc = "chunks", next <= n, lengths' = lengths,
           sent' = Append(sent, Tx(next, ChunkEnd))
    PROVE  /\ sent' \in Seq([first : 1..n, last : 1..n])
           /\ Delivered' = ChunkEnd
           /\ \A i \in 1..Len(sent') :
                 /\ sent'[i].first <= sent'[i].last
                 /\ sent'[i].first = IF i = 1 THEN 1 ELSE sent'[i - 1].last + 1
<1>1. next = Delivered + 1 /\ ChunkEnd \in next..n
  BY ChunkFacts DEF QInv, Progress
<1> QED
  BY <1>1, AppendTx DEF QInv

-------------------------------------------------------------------------------
LEMMA QInvInit == Init => QInv
<1> SUFFICES ASSUME Init PROVE QInv
  OBVIOUS
<1>1. sent = <<>> /\ pc = "estimate" /\ Len(sent) = 0 /\ next = 1 /\ chunk = 0
  BY DEF Init
<1>2. TypeOK
  BY DEF Init, TypeOK
<1> QED
  BY <1>1, <1>2 DEF QInv, Consecutive, Progress, Whole, AllOrNothing

(* What the actions that send nothing have in common.                      *)
LEMMA NothingSent ==
    ASSUME QInv, UNCHANGED <<lengths, cosmos, sent>>
    PROVE  /\ n' = n /\ Delivered' = Delivered /\ Refused' = Refused
           /\ (pc' = "ok" => Delivered = n) => Consecutive'
           /\ AllOrNothing'
<1>1. n' = n /\ Delivered' = Delivered /\ Refused' = Refused
  BY DEF n, Delivered, Refused, TxLen
<1>2. (pc' = "ok" => Delivered = n) => Consecutive'
  BY <1>1 DEF QInv, Consecutive
<1>3. AllOrNothing'
  BY <1>1 DEF QInv, AllOrNothing, Tx, TxLen
<1> QED
  BY <1>1, <1>2, <1>3

(* The invariant is inductive.                                             *)
LEMMA QInvStep == QInv /\ [Next]_vars => QInv'
<1> SUFFICES ASSUME QInv, [Next]_vars PROVE QInv'
  OBVIOUS
<1> USE DEF QInv
<1>1. n \in Nat \ {0} /\ lengths' = lengths /\ n' = n
  BY ListFacts DEF Next, vars, EstimateFails, Estimate, SubmitWhole, SubmitChunk,
     AllChunksSent, SubmitFails, n
<1>2. CASE EstimateFails
  <2>1. /\ UNCHANGED <<lengths, cosmos, sent>> /\ pc' = "err"
        /\ UNCHANGED <<chunk, next>>
    BY <1>2 DEF EstimateFails
  <2> QED
    BY <1>1, <2>1, NothingSent DEF TypeOK, Progress, Whole
<1>3. CASE Estimate
  <2>1. /\ UNCHANGED <<lengths, cosmos, sent, next>> /\ ~Refused /\ pc = "estimate"
        /\ \/ ratio = 0 /\ pc' = "whole" /\ chunk' = chunk
           \/ ratio # 0 /\ pc' = "chunks" /\ chunk' \in Nat \ {0}
    <3>1. ratio \in Nat
      <4>1. lengths[n] \in Nat
        BY <1>1, ListFacts
      <4>2. \A a \in Nat, b \in Nat \ {0} : a \div b \in Nat
        OBVIOUS
      <4> QED
        BY <4>1, <4>2, QueueAssumption DEF ratio
    <3> QED
      BY <1>3, <3>1 DEF Estimate
  <2>2. sent = <<>> /\ next = 1 /\ Delivered' = 0
    BY <2>1 DEF Progress, Delivered
  <2>3. cosmos => ratio = 0
    BY <2>1, NotSplit
  <2>4. TypeOK'
    BY <1>1, <2>1 DEF TypeOK
  <2>5. Progress'
    BY <2>1, <2>2 DEF Progress
  <2>6. Whole'
    BY <2>1, <2>3, NothingSent DEF Whole
  <2> QED
    BY <2>1, <2>4, <2>5, <2>6, NothingSent
<1>4. CASE SubmitWhole
  <2>1. /\ pc = "whole" /\ pc' = "ok" /\ sent' = <<Tx(1, n)>>
        /\ UNCHANGED <<lengths, cosmos, chunk, next>>
    BY <1>4 DEF SubmitWhole
  <2>2. TypeOK'
    BY <1>1, <2>1, WholeSent DEF TypeOK
  <2>3. Consecutive'
    BY <1>1, <2>1, WholeSent DEF Consecutive
  <2>4. AllOrNothing'
    BY <1>1, <2>1, NotSplit DEF AllOrNothing, Whole, Tx, TxLen
  <2> QED
    BY <2>1, <2>2, <2>3, <2>4 DEF Progress, Whole
<1>5. CASE SubmitChunk
  <2>1. /\ pc = "chunks" /\ next <= n /\ sent' = Append(sent, Tx(next, ChunkEnd))
        /\ next' = ChunkEnd + 1 /\ UNCHANGED <<lengths, cosmos, pc, chunk>>
    BY <1>5 DEF SubmitChunk
  <2>2. chunk > 0 /\ ChunkEnd \in next..n /\ ~cosmos
    BY <2>1, ChunkFacts DEF Progress, Whole
  <2>3. next' \in Nat \ {0}
    BY <1>1, <2>1, <2>2 DEF TypeOK
  <2>4. TypeOK'
    BY <1>1, <2>1, <2>3, ChunkSent DEF TypeOK
  <2>5. Consecutive'
    BY <1>1, <2>1, ChunkSent DEF Consecutive
  <2>6. Progress'
    BY <2>1, <2>2, ChunkSent DEF Progress
  <2> QED
    BY <2>1, <2>2, <2>4, <2>5, <2>6 DEF Whole, AllOrNothing
<1>6. CASE AllChunksSent
  <2>1. /\ pc = "chunks" /\ next > n /\ pc' = "ok"
        /\ UNCHANGED <<lengths, cosmos, chunk, next, sent>>
    BY <1>6 DEF AllChunksSent
  <2>2. Delivered = n
    <3>1. next = Delivered + 1
      BY <2>1 DEF Progress
    <3>2. Delivered \in 0..n
      BY DeliveredRange
    <3> QED
      BY <1>1, <2>1, <3>1, <3>2
  <2> QED
    BY <1>1, <2>1, <2>2, NothingSent DEF TypeOK, Progress, Whole
<1>7. CASE SubmitFails
  <2>1. pc' = "err" /\ UNCHANGED <<lengths, cosmos, chunk, next>>
    BY <1>7 DEF SubmitFails
  <2>2. CASE sent' = sent
    BY <1>1, <2>1, <2>2, NothingSent DEF TypeOK, Progress, Whole
  <2>3. CASE pc = "whole" /\ sent' = <<Tx(1, n)>>
    <3>1. TypeOK'
      BY <1>1, <2>1, <2>3, WholeSent DEF TypeOK
    <3>2. Consecutive'
      BY <1>1, <2>1, <2>3, WholeSent DEF Consecutive
    <3>3. AllOrNothing'
      BY <1>1, <2>1, <2>3, NotSplit DEF AllOrNothing, Whole, Tx, TxLen
    <3> QED
      BY <2>1, <3>1, <3>2, <3>3 DEF Progress, Whole
  <2>4. CASE pc = "chunks" /\ next <= n /\ sent' = Append(sent, Tx(next, ChunkEnd))
    <3>1. TypeOK'
      BY <1>1, <2>1, <2>4, ChunkSent DEF TypeOK
    <3>2. Consecutive'
      BY <1>1, <2>1, <2>4, ChunkSent DEF Consecutive
    <3> QED
      BY <2>1, <2>4, <3>1, <3>2 DEF Progress, Whole, AllOrNothing
  <2> QED
    BY <1>7, <2>2, <2>3, <2>4 DEF SubmitFails
<1>8. CASE UNCHANGED vars
  <2>1. UNCHANGED <<lengths, cosmos, pc, chunk, next, sent>>
    BY <1>8 DEF vars
  <2> QED
    BY <1>1, <2>1, NothingSent DEF TypeOK, Progress, Whole, Consecutive
<1> QED
  BY <1>2, <1>3, <1>4, <1>5, <1>6, <1>7, <1>8 DEF Next

(* The invariant holds of every flush.                                     *)
THEOREM QInvHolds == Spec => []QInv
BY QInvInit, QInvStep, PTL DEF Spec

(* The state of a flush always has the types of the code.                  *)
THEOREM TypeCorrect == Spec => []TypeOK
<1>1. QInv => TypeOK
  BY DEF QInv
<1> QED
  BY <1>1, QInvHolds, PTL

(* Whatever the sizes and wherever it fails, a flush sends consecutive     *)
(* runs of its messages, and all of them if it returns Ok (queue.rs:44).   *)
THEOREM SendsInOrder == Spec => []Consecutive
<1>1. QInv => Consecutive
  BY DEF QInv
<1> QED
  BY <1>1, QInvHolds, PTL

(* A flush to a CosmosClient is one transaction within max_tx_size, or     *)
(* none: the split of queue.rs:31-49 is never taken (chain.rs:74).         *)
THEOREM CosmosNeverSplits == Spec => []AllOrNothing
<1>1. QInv => AllOrNothing
  BY DEF QInv
<1> QED
  BY <1>1, QInvHolds, PTL

-------------------------------------------------------------------------------
(* A step of a flush is a step, or a stutter, of the promise.              *)
LEMMA DeliveryStep ==
    ASSUME QInv, QInv', [Next]_vars
    PROVE  [Deliveries!Deliver]_(Deliveries!vars)
<1>1. n' = n /\ n \in Nat
  BY ListFacts DEF QInv, Next, vars, EstimateFails, Estimate, SubmitWhole,
     SubmitChunk, AllChunksSent, SubmitFails, n
<1>2. Delivered \in 0..n /\ Delivered' \in 0..n
  <2>1. TypeOK' => (Delivered \in 0..n)'
    BY DeliveredRange, PTL
  <2> QED
    BY <1>1, <2>1, DeliveredRange DEF QInv
<1>3. Delivered <= Delivered'
  <2>1. ASSUME UNCHANGED <<lengths, cosmos, sent>> PROVE Delivered' = Delivered
    BY <2>1 DEF Delivered
  <2>2. ASSUME pc = "whole", UNCHANGED <<lengths, cosmos, next>>, sent' = <<Tx(1, n)>>
        PROVE  Delivered' = n
    BY <2>2, WholeSent
  <2>3. ASSUME pc = "chunks", next <= n, lengths' = lengths,
               sent' = Append(sent, Tx(next, ChunkEnd))
        PROVE  Delivered <= Delivered'
    <3>1. Delivered' = ChunkEnd /\ ChunkEnd \in next..n /\ next = Delivered + 1
      BY <2>3, ChunkSent, ChunkFacts DEF QInv, Progress
    <3> QED
      BY <1>2, <3>1
  <2> QED
    BY <1>1, <1>2, <2>1, <2>2, <2>3 DEF Next, vars, EstimateFails, Estimate,
       SubmitWhole, SubmitChunk, AllChunksSent, SubmitFails
<1>4. pc' = "ok" => Delivered' = n
  BY <1>1 DEF QInv, Consecutive
<1>5. pc \in {"ok", "err"} => UNCHANGED vars
  BY DEF Next, vars, EstimateFails, Estimate, SubmitWhole, SubmitChunk,
     AllChunksSent, SubmitFails
<1>6. CASE pc \in {"ok", "err"}
  <2>1. UNCHANGED <<lengths, cosmos, pc, sent>>
    BY <1>5, <1>6 DEF vars
  <2> QED
    BY <1>1, <2>1 DEF Deliveries!vars, Delivered
<1>7. CASE pc \notin {"ok", "err"}
  <2>1. pc' \in {"estimate", "whole", "chunks", "ok", "err"}
    BY DEF QInv, TypeOK
  <2> QED
    BY <1>1, <1>2, <1>3, <1>4, <1>7, <2>1 DEF Deliveries!Deliver
<1> QED
  BY <1>6, <1>7

(* A flush implements Delivery: in order, each message at most once, all   *)
(* of them when it returns Ok (queue.rs:19-52).                            *)
THEOREM FlushDelivers == Spec => ImplementsDelivery
<1>1. Init => Deliveries!Init
  <2> SUFFICES ASSUME Init PROVE Deliveries!Init
    OBVIOUS
  <2>1. TypeOK /\ sent = <<>> /\ pc = "estimate"
    BY QInvInit DEF QInv, Init
  <2> QED
    BY <2>1, ListFacts DEF Deliveries!Init, Delivered
<1>2. QInv /\ QInv' /\ [Next]_vars => [Deliveries!Deliver]_(Deliveries!vars)
  BY DeliveryStep
<1> QED
  BY <1>1, <1>2, QInvHolds, PTL DEF Spec, ImplementsDelivery, Deliveries!Spec
===============================================================================
