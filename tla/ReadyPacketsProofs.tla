-------------------------- MODULE ReadyPacketsProofs --------------------------
(***************************************************************************)
(* Proofs about ReadyPackets: for any packets and timeouts, clocks, delay, *)
(* and any number of blocks, updates and other relayers' steps meanwhile.  *)
(***************************************************************************)
EXTENDS ReadyPackets, WellFoundedInduction, TLAPS

Collecting == {"packets", "acks", "unreceived_acks", "ack_packets", "done", "failed"}

(* The heights read are behind the chains, and a client is not ahead of    *)
(* the chain it follows.                                                   *)
Behind ==
    \A c \in Chain :
        /\ readAt[c] <= height[c]
        /\ Known(c) # {} /\ \A h \in Known(c) : h <= height[Peer(c)]

(* On an ordered channel the packets are received in their order.          *)
ReceivedInOrder ==
    ordered => \A p, o \in Packet : o < p /\ receivedAt[p] # 0 => receivedAt[o] # 0

(* What is before the number sink gave as the next to receive is received. *)
(* A packet left to handle has been sent, is not before that number, was   *)
(* not received when the call began and, once it counts as timed out,      *)
(* never will be.                                                          *)
Handled ==
    /\ pc \in {"client", "again", "commitments", "unreceived"} /\ ordered =>
          \A o \in Packet : o < next_sequence_recv => receivedAt[o] # 0
    /\ pc \in {"unreceived", "packets"} => \A p \in seqs : sentAt[p] # 0
    /\ pc = "packets" =>
          \A p \in seqs : /\ ~(receivedAt[p] \in 1..readAt["sink"])
                          /\ timed_out(p) => receivedAt[p] = 0
                          /\ ordered => next_sequence_recv <= p
    /\ pc \in {"unreceived_acks", "ack_packets"} => \A q \in acks : ackAt[q] # 0

(* What has been collected.                                                *)
GoodMessage(m) ==
    /\ IF m.kind = "MsgRecvPacket"
       THEN m.seq \in Packet /\ ~timed_out(m.seq) /\ ~(receivedAt[m.seq] \in 1..readAt["sink"])
       ELSE m.seq \in Returning
    /\ CommittedAt(m) \in 1..m.at
    /\ \E u \in updates["sink"] : u.of = m.proof /\ DelayElapsed("sink", u, height["sink"])

GoodTimeout(m) ==
    /\ m.seq \in Packet /\ timed_out(m.seq) /\ receivedAt[m.seq] = 0
    /\ Expired(m.seq, m.proof) /\ TimeoutHeight[m.seq] <= m.proof
    /\ TimeoutTime[m.seq] <= Time("sink", m.proof)
    /\ ordered => m.next <= m.seq
    /\ \E u \in updates["source"] : u.of = m.proof /\ DelayElapsed("source", u, height["source"])

Collected ==
    /\ pc \notin Collecting => messages = {} /\ timeouts = {}
    /\ \A m \in messages : GoodMessage(m)
    /\ \A m \in timeouts : GoodTimeout(m)

RInv == TypeOK /\ Behind /\ ReceivedInOrder /\ Handled /\ Collected

-------------------------------------------------------------------------------
(* A set of numbers has a least one and, if it is bounded, a greatest one. *)
LEMMA LeastOf ==
    ASSUME NEW S \in SUBSET Nat, S # {}
    PROVE  \E n \in S : \A k \in S : n <= k
<1> DEFINE R == OpToRel(<, Nat)
<1>1. IsWellFoundedOn(R, Nat)
  BY NatLessThanWellFounded
<1>2. \A k, n \in Nat : k < n => <<k, n>> \in R
  BY DEF OpToRel
<1> HIDE DEF R
<1>3. PICK n \in S : \A k \in S : ~(<<k, n>> \in R)
  BY <1>1, WFMin
<1>4. \A k \in S : ~(k < n)
  BY <1>2, <1>3
<1> QED
  BY <1>4

LEMMA GreatestOf ==
    ASSUME NEW S \in SUBSET Nat, S # {}, NEW b \in Nat, \A k \in S : k <= b
    PROVE  \E n \in S : \A k \in S : k <= n
<1> DEFINE B == {n \in Nat : \A k \in S : k <= n}
<1>1. PICK n \in B : \A m \in B : n <= m
  BY LeastOf
<1>2. n - 1 \notin B
  BY <1>1
<1>3. n \in S
  <2>1. n \in Nat /\ \A k \in S : k \in Nat /\ k <= n
    BY <1>1
  <2>2. SUFFICES ASSUME n \notin S PROVE n - 1 \in B
    BY <1>2
  <2>3. \A k \in S : k <= n - 1
    BY <2>1, <2>2
  <2>4. n - 1 \in Nat
    <3>1. PICK k \in S : k \in Nat /\ k <= n - 1
      BY <2>1, <2>3
    <3> QED
      BY <2>1, <3>1
  <2> QED
    BY <2>3, <2>4
<1> QED
  BY <1>1, <1>3

(* The greatest height of a client exists.                                 *)
LEMMA LatestKnown ==
    ASSUME TypeOK, Behind, NEW c \in Chain
    PROVE  /\ Latest(c) \in Known(c) /\ Latest(c) \in Nat
           /\ \A h \in Known(c) : h <= Latest(c)
<1>1. Known(c) \in SUBSET Nat /\ Peer(c) \in Chain /\ height[Peer(c)] \in Nat
  BY DEF TypeOK, Known, Update, Chain, Peer
<1>2. \E n \in Known(c) : \A k \in Known(c) : k <= n
  BY <1>1, GreatestOf DEF Behind
<1> QED
  BY <1>1, <1>2 DEF Latest

(* A delay that has elapsed stays elapsed.                                 *)
LEMMA ElapsedStays ==
    ASSUME NEW c \in Chain, NEW u \in Update, NEW h \in Nat, NEW k \in Nat, h <= k,
           DelayElapsed(c, u, h)
    PROVE  DelayElapsed(c, u, k)
<1>1. u.block \in Nat /\ Genesis[c] \in Nat /\ Delay \in Nat /\ BlockTime \in Nat
  BY ReadyAssumption DEF Update
<1>2. Time(c, h) \in Nat /\ Time(c, k) \in Nat /\ Time(c, h) <= Time(c, k) /\ Time(c, u.block) \in Nat
  BY <1>1 DEF Time
<1>3. BlockDelay(Delay) \in Int
  BY <1>1 DEF BlockDelay
<1> HIDE DEF Time, BlockDelay
<1> QED
  BY <1>1, <1>2, <1>3 DEF DelayElapsed

(* A delay is a number of blocks, rounded up.                              *)
LEMMA BlockDelayNat == ASSUME NEW d \in Nat PROVE BlockDelay(d) \in Nat
<1>1. BlockTime \in Nat
  BY ReadyAssumption
<1>2. CASE BlockTime = 0
  BY <1>2 DEF BlockDelay
<1>3. CASE BlockTime # 0
  <2>1. d + BlockTime - 1 \in Nat /\ BlockTime \in Nat /\ BlockTime > 0
    BY <1>1, <1>3
  <2>2. (d + BlockTime - 1) \div BlockTime \in Nat
    BY <2>1
  <2> QED
    BY <1>3, <2>2 DEF BlockDelay
<1> QED
  BY <1>2, <1>3

(* A delay that has elapsed began before.                                  *)
LEMMA ElapsedNotBefore ==
    ASSUME NEW c \in Chain, NEW u \in Update, NEW h \in Nat, DelayElapsed(c, u, h)
    PROVE  u.block <= h
<1>1. BlockDelay(Delay) \in Nat
  BY ReadyAssumption, BlockDelayNat
<1> QED
  BY <1>1 DEF DelayElapsed, Update

LEMMA InitInv == Init => RInv
<1> SUFFICES ASSUME Init PROVE RInv
  OBVIOUS
<1>1. TypeOK
  <2>1. updates \in [Chain -> SUBSET Update]
    BY DEF Init, Update
  <2>2. /\ sentAt \in [Packet -> Nat] /\ receivedAt \in [Packet -> Nat] /\ settled \subseteq Packet
        /\ ackAt \in [Returning -> Nat] /\ ackSettled \subseteq Returning
    BY DEF Init
  <2>3. /\ height \in [Chain -> Nat] /\ closedAt \in [Chain -> Nat] /\ readAt \in [Chain -> Nat]
        /\ endState \in [Chain -> {"Open", "Closed"}]
    BY DEF Init
  <2> QED
    BY <2>1, <2>2, <2>3 DEF Init, TypeOK, Steps
<1>2. Behind
  BY DEF Init, Behind, Known, Chain, Peer
<1>3. ReceivedInOrder /\ Handled /\ Collected
  BY DEF Init, ReceivedInOrder, Handled, Collected, Collecting, Chain
<1> QED
  BY <1>1, <1>2, <1>3 DEF RInv

-------------------------------------------------------------------------------
(* The chains and the other relayers go on during the call: what they add  *)
(* is later than the heights read, so what has been collected stands.      *)
Onward ==
    /\ UNCHANGED <<callVars, ordered>>
    /\ \A c \in Chain : height[c] <= height'[c] /\ updates[c] \subseteq updates'[c]
    /\ \A p \in Packet : sentAt[p] # 0 => sentAt'[p] = sentAt[p]
    /\ \A q \in Returning : ackAt[q] # 0 => ackAt'[q] = ackAt[q]
    /\ \A p \in Packet :
          \/ receivedAt'[p] = receivedAt[p]
          \/ readAt["sink"] < receivedAt'[p] /\ ~timed_out(p)

LEMMA OnwardKeeps ==
    ASSUME RInv, TypeOK', Behind', ReceivedInOrder', Onward
    PROVE  RInv'
<1>1. /\ UNCHANGED <<pc, readAt, next_sequence_recv, seqs, acks, messages, timeouts, ordered>>
      /\ TypeOK /\ Handled /\ Collected
      /\ "sink" \in Chain
  BY DEF Onward, callVars, reads, results, RInv, Chain
<1>2. \A p : timed_out(p)' <=> timed_out(p)
  BY <1>1 DEF timed_out, Time
<1>3. /\ seqs \subseteq Packet /\ acks \subseteq Returning
      /\ readAt["sink"] \in Nat /\ height["sink"] \in Nat /\ height'["sink"] \in Nat
      /\ updates["sink"] \subseteq Update /\ messages \subseteq RelayMsg
      /\ \A p \in Packet : receivedAt[p] \in Nat /\ receivedAt'[p] \in Nat
  BY <1>1 DEF TypeOK
<1>4. Handled'
  <2>1. pc \in {"unreceived", "packets"} => \A p \in seqs : sentAt'[p] # 0
    BY <1>1, <1>3 DEF Handled, Onward
  <2>2. pc = "packets" => \A p \in seqs : /\ ~(receivedAt'[p] \in 1..readAt["sink"])
                                          /\ timed_out(p) => receivedAt'[p] = 0
                                          /\ ordered => next_sequence_recv <= p
    BY <1>1, <1>3 DEF Handled, Onward
  <2>3. pc \in {"unreceived_acks", "ack_packets"} => \A q \in acks : ackAt'[q] # 0
    BY <1>1, <1>3 DEF Handled, Onward
  <2>4. pc \in {"client", "again", "commitments", "unreceived"} /\ ordered =>
            \A o \in Packet : o < next_sequence_recv => receivedAt'[o] # 0
    BY <1>1, <1>3 DEF Handled, Onward
  <2> QED
    BY <1>1, <1>2, <2>1, <2>2, <2>3, <2>4 DEF Handled
<1>5. ASSUME NEW m \in messages PROVE GoodMessage(m)'
  <2>1. GoodMessage(m) /\ m \in RelayMsg /\ m.kind \in {"MsgRecvPacket", "MsgAcknowledgement"}
    BY <1>1, <1>3 DEF Collected, RelayMsg
  <2>2. IF m.kind = "MsgRecvPacket"
        THEN m.seq \in Packet /\ ~timed_out(m.seq) /\ ~(receivedAt'[m.seq] \in 1..readAt["sink"])
        ELSE m.seq \in Returning
    BY <1>3, <2>1 DEF GoodMessage, Onward
  <2>3. CommittedAt(m)' = CommittedAt(m)
    <3>1. CommittedAt(m) # 0
      BY <2>1 DEF GoodMessage
    <3> QED
      BY <2>2, <3>1 DEF CommittedAt, Onward
  <2>4. PICK u \in updates["sink"] : u.of = m.proof /\ DelayElapsed("sink", u, height["sink"])
    BY <2>1 DEF GoodMessage
  <2>5. u \in updates'["sink"] /\ DelayElapsed("sink", u, height'["sink"])
    BY <1>1, <1>3, <2>4, ElapsedStays DEF Onward
  <2>6. CommittedAt(m)' \in 1..m.at
    BY <2>1, <2>3 DEF GoodMessage
  <2>7. \E v \in updates'["sink"] : v.of = m.proof /\ DelayElapsed("sink", v, height'["sink"])
    BY <2>4, <2>5
  <2> QED
    BY <1>1, <1>2, <2>2, <2>6, <2>7 DEF GoodMessage, DelayElapsed, Time
<1>6. ASSUME NEW m \in timeouts PROVE GoodTimeout(m)'
  <2>1. GoodTimeout(m) /\ "source" \in Chain
    BY <1>1 DEF Collected, Chain
  <2>2. PICK u \in updates["source"] :
            u.of = m.proof /\ DelayElapsed("source", u, height["source"])
    BY <2>1 DEF GoodTimeout
  <2>3. /\ u \in Update /\ height["source"] \in Nat /\ height'["source"] \in Nat
        /\ height["source"] <= height'["source"] /\ u \in updates'["source"]
    BY <1>1, <2>1, <2>2 DEF TypeOK, Onward
  <2>4. DelayElapsed("source", u, height'["source"])
    BY <2>1, <2>2, <2>3, ElapsedStays
  <2>5. \E v \in updates'["source"] : v.of = m.proof /\ DelayElapsed("source", v, height'["source"])
    BY <2>2, <2>3, <2>4
  <2>6. receivedAt'[m.seq] = 0
    BY <2>1 DEF GoodTimeout, Onward
  <2>7. Expired(m.seq, m.proof)' <=> Expired(m.seq, m.proof)
    BY DEF Expired, Time
  <2>8. ordered' => m.next <= m.seq
    BY <1>1, <2>1 DEF GoodTimeout
  <2> QED
    BY <1>2, <2>1, <2>5, <2>6, <2>7, <2>8 DEF GoodTimeout, DelayElapsed, Time
<1>7. Collected'
  BY <1>1, <1>5, <1>6 DEF Collected
<1> QED
  BY <1>4, <1>7 DEF RInv

(* A block takes no height that was read, and no client, ahead.            *)
LEMMA Longer ==
    ASSUME TypeOK, Behind, NEW c \in Chain, Extend(c), UNCHANGED <<updates, readAt>>
    PROVE  /\ height' \in [Chain -> Nat] /\ Behind'
           /\ \A d \in Chain : height[d] <= height'[d]
<1>1. height' \in [Chain -> Nat] /\ \A d \in Chain : height[d] <= height'[d]
  BY DEF TypeOK, Extend
<1>2. \A d \in Chain : Known(d)' = Known(d) /\ Known(d) \subseteq Nat /\ Peer(d) \in Chain
  BY DEF Known, TypeOK, Update, Peer, Chain
<1>3. \A d \in Chain : height[d] \in Nat /\ height'[d] \in Nat /\ readAt[d] \in Nat
  BY <1>1 DEF TypeOK
<1> QED
  BY <1>1, <1>2, <1>3 DEF Behind

LEMMA BlockOnward ==
    ASSUME RInv, NEW c \in Chain, Extend(c), UNCHANGED <<updates, callVars, receivedAt, ordered>>,
           TypeOK',
           \A p \in Packet : sentAt[p] # 0 => sentAt'[p] = sentAt[p],
           \A q \in Returning : ackAt[q] # 0 => ackAt'[q] = ackAt[q]
    PROVE  RInv'
<1>1. Behind' /\ \A d \in Chain : height[d] <= height'[d]
  BY Longer DEF RInv, callVars, reads
<1>2. ReceivedInOrder'
  BY DEF RInv, ReceivedInOrder
<1>3. Onward
  BY <1>1 DEF Onward
<1> QED
  BY <1>1, <1>2, <1>3, OnwardKeeps

(* A packet is received after what was read, and not if it is too late.    *)
LEMMA ReceiveInv == ASSUME RInv, NEW p \in Packet, Receive(p) PROVE RInv'
<1>1. /\ "sink" \in Chain /\ Extend("sink") /\ receivedAt[p] = 0 /\ p \in Nat
      /\ receivedAt' = [receivedAt EXCEPT ![p] = height["sink"] + 1]
      /\ UNCHANGED <<ordered, opening, sentAt, settled, ackAt, ackSettled, updates, closedAt, callVars>>
      /\ ~Expired(p, height["sink"] + 1)
      /\ ordered => \A o \in Packet : o < p => receivedAt[o] # 0
  BY ReadyAssumption DEF Receive, Chain
<1>2. /\ TypeOK /\ Behind /\ ReceivedInOrder /\ receivedAt \in [Packet -> Nat]
      /\ height["sink"] \in Nat /\ readAt["sink"] \in Nat /\ readAt["sink"] <= height["sink"]
  BY <1>1 DEF RInv, TypeOK, Behind
<1>3. Behind' /\ height' \in [Chain -> Nat] /\ \A d \in Chain : height[d] <= height'[d]
  BY <1>1, <1>2, Longer DEF callVars, reads
<1>4. TypeOK'
  <2>1. receivedAt' \in [Packet -> Nat]
    BY <1>1, <1>2
  <2> QED
    BY <1>1, <1>2, <1>3, <2>1 DEF TypeOK, callVars, reads, results
<1>5. ReceivedInOrder'
  BY <1>1, <1>2 DEF ReceivedInOrder
<1>6. ~timed_out(p)
  <2>1. Genesis["sink"] \in Nat /\ TimeoutHeight[p] \in Nat /\ TimeoutTime[p] \in Nat
    BY <1>1, ReadyAssumption
  <2> QED
    BY <1>1, <1>2, <2>1 DEF timed_out, Expired, Time
<1>7. Onward
  <2>1. \A o \in Packet : \/ receivedAt'[o] = receivedAt[o]
                          \/ readAt["sink"] < receivedAt'[o] /\ ~timed_out(o)
    BY <1>1, <1>2, <1>6
  <2> QED
    BY <1>1, <1>3, <2>1 DEF Onward
<1> QED
  BY <1>3, <1>4, <1>5, <1>7, OnwardKeeps

(* A client keeps its heights.                                             *)
LEMMA UpdateInv ==
    ASSUME RInv, NEW c \in Chain, NEW h \in 1..height[Peer(c)], UpdateClient(c, h)
    PROVE  RInv'
<1> DEFINE u == [of |-> h, block |-> height[c] + 1]
<1>1. /\ Extend(c) /\ updates' = [updates EXCEPT ![c] = updates[c] \cup {u}]
      /\ UNCHANGED <<ordered, opening, sentAt, receivedAt, settled, ackAt, ackSettled, closedAt,
                     callVars>>
  BY DEF UpdateClient
<1>2. /\ TypeOK /\ Behind /\ ReceivedInOrder /\ height \in [Chain -> Nat]
      /\ updates \in [Chain -> SUBSET Update] /\ readAt \in [Chain -> Nat]
      /\ \A d \in Chain : Peer(d) \in Chain
  BY DEF RInv, TypeOK, Peer, Chain
<1>3. height' \in [Chain -> Nat] /\ \A d \in Chain : height[d] <= height'[d]
  BY <1>1, <1>2 DEF Extend
<1>4. u \in Update /\ u.of = h /\ h \in Nat /\ h <= height[Peer(c)]
  BY <1>2 DEF Update
<1> HIDE DEF u
<1>5. /\ updates' \in [Chain -> SUBSET Update] /\ updates'[c] = updates[c] \cup {u}
      /\ \A d \in Chain : d # c => updates'[d] = updates[d]
  BY <1>1, <1>2, <1>4
<1>6. TypeOK'
  BY <1>1, <1>2, <1>3, <1>5 DEF TypeOK, callVars, reads, results
<1>7. Known(c)' = Known(c) \cup {h} /\ \A d \in Chain : d # c => Known(d)' = Known(d)
  BY <1>4, <1>5 DEF Known
<1>8. Behind'
  <2>1. ASSUME NEW d \in Chain PROVE readAt'[d] <= height'[d]
    BY <1>1, <1>2, <1>3 DEF Behind, callVars, reads
  <2>2. ASSUME NEW d \in Chain, NEW g \in Known(d)' PROVE g <= height'[Peer(d)]
    <3>1. Known(d) \subseteq Nat /\ \A k \in Known(d) : k <= height[Peer(d)]
      BY <1>2 DEF Behind, Known, Update
    <3>2. g \in Nat /\ g <= height[Peer(d)]
      BY <1>4, <1>7, <3>1
    <3>3. /\ height[Peer(d)] \in Nat /\ height'[Peer(d)] \in Nat
          /\ height[Peer(d)] <= height'[Peer(d)]
      BY <1>2, <1>3
    <3> QED
      BY <3>2, <3>3
  <2>3. ASSUME NEW d \in Chain PROVE Known(d)' # {}
    BY <1>2, <1>7 DEF Behind
  <2> QED
    BY <2>1, <2>2, <2>3 DEF Behind
<1>9. ReceivedInOrder' /\ Onward
  <2>1. \A d \in Chain : updates[d] \subseteq updates'[d]
    BY <1>5
  <2> QED
    BY <1>1, <1>2, <1>3, <2>1 DEF ReceivedInOrder, Onward
<1> QED
  BY <1>6, <1>8, <1>9, OnwardKeeps

LEMMA ChainInv == ASSUME RInv, ChainStep PROVE RInv'
<1>1. /\ TypeOK /\ {"source", "sink"} = Chain
      /\ \A c \in Chain : Extend(c) /\ UNCHANGED <<updates, readAt>> =>
            height' \in [Chain -> Nat] /\ height[c] + 1 \in Nat
  BY Longer DEF RInv, Chain, TypeOK
<1>2. CASE Open
  <2>1. TypeOK'
    BY <1>1, <1>2 DEF Open, TypeOK, callVars, reads, results
  <2> QED
    BY <1>1, <1>2, <2>1, BlockOnward DEF Open
<1>3. ASSUME NEW c \in Chain, EmptyBlock(c) PROVE RInv'
  <2>1. TypeOK'
    BY <1>1, <1>3 DEF EmptyBlock, TypeOK, callVars, reads, results
  <2> QED
    BY <1>3, <2>1, BlockOnward DEF EmptyBlock
<1>4. ASSUME NEW c \in Chain, Close(c) PROVE RInv'
  <2>1. TypeOK'
    BY <1>1, <1>4 DEF Close, TypeOK, callVars, reads, results
  <2> QED
    BY <1>4, <2>1, BlockOnward DEF Close
<1>5. ASSUME NEW p \in Packet, Send(p) PROVE RInv'
  <2>1. TypeOK'
    BY <1>1, <1>5 DEF Send, TypeOK, callVars, reads, results
  <2>2. \A o \in Packet : sentAt[o] # 0 => sentAt'[o] = sentAt[o]
    BY <1>1, <1>5 DEF Send, TypeOK
  <2> QED
    BY <1>1, <1>5, <2>1, <2>2, BlockOnward DEF Send
<1>6. ASSUME NEW p \in Packet, Settle(p) PROVE RInv'
  <2>1. closedAt' \in [Chain -> Nat]
    BY <1>1, <1>6 DEF Settle, TypeOK, callVars, reads
  <2>2. TypeOK'
    BY <1>1, <1>6, <2>1 DEF Settle, TypeOK, callVars, reads, results
  <2> QED
    BY <1>1, <1>6, <2>2, BlockOnward DEF Settle
<1>7. ASSUME NEW q \in Returning, WriteAck(q) PROVE RInv'
  <2>1. TypeOK'
    BY <1>1, <1>7 DEF WriteAck, TypeOK, callVars, reads, results
  <2>2. \A o \in Returning : ackAt[o] # 0 => ackAt'[o] = ackAt[o]
    BY <1>1, <1>7 DEF WriteAck, TypeOK
  <2> QED
    BY <1>1, <1>7, <2>1, <2>2, BlockOnward DEF WriteAck
<1>8. ASSUME NEW q \in Returning, SettleAck(q) PROVE RInv'
  <2>1. TypeOK'
    BY <1>1, <1>8 DEF SettleAck, TypeOK, callVars, reads, results
  <2> QED
    BY <1>1, <1>8, <2>1, BlockOnward DEF SettleAck
<1> QED
  BY <1>2, <1>3, <1>4, <1>5, <1>6, <1>7, <1>8, ReceiveInv, UpdateInv DEF ChainStep

-------------------------------------------------------------------------------
(* The call.  A step that collects nothing keeps what has been collected.  *)
LEMMA CallKeeps ==
    ASSUME RInv, UNCHANGED chainVars, TypeOK', Handled',
           \/ readAt' = readAt
           \/ pc \notin Collecting /\ \A c \in Chain : readAt'[c] <= height[c],
           \/ messages' = messages /\ timeouts' = timeouts
           \/ messages' = {} /\ timeouts' = {},
           pc' \notin Collecting => pc \notin Collecting
    PROVE  RInv'
<1>1. /\ TypeOK /\ Behind /\ ReceivedInOrder /\ Collected
      /\ UNCHANGED <<height, ordered, sentAt, receivedAt, ackAt, updates>>
  BY DEF RInv, chainVars
<1>2. Behind'
  BY <1>1 DEF Behind, Known
<1>3. ReceivedInOrder'
  BY <1>1 DEF ReceivedInOrder
<1>4. Collected'
  <2>1. CASE messages' = {} /\ timeouts' = {}
    BY <2>1 DEF Collected
  <2>2. CASE messages' = messages /\ timeouts' = timeouts /\ pc \notin Collecting
    BY <1>1, <2>2 DEF Collected
  <2>3. CASE messages' = messages /\ timeouts' = timeouts /\ readAt' = readAt /\ pc \in Collecting
    <3>1. \A p : timed_out(p)' <=> timed_out(p)
      BY <2>3 DEF timed_out, Time
    <3>2. \A m \in messages : GoodMessage(m)'
      BY <1>1, <2>3, <3>1 DEF Collected, GoodMessage, CommittedAt, DelayElapsed, Time
    <3>3. \A m \in timeouts : GoodTimeout(m)'
      BY <1>1, <2>3, <3>1 DEF Collected, GoodTimeout, Expired, DelayElapsed, Time
    <3> QED
      BY <2>3, <3>2, <3>3 DEF Collected
  <2> QED
    BY <2>1, <2>2, <2>3
<1> QED
  BY <1>2, <1>3, <1>4 DEF RInv

(* The queries before anything is collected.                               *)
LEMMA QueriesInv ==
    ASSUME RInv,
           \/ ReadHeight("source", "sink") \/ ReadHeight("sink", "channel")
           \/ ReadChannel \/ ReadCounterparty \/ ReadClient \/ ReadOtherClient
    PROVE  RInv'
<1>1. /\ TypeOK /\ Behind /\ UNCHANGED <<chainVars, seqs, acks, messages, timeouts, missed>>
      /\ pc \notin Collecting
      /\ pc' \in {"sink", "channel", "counterparty", "client", "again", "commitments", "done"}
  BY DEF RInv, ReadHeight, ReadChannel, ReadCounterparty, ReadClient, ReadOtherClient, results,
         Collecting
<1>2. \/ readAt' = readAt
      \/ \E c \in Chain : readAt' = [readAt EXCEPT ![c] = height[c]]
  BY DEF ReadHeight, ReadChannel, ReadCounterparty, ReadClient, ReadOtherClient, Chain
<1>3. readAt' \in [Chain -> Nat] /\ \A c \in Chain : readAt'[c] <= height[c]
  BY <1>1, <1>2 DEF TypeOK, Behind
<1>4. endState' \in [Chain -> {"Open", "Closed"}]
  BY <1>1 DEF ReadHeight, ReadChannel, ReadCounterparty, ReadClient, ReadOtherClient, TypeOK, EndOf
<1>5. latestOnSink' \in Nat /\ latestOnSource' \in Nat
  <2>1. Latest("sink") \in Nat
    BY <1>1, LatestKnown DEF Chain
  <2> QED
    BY <1>1, <2>1
       DEF ReadHeight, ReadChannel, ReadCounterparty, ReadClient, ReadOtherClient, TypeOK
<1>6. TypeOK'
  <2>1. next_sequence_recv' \in Nat
    BY <1>1, ReadyAssumption
       DEF ReadHeight, ReadChannel, ReadCounterparty, ReadClient, ReadOtherClient, TypeOK
  <2> QED
    BY <1>1, <1>3, <1>4, <1>5, <2>1 DEF TypeOK, chainVars, Steps
<1>7. Handled'
  <2>1. UNCHANGED <<receivedAt, ordered>>
    BY <1>1 DEF chainVars
  <2>2. pc' \in {"client", "again", "commitments"} /\ ordered =>
            \A o \in Packet : o < next_sequence_recv' => receivedAt[o] # 0
    BY <1>1 DEF RInv, Handled, ReadHeight, ReadChannel, ReadCounterparty, ReadClient, ReadOtherClient
  <2> QED
    BY <1>1, <2>1, <2>2 DEF Handled
<1> QED
  BY <1>1, <1>3, <1>6, <1>7, CallKeeps

(* Receipts are read after sink's height: a packet that is not among them  *)
(* was not received by that height, and if it had timed out by then it     *)
(* cannot be any more.                                                     *)
LEMMA SequencesInv == ASSUME RInv, ReadCommitments \/ ReadUnreceived PROVE RInv'
<1>1. TypeOK /\ ReceivedInOrder /\ Handled
  BY DEF RInv
<1>2. CASE ReadCommitments
  <2>1. /\ UNCHANGED <<chainVars, reads, acks, results>> /\ pc = "commitments"
        /\ pc' = "unreceived" /\ seqs' \subseteq Packet /\ \A p \in seqs' : sentAt[p] # 0
    BY <1>2 DEF ReadCommitments
  <2>2. TypeOK' /\ Handled'
    BY <1>1, <2>1 DEF TypeOK, Handled, chainVars, reads, results, Steps
  <2> QED
    BY <2>1, <2>2, CallKeeps DEF reads, results, Collecting
<1>3. CASE ReadUnreceived
  <2>1. /\ UNCHANGED <<chainVars, reads, acks, results>> /\ pc = "unreceived" /\ pc' = "packets"
        /\ seqs' \subseteq seqs
        /\ \A p \in seqs' : p \in Packet /\ IF ordered THEN AfterNext(p) ELSE receivedAt[p] = 0
    BY <1>1, <1>3 DEF ReadUnreceived, TypeOK
  <2>2. \A p \in seqs' : receivedAt[p] = 0 /\ (ordered => next_sequence_recv <= p)
    <3>1. ordered => \A o \in Packet : receivedAt[o] = 0 => ~(o < next_sequence_recv)
      BY <1>1, <1>3 DEF Handled, ReadUnreceived
    <3>2. next_sequence_recv \in Nat /\ \A o \in Packet : o \in Nat
      BY <1>1, ReadyAssumption DEF TypeOK
    <3> QED
      BY <1>1, <2>1, <3>1, <3>2 DEF ReceivedInOrder, AfterNext
  <2>3. TypeOK' /\ Handled'
    BY <1>1, <2>1, <2>2 DEF TypeOK, Handled, chainVars, reads, results, Steps
  <2> QED
    BY <2>1, <2>3, CallKeeps DEF reads, results, Collecting
<1> QED
  BY <1>2, <1>3

(* Steps that take something off the lists, or go on to the next one.      *)
LEMMA PassInv ==
    ASSUME RInv, UNCHANGED <<chainVars, reads>>, TypeOK',
           pc \in Steps, pc \in Collecting \/ pc' = "failed",
           \/ pc' \in {"acks", "done", "failed"}
           \/ pc' = pc /\ seqs' \subseteq seqs /\ acks' \subseteq acks
           \/ pc' = "unreceived_acks" /\ \A q \in acks' : ackAt[q] # 0
           \/ pc = "unreceived_acks" /\ pc' = "ack_packets" /\ acks' \subseteq acks,
           \/ messages' = messages /\ timeouts' = timeouts
           \/ messages' = {} /\ timeouts' = {}
    PROVE  RInv'
<1>1. UNCHANGED <<readAt, next_sequence_recv, height, ordered, sentAt, receivedAt, ackAt>> /\ Handled
  BY DEF reads, chainVars, RInv
<1>2. \A p : timed_out(p)' <=> timed_out(p)
  BY <1>1 DEF timed_out, Time
<1>3. Handled'
  BY <1>1, <1>2 DEF Handled
<1> QED
  BY <1>1, <1>3, CallKeeps DEF Collecting

LEMMA PassStepsInv ==
    ASSUME RInv,
           \/ \E p \in Packet : PeriodOverflow(p) \/ PassOver(p)
           \/ \E q \in Returning : PassOverAck(q)
           \/ PacketsHandled \/ ReadAcks \/ ReadUnreceivedAcks \/ AcksHandled
           \/ LookupFails \/ QueryFails
    PROVE  RInv'
<1>1. /\ TypeOK /\ seqs \subseteq Packet /\ acks \subseteq Returning
      /\ \A p \in seqs : seqs \ {p} \subseteq seqs
  BY DEF RInv, TypeOK
<1>2. ASSUME NEW p \in Packet, PeriodOverflow(p) PROVE RInv'
  <2>1. TypeOK'
    BY <1>1, <1>2 DEF PeriodOverflow, Fail, TypeOK, chainVars, reads
  <2> QED
    BY <1>1, <1>2, <2>1, PassInv DEF PeriodOverflow, Fail, AtPacket, Steps, Collecting
<1>3. ASSUME NEW p \in Packet, PassOver(p) PROVE RInv'
  <2>1. TypeOK'
    BY <1>1, <1>3 DEF PassOver, TypeOK, chainVars, reads, results
  <2> QED
    BY <1>1, <1>3, <2>1, PassInv DEF PassOver, AtPacket, results, Steps, Collecting
<1>4. ASSUME NEW q \in Returning, PassOverAck(q) PROVE RInv'
  <2>1. TypeOK'
    BY <1>1, <1>4 DEF PassOverAck, TypeOK, chainVars, reads, results
  <2> QED
    BY <1>1, <1>4, <2>1, PassInv DEF PassOverAck, AtAck, results, Steps, Collecting
<1>5. CASE PacketsHandled \/ AcksHandled
  <2>1. TypeOK'
    BY <1>1, <1>5 DEF PacketsHandled, AcksHandled, TypeOK, chainVars, reads, results, Steps
  <2> QED
    BY <1>1, <1>5, <2>1, PassInv DEF PacketsHandled, AcksHandled, results, Steps, Collecting
<1>6. CASE ReadAcks
  <2>1. acks' \subseteq Returning /\ \A q \in acks' : ackAt[q] # 0
    BY <1>6 DEF ReadAcks
  <2>2. TypeOK'
    BY <1>1, <1>6, <2>1 DEF ReadAcks, TypeOK, chainVars, reads, results, Steps
  <2> QED
    BY <1>1, <1>6, <2>1, <2>2, PassInv DEF ReadAcks, results, Steps, Collecting
<1>7. CASE ReadUnreceivedAcks
  <2>1. acks' \subseteq acks
    BY <1>7 DEF ReadUnreceivedAcks
  <2>2. TypeOK'
    BY <1>1, <1>7, <2>1 DEF ReadUnreceivedAcks, TypeOK, chainVars, reads, results, Steps
  <2> QED
    BY <1>1, <1>7, <2>1, <2>2, PassInv DEF ReadUnreceivedAcks, results, Steps, Collecting
<1>8. CASE LookupFails
  <2>1. seqs' \subseteq seqs /\ acks' \subseteq acks /\ pc \in {"packets", "ack_packets"}
    BY <1>8 DEF LookupFails, AtPacket, AtAck
  <2>2. TypeOK'
    BY <1>1, <1>8, <2>1 DEF LookupFails, TypeOK, chainVars, reads
  <2> QED
    BY <1>1, <1>8, <2>1, <2>2, PassInv DEF LookupFails, Steps, Collecting
<1>9. CASE QueryFails
  <2>1. TypeOK'
    BY <1>1, <1>9 DEF QueryFails, Fail, TypeOK, chainVars, reads
  <2> QED
    BY <1>1, <1>9, <2>1, PassInv DEF QueryFails, Fail
<1> QED
  BY <1>2, <1>3, <1>4, <1>5, <1>6, <1>7, <1>8, <1>9

-------------------------------------------------------------------------------
(* The halving, as a function of the width of the range, is defined by its *)
(* recursion, and what it finds is suitable and in the range.              *)
Halves(c, time, w) ==
    CHOOSE find :
        find = [n \in 0..w |->
                   [start \in Nat |-> [last \in Nat |-> Halve(c, time, find, n, start, last)]]]

Row(c, time, f, n) == [start \in Nat |-> [last \in Nat |-> Halve(c, time, f, n, start, last)]]

LEMMA HalvesSmaller ==
    ASSUME NEW n \in Nat, n > 1
    PROVE  /\ n - 1 \in 0..(n - 1) /\ n - n \div 2 - 1 \in 0..(n - 1) /\ n \div 2 \in 0..(n - 1)
OBVIOUS

(* A row is made of the rows before it.                                    *)
LEMMA RowOfEarlier ==
    ASSUME NEW c, NEW time, NEW f, NEW g, NEW n \in Nat, \A m \in 0..(n - 1) : f[m] = g[m]
    PROVE  Row(c, time, f, n) = Row(c, time, g, n)
<1>1. ASSUME NEW start \in Nat, NEW last \in Nat
      PROVE  Halve(c, time, f, n, start, last) = Halve(c, time, g, n, start, last)
  <2>1. CASE n <= 1
    BY <2>1 DEF Halve
  <2>2. CASE n > 1
    <3>1. f[n - 1] = g[n - 1] /\ f[n - n \div 2 - 1] = g[n - n \div 2 - 1] /\ f[n \div 2] = g[n \div 2]
      BY <2>2, HalvesSmaller
    <3> QED
      BY <3>1 DEF Halve
  <2> QED
    BY <2>1, <2>2
<1> QED
  BY <1>1 DEF Row

LEMMA HalvesDefined ==
    ASSUME NEW c, NEW time, NEW w \in Nat
    PROVE  Halves(c, time, w) = [n \in 0..w |-> Row(c, time, Halves(c, time, w), n)]
<1> DEFINE UpTo(k) == \E f : /\ f = [n \in 0..w |-> f[n]]
                             /\ \A n \in 0..k : n <= w => f[n] = Row(c, time, f, n)
           Bad == {k \in Nat : ~UpTo(k)}
<1>1. UpTo(0)
  <2> DEFINE f == [n \in 0..w |-> Row(c, time, <<>>, 0)]
  <2>1. f[0] = Row(c, time, <<>>, 0)
    OBVIOUS
  <2>2. Row(c, time, <<>>, 0) = Row(c, time, f, 0)
    BY RowOfEarlier
  <2>3. f = [n \in 0..w |-> f[n]]
    OBVIOUS
  <2> HIDE DEF f
  <2>4. \A n \in 0..0 : n <= w => f[n] = Row(c, time, f, n)
    BY <2>1, <2>2
  <2> QED
    BY <2>3, <2>4
<1>2. ASSUME NEW k \in Nat, UpTo(k) PROVE UpTo(k + 1)
  <2>1. PICK f : /\ f = [n \in 0..w |-> f[n]]
                 /\ \A n \in 0..k : n <= w => f[n] = Row(c, time, f, n)
    BY <1>2
  <2> DEFINE r == Row(c, time, f, k + 1)
             g == [n \in 0..w |-> IF n = k + 1 THEN r ELSE f[n]]
  <2>2. /\ g = [n \in 0..w |-> g[n]]
        /\ \A n \in 0..w : g[n] = IF n = k + 1 THEN r ELSE f[n]
    OBVIOUS
  <2> HIDE DEF g
  <2>3. ASSUME NEW n \in 0..(k + 1), n <= w PROVE g[n] = Row(c, time, g, n)
    <3>1. \A m \in 0..(n - 1) : f[m] = g[m]
      BY <2>2, <2>3
    <3>2. Row(c, time, f, n) = Row(c, time, g, n)
      BY <3>1, RowOfEarlier
    <3>3. g[n] = Row(c, time, f, n)
      <4>1. CASE n = k + 1
        BY <2>2, <2>3, <4>1
      <4>2. CASE n # k + 1
        BY <2>1, <2>2, <2>3, <4>2
      <4> QED
        BY <4>1, <4>2
    <3> QED
      BY <3>2, <3>3
  <2> QED
    BY <2>2, <2>3
<1>3. UpTo(w)
  <2> HIDE DEF UpTo
  <2>1. SUFFICES ASSUME Bad # {} PROVE FALSE
    OBVIOUS
  <2>2. PICK k \in Bad : \A j \in Bad : k <= j
    BY <2>1, LeastOf
  <2>3. k # 0 /\ k - 1 \in Nat
    BY <1>1, <2>2
  <2>4. UpTo(k - 1)
    BY <2>2, <2>3
  <2>5. UpTo(k - 1 + 1)
    BY <1>2, <2>3, <2>4
  <2> QED
    BY <2>2, <2>5
<1>4. PICK f : /\ f = [n \in 0..w |-> f[n]]
               /\ \A n \in 0..w : n <= w => f[n] = Row(c, time, f, n)
  BY <1>3
<1>5. f = [n \in 0..w |-> Row(c, time, f, n)]
  BY <1>4
<1>6. f = [n \in 0..w |->
             [start \in Nat |-> [last \in Nat |-> Halve(c, time, f, n, start, last)]]]
  BY <1>5 DEF Row
<1>7. Halves(c, time, w) =
          [n \in 0..w |->
             [start \in Nat |-> [last \in Nat |-> Halve(c, time, Halves(c, time, w), n, start, last)]]]
  BY <1>6 DEF Halves
<1> QED
  BY <1>7 DEF Row

(* What it returns is what it was given as the last valid height, or a     *)
(* suitable height of the range.                                           *)
LEMMA HalvesFind ==
    ASSUME NEW c, NEW time, NEW w \in Nat, NEW n \in 0..w, NEW start \in Nat, NEW last \in Nat,
           NEW h, h = Halves(c, time, w)[n][start][last]
    PROVE  h = last \/ (h \in start..(start + n) /\ Suitable(c, time, h))
<1> DEFINE f == Halves(c, time, w)
           Good(m) == \A s \in Nat, l \in Nat :
               \/ f[m][s][l] = l
               \/ f[m][s][l] \in s..(s + m) /\ Suitable(c, time, f[m][s][l])
           Bad == {m \in 0..w : ~Good(m)}
<1>1. \A m \in 0..w : \A s \in Nat, l \in Nat : f[m][s][l] = Halve(c, time, f, m, s, l)
  <2>1. f = [m \in 0..w |-> Row(c, time, f, m)]
    BY HalvesDefined
  <2> HIDE DEF f
  <2>2. \A m \in 0..w : f[m] = Row(c, time, f, m)
    BY <2>1
  <2>3. ASSUME NEW m \in 0..w, NEW s \in Nat, NEW l \in Nat
        PROVE  f[m][s][l] = Halve(c, time, f, m, s, l)
    <3>1. Row(c, time, f, m)[s] = [x \in Nat |-> Halve(c, time, f, m, s, x)]
      BY DEF Row
    <3> QED
      BY <2>2, <3>1
  <2> QED
    BY <2>3
<1> HIDE DEF f
<1>2. ASSUME NEW m \in 0..w, \A k \in 0..(m - 1) : Good(k)
      PROVE  Good(m)
  <2> SUFFICES ASSUME NEW s \in Nat, NEW l \in Nat
               PROVE  \/ f[m][s][l] = l
                      \/ f[m][s][l] \in s..(s + m) /\ Suitable(c, time, f[m][s][l])
    OBVIOUS
  <2>1. f[m][s][l] = Halve(c, time, f, m, s, l)
    BY <1>1
  <2>2. CASE m <= 1
    BY <2>1, <2>2 DEF Halve
  <2>3. CASE m > 1
    <3> DEFINE mid == s + m \div 2
    <3>1. /\ m - 1 \in 0..(m - 1) /\ m - m \div 2 - 1 \in 0..(m - 1) /\ m \div 2 \in 0..(m - 1)
          /\ mid \in Nat /\ s + 1 \in Nat /\ mid + 1 \in Nat
      BY <2>3, HalvesSmaller
    <3>2. CASE mid \notin Known(c)
      <4>1. f[m][s][l] = f[m - 1][s + 1][l]
        BY <2>1, <2>3, <3>2 DEF Halve
      <4>2. \/ f[m - 1][s + 1][l] = l
            \/ /\ f[m - 1][s + 1][l] \in (s + 1)..(s + 1 + (m - 1))
               /\ Suitable(c, time, f[m - 1][s + 1][l])
        BY <1>2, <3>1
      <4>3. (s + 1)..(s + 1 + (m - 1)) \subseteq s..(s + m)
        OBVIOUS
      <4> QED
        BY <4>1, <4>2, <4>3
    <3>3. CASE mid \in Known(c) /\ ~Suitable(c, time, mid)
      <4> DEFINE k == m - m \div 2 - 1
      <4>1. f[m][s][l] = f[k][mid + 1][l]
        BY <2>1, <2>3, <3>3 DEF Halve
      <4>2. \/ f[k][mid + 1][l] = l
            \/ /\ f[k][mid + 1][l] \in (mid + 1)..(mid + 1 + k)
               /\ Suitable(c, time, f[k][mid + 1][l])
        BY <1>2, <3>1
      <4>3. (mid + 1)..(mid + 1 + k) \subseteq s..(s + m)
        BY <2>3
      <4> HIDE DEF k, mid
      <4> QED
        BY <4>1, <4>2, <4>3
    <3>4. CASE mid \in Known(c) /\ Suitable(c, time, mid)
      <4> DEFINE k == m \div 2
      <4>1. f[m][s][l] = f[k][s][mid]
        BY <2>1, <2>3, <3>4 DEF Halve
      <4>2. \/ f[k][s][mid] = mid
            \/ f[k][s][mid] \in s..(s + k) /\ Suitable(c, time, f[k][s][mid])
        BY <1>2, <3>1
      <4>3. s..(s + k) \subseteq s..(s + m) /\ mid \in s..(s + m)
        BY <2>3
      <4> HIDE DEF k, mid
      <4> QED
        BY <3>4, <4>1, <4>2, <4>3
    <3> QED
      BY <3>2, <3>3, <3>4
  <2> QED
    BY <2>2, <2>3
<1>3. Bad = {}
  <2> HIDE DEF Good
  <2>1. SUFFICES ASSUME Bad # {} PROVE FALSE
    OBVIOUS
  <2>2. Bad \in SUBSET Nat
    OBVIOUS
  <2> HIDE DEF Bad
  <2>3. PICK m \in Bad : \A j \in Bad : m <= j
    BY <2>1, <2>2, LeastOf
  <2>4. m \in 0..w /\ ~Good(m)
    BY <2>3 DEF Bad
  <2>5. \A k \in 0..(m - 1) : Good(k)
    BY <2>3, <2>4 DEF Bad
  <2> QED
    BY <1>2, <2>4, <2>5
<1>4. Good(n)
  BY <1>3
<1> QED
  BY <1>4 DEF f

LEMMA HalvingFinds ==
    ASSUME NEW c, NEW time, NEW lo \in Nat, NEW hi \in Nat, Halving(c, time, lo, hi) # 0
    PROVE  /\ Halving(c, time, lo, hi) \in lo..hi
           /\ Suitable(c, time, Halving(c, time, lo, hi))
<1>1. lo <= hi /\ hi - lo \in Nat /\ hi - lo \in 0..(hi - lo)
  BY DEF Halving
<1>2. Halving(c, time, lo, hi) = Halves(c, time, hi - lo)[hi - lo][lo][0]
  BY <1>1 DEF Halving, Halves
<1> QED
  BY <1>1, <1>2, HalvesFind

-------------------------------------------------------------------------------
(* The steps that collect.                                                 *)
LEMMA CollectKeeps ==
    ASSUME RInv, UNCHANGED <<chainVars, reads, pc>>, TypeOK',
           pc \in Collecting, seqs' \subseteq seqs, acks' \subseteq acks,
           \A m \in messages' \ messages : GoodMessage(m),
           \A m \in timeouts' \ timeouts : GoodTimeout(m)
    PROVE  RInv'
<1>1. /\ UNCHANGED <<readAt, next_sequence_recv, height, ordered, sentAt, receivedAt, ackAt, updates>>
      /\ Behind /\ ReceivedInOrder /\ Handled /\ Collected
  BY DEF reads, chainVars, RInv
<1>2. \A p : timed_out(p)' <=> timed_out(p)
  BY <1>1 DEF timed_out, Time
<1>3. Handled'
  BY <1>1, <1>2 DEF Handled
<1>4. \A m : GoodMessage(m)' <=> GoodMessage(m)
  BY <1>1, <1>2 DEF GoodMessage, CommittedAt, DelayElapsed, Time
<1>5. \A m : GoodTimeout(m)' <=> GoodTimeout(m)
  BY <1>1, <1>2 DEF GoodTimeout, Expired, DelayElapsed, Time
<1>6. Collected'
  BY <1>1, <1>4, <1>5 DEF Collected
<1>7. Behind' /\ ReceivedInOrder'
  BY <1>1 DEF Behind, Known, ReceivedInOrder
<1> QED
  BY <1>3, <1>6, <1>7 DEF RInv

(* A height at which the delay had passed when sink's height was read.     *)
LEMMA Provable ==
    ASSUME TypeOK, Behind, NEW at \in Nat, at # 0, NEW h \in RelayHeights(at)
    PROVE  /\ h \in Nat /\ at \in 1..h
           /\ \E u \in updates["sink"] : u.of = h /\ DelayElapsed("sink", u, height["sink"])
<1>1. h \in Known("sink") /\ h \in at..latestOnSink /\ verify_delay_passed("sink", h)
  BY DEF RelayHeights
<1>2. /\ "sink" \in Chain /\ updates["sink"] \subseteq Update /\ latestOnSink \in Nat
      /\ readAt["sink"] \in Nat /\ height["sink"] \in Nat /\ readAt["sink"] <= height["sink"]
  BY DEF TypeOK, Behind, Chain
<1>3. h \in Nat
  BY <1>1, <1>2 DEF Known, Update
<1>4. PICK u \in updates["sink"] : u.of = h /\ DelayElapsed("sink", u, readAt["sink"])
  BY <1>1 DEF verify_delay_passed
<1>5. DelayElapsed("sink", u, height["sink"])
  BY <1>2, <1>4, ElapsedStays
<1>6. at \in 1..h
  BY <1>1, <1>2, <1>3
<1> QED
  BY <1>3, <1>4, <1>5, <1>6

LEMMA AddRecvInv == ASSUME RInv, NEW p \in Packet, NEW h, AddRecv(p, h) PROVE RInv'
<1> DEFINE n == [kind |-> "MsgRecvPacket", seq |-> p, at |-> h, proof |-> h]
<1>1. /\ TypeOK /\ Behind /\ p \in Nat /\ sentAt[p] \in Nat
      /\ pc = "packets" /\ p \in seqs
      /\ sentAt[p] # 0 /\ ~(receivedAt[p] \in 1..readAt["sink"]) /\ ~timed_out(p)
      /\ h \in RelayHeights(sentAt[p])
      /\ messages' = messages \cup {n} /\ seqs' = seqs \ {p} /\ missed' \in BOOLEAN
      /\ UNCHANGED <<chainVars, pc, reads, acks, timeouts>>
  BY ReadyAssumption DEF AddRecv, AtPacket, Sendable, RInv, Handled, TypeOK
<1>2. /\ h \in Nat /\ sentAt[p] \in 1..h
      /\ \E u \in updates["sink"] : u.of = h /\ DelayElapsed("sink", u, height["sink"])
  BY <1>1, Provable
<1>3. GoodMessage(n)
  <2>1. CommittedAt(n) = sentAt[p]
    BY DEF CommittedAt
  <2> QED
    BY <1>1, <1>2, <2>1 DEF GoodMessage
<1>4. n \in RelayMsg
  BY <1>1, <1>2 DEF RelayMsg
<1> HIDE DEF n
<1>5. TypeOK'
  BY <1>1, <1>4 DEF TypeOK, chainVars, reads
<1> QED
  BY <1>1, <1>3, <1>5, CollectKeeps DEF Collecting

LEMMA AddAckInv == ASSUME RInv, NEW q \in Returning, NEW h, AddAck(q, h) PROVE RInv'
<1> DEFINE n == [kind |-> "MsgAcknowledgement", seq |-> q, at |-> h, proof |-> h]
<1>1. /\ TypeOK /\ Behind /\ q \in Nat /\ ackAt[q] \in Nat
      /\ pc = "ack_packets" /\ q \in acks /\ ackAt[q] # 0
      /\ h \in RelayHeights(ackAt[q])
      /\ messages' = messages \cup {n} /\ acks' = acks \ {q} /\ missed' \in BOOLEAN
      /\ UNCHANGED <<chainVars, pc, reads, seqs, timeouts>>
  BY ReadyAssumption DEF AddAck, AtAck, RInv, Handled, TypeOK
<1>2. /\ h \in Nat /\ ackAt[q] \in 1..h
      /\ \E u \in updates["sink"] : u.of = h /\ DelayElapsed("sink", u, height["sink"])
  BY <1>1, Provable
<1>3. GoodMessage(n)
  <2>1. CommittedAt(n) = ackAt[q]
    BY DEF CommittedAt
  <2> QED
    BY <1>1, <1>2, <2>1 DEF GoodMessage
<1>4. n \in RelayMsg
  BY <1>1, <1>2 DEF RelayMsg
<1> HIDE DEF n
<1>5. TypeOK'
  BY <1>1, <1>4 DEF TypeOK, chainVars, reads
<1> QED
  BY <1>1, <1>3, <1>5, CollectKeeps DEF Collecting

(* The height found for a timeout is at or after both of the packet's      *)
(* timeouts; without a timeout height none is looked for.                  *)
LEMMA TimeoutHeightFound ==
    ASSUME TypeOK, Behind, NEW p \in Packet, ~PeriodUnderflows(p),
           get_timeout_proof_height(p) # 0
    PROVE  /\ get_timeout_proof_height(p) \in Nat
           /\ Expired(p, get_timeout_proof_height(p))
           /\ TimeoutHeight[p] <= get_timeout_proof_height(p)
           /\ TimeoutTime[p] <= Time("sink", get_timeout_proof_height(p))
<1> DEFINE h == get_timeout_proof_height(p)
<1>1. /\ TimeoutHeight[p] \in Nat /\ TimeoutTime[p] \in Nat /\ TimeoutHeight[p] # 0
      /\ BlockTime \in Nat /\ latestOnSource \in Nat
      /\ Genesis["sink"] \in Nat /\ "source" \in Chain
  BY ReadyAssumption DEF TypeOK, Chain, get_timeout_proof_height
<1>2. Latest("source") \in Nat
  BY <1>1, LatestKnown
<1>3. TimeoutTime[p] - LatestTime \in Nat
  BY <1>1, <1>2 DEF PeriodUnderflows, LatestTime, Time
<1>4. BlockDelay(TimeoutTime[p] - LatestTime) \in Nat
  BY <1>3, BlockDelayNat
<1>5. StartHeight(p) \in Nat /\ TimeoutHeight[p] <= StartHeight(p)
  <2> DEFINE blocks == BlockDelay(TimeoutTime[p] - LatestTime)
             start == Latest("source") + (IF blocks = 0 THEN 0 ELSE blocks - 1)
  <2>1. StartHeight(p) = IF start < TimeoutHeight[p] THEN TimeoutHeight[p] ELSE start
    BY DEF StartHeight
  <2>2. start \in Nat
    BY <1>2, <1>4
  <2> HIDE DEF start
  <2> QED
    BY <1>1, <2>1, <2>2
<1>6. h = Halving("source", TimeoutTime[p], StartHeight(p), latestOnSource)
  BY <1>1 DEF get_timeout_proof_height
<1> HIDE DEF h
<1>7. h \in StartHeight(p)..latestOnSource /\ Suitable("source", TimeoutTime[p], h)
  BY <1>1, <1>5, <1>6, HalvingFinds DEF h
<1>8. h \in Nat /\ TimeoutHeight[p] <= h
  BY <1>1, <1>5, <1>7
<1>9. TimeoutTime[p] <= Time("sink", h)
  BY <1>1, <1>7, <1>8 DEF Suitable, Peer, Time
<1>10. Expired(p, h)
  BY <1>1, <1>8 DEF Expired
<1> QED
  BY <1>8, <1>9, <1>10 DEF h

LEMMA AddTimeoutInv == ASSUME RInv, NEW p \in Packet, AddTimeout(p) PROVE RInv'
<1> DEFINE k == IF endState["sink"] = "Closed" THEN "MsgTimeoutOnClose" ELSE "MsgTimeout"
           h == get_timeout_proof_height(p)
           n == [kind |-> k, seq |-> p, at |-> h, proof |-> h, next |-> next_sequence_recv]
<1>1. /\ TypeOK /\ Behind /\ p \in Nat /\ pc = "packets" /\ p \in seqs
      /\ timed_out(p) /\ receivedAt[p] = 0 /\ ~PeriodUnderflows(p)
      /\ next_sequence_recv \in Nat /\ (ordered => next_sequence_recv <= p)
      /\ h # 0 /\ verify_delay_passed("source", h)
      /\ timeouts' = timeouts \cup {n} /\ seqs' = seqs \ {p}
      /\ UNCHANGED <<chainVars, pc, reads, acks, messages, missed>>
  BY ReadyAssumption DEF AddTimeout, AtPacket, TimeoutReady, RInv, Handled, TypeOK
<1>2. /\ h \in Nat /\ Expired(p, h) /\ TimeoutHeight[p] <= h /\ TimeoutTime[p] <= Time("sink", h)
  BY <1>1, TimeoutHeightFound
<1>3. \E u \in updates["source"] : u.of = h /\ DelayElapsed("source", u, height["source"])
  <2>1. PICK u \in updates["source"] : u.of = h /\ DelayElapsed("source", u, readAt["source"])
    BY <1>1 DEF verify_delay_passed
  <2>2. /\ "source" \in Chain /\ u \in Update /\ readAt["source"] \in Nat
        /\ height["source"] \in Nat /\ readAt["source"] <= height["source"]
    BY <1>1, <2>1 DEF TypeOK, Behind, Chain
  <2>3. DelayElapsed("source", u, height["source"])
    BY <2>1, <2>2, ElapsedStays
  <2> QED
    BY <2>1, <2>3
<1> HIDE DEF h
<1>4. n \in TimeoutMsg
  BY <1>1, <1>2 DEF TimeoutMsg
<1>5. GoodTimeout(n)
  BY <1>1, <1>2, <1>3 DEF GoodTimeout
<1> HIDE DEF n
<1>6. TypeOK'
  BY <1>1, <1>4 DEF TypeOK, chainVars, reads
<1> QED
  BY <1>1, <1>5, <1>6, CollectKeeps DEF Collecting

LEMMA StepInv == RInv /\ [Next]_vars => RInv'
<1> SUFFICES ASSUME RInv, [Next]_vars PROVE RInv'
  OBVIOUS
<1>1. CASE UNCHANGED vars
  <2>1. UNCHANGED <<chainVars, pc, reads, seqs, acks, results>>
    BY <1>1 DEF vars, callVars
  <2>2. TypeOK'
    BY <2>1 DEF RInv, TypeOK, chainVars, reads, results
  <2>3. UNCHANGED <<readAt, next_sequence_recv, ordered, sentAt, receivedAt, ackAt, messages, timeouts>>
    BY <2>1 DEF chainVars, reads, results
  <2>4. Handled'
    BY <2>1, <2>3 DEF RInv, Handled, timed_out, Time
  <2> QED
    BY <2>1, <2>2, <2>3, <2>4, CallKeeps
<1>2. CASE ChainStep
  BY <1>2, ChainInv
<1>3. CASE CallStep \/ LookupFails \/ QueryFails
  <2>1. ASSUME NEW p \in Packet, AddTimeout(p) PROVE RInv'
    BY <2>1, AddTimeoutInv
  <2>2. ASSUME NEW p \in Packet, NEW h, AddRecv(p, h) PROVE RInv'
    BY <2>2, AddRecvInv
  <2>3. ASSUME NEW q \in Returning, NEW h, AddAck(q, h) PROVE RInv'
    BY <2>3, AddAckInv
  <2> QED
    BY <1>3, <2>1, <2>2, <2>3, QueriesInv, SequencesInv, PassStepsInv DEF CallStep
<1> QED
  BY <1>1, <1>2, <1>3 DEF Next

LEMMA Invariance == Spec => []RInv
BY InitInv, StepInv, PTL DEF Spec

-------------------------------------------------------------------------------
(* Nothing that is ready is left out.  What the call has read is what was  *)
(* there when it began, or came later; and nothing becomes ready by the    *)
(* heights read that was not ready when they were.                         *)
Asking == {"again", "commitments", "unreceived", "packets", "acks", "unreceived_acks", "ack_packets"}

ReadsInv ==
    /\ opening => (\A p \in Packet : sentAt[p] = 0) /\ (\A q \in Returning : ackAt[q] = 0)
    /\ \A c \in Chain : endState[c] = "Closed" => closedAt[c] # 0
    /\ pc \in Asking =>
          \A u \in updates["sink"] : u.block <= readAt["sink"] => u.of <= latestOnSink

DueMessage(p) ==
    /\ Undelivered(p) /\ ~timed_out(p) /\ (ordered => AfterNext(p))
    /\ ReadyWhenRead("sink", sentAt[p]) /\ closedAt["sink"] = 0

DueAck(q) ==
    /\ q \notin ackSettled /\ closedAt["source"] = 0
    /\ ReadyWhenRead("sink", ackAt[q])

(* A packet that is due is on the list still or has been returned.         *)
Listed == {"unreceived", "packets"}
AcksListed == {"unreceived_acks", "ack_packets"}

MessagesDue ==
    pc \in Listed \cup {"acks", "done"} \cup AcksListed =>
        \A p \in Packet : DueMessage(p) =>
            (pc \in Listed /\ p \in seqs) \/ Returned("MsgRecvPacket", p)

AcksDue ==
    pc \in AcksListed \cup {"done"} =>
        \A q \in Returning : DueAck(q) =>
            (pc \in AcksListed /\ q \in acks) \/ Returned("MsgAcknowledgement", q)

DueInv == ~missed /\ UpdatedInOrder("sink") => MessagesDue /\ AcksDue

CInv == RInv /\ ReadsInv /\ DueInv

(* Of the heights of a client updated in their order, the first from `at'  *)
(* on is one on which the delay has passed, if there is any such height.   *)
LEMMA FirstIsReady ==
    ASSUME TypeOK, UpdatedInOrder("sink"), NEW at \in Nat, ReadyWhenRead("sink", at),
           \A u \in updates["sink"] : u.block <= readAt["sink"] => u.of <= latestOnSink
    PROVE  FirstReady(at) /\ at <= latestOnSink
<1>1. /\ "sink" \in Chain /\ updates["sink"] \subseteq Update /\ latestOnSink \in Nat
      /\ readAt["sink"] \in Nat /\ Genesis["sink"] \in Nat /\ Delay \in Nat /\ BlockTime \in Nat
  BY ReadyAssumption DEF TypeOK, Chain
<1>2. BlockDelay(Delay) \in Nat
  BY <1>1, BlockDelayNat
<1>3. PICK u \in updates["sink"] : at <= u.of /\ DelayElapsed("sink", u, readAt["sink"])
  BY DEF ReadyWhenRead
<1>4. /\ u.of \in Nat /\ u.block \in Nat /\ u.block <= readAt["sink"]
      /\ u.of <= latestOnSink
  <2>1. u.of \in Nat /\ u.block \in Nat
    BY <1>1, <1>3 DEF Update
  <2>2. readAt["sink"] >= u.block + BlockDelay(Delay)
    BY <1>3 DEF DelayElapsed
  <2>3. u.block <= readAt["sink"]
    BY <1>1, <1>2, <2>1, <2>2
  <2> QED
    BY <1>3, <2>1, <2>3
<1> DEFINE hits == Known("sink") \cap (at..latestOnSink)
           first == CHOOSE h \in hits : \A g \in hits : h <= g
<1>5. u.of \in hits /\ hits \in SUBSET Nat
  BY <1>1, <1>3, <1>4 DEF Known, Update
<1>6. \E h \in hits : \A g \in hits : h <= g
  BY <1>5, LeastOf
<1>7. first \in hits /\ first <= u.of
  BY <1>5, <1>6
<1>8. FirstKnown("sink", at, latestOnSink) = first
  BY <1>5 DEF FirstKnown
<1> HIDE DEF first
<1>9. PICK v \in updates["sink"] : v.of = first
  BY <1>7 DEF Known
<1>10. v.of \in Nat /\ v.block \in Nat /\ v.block <= u.block
  <2>1. v.block <= u.block
    BY <1>3, <1>7, <1>9 DEF UpdatedInOrder
  <2> QED
    BY <1>1, <1>9, <2>1 DEF Update
<1>11. DelayElapsed("sink", v, readAt["sink"])
  BY <1>1, <1>2, <1>3, <1>4, <1>10 DEF DelayElapsed, Time
<1>12. first \in RelayHeights(at)
  BY <1>7, <1>9, <1>11 DEF RelayHeights, verify_delay_passed
<1> QED
  BY <1>1, <1>3, <1>4, <1>8, <1>12 DEF FirstReady

(* The chains add nothing that is due, and no disorder is undone.          *)
Backward ==
    /\ UNCHANGED <<callVars, ordered>>
    /\ \A p \in Packet : sentAt'[p] = sentAt[p] \/ sentAt'[p] > readAt["source"]
    /\ \A q \in Returning : ackAt'[q] = ackAt[q] \/ ackAt'[q] > readAt["source"]
    /\ \A p \in Packet : receivedAt'[p] = 0 => receivedAt[p] = 0
    /\ settled \subseteq settled' /\ ackSettled \subseteq ackSettled'
    /\ \A c \in Chain : closedAt'[c] = 0 => closedAt[c] = 0
    /\ \A c \in Chain : /\ updates[c] \subseteq updates'[c]
                        /\ \A u \in updates'[c] \ updates[c] : u.block > readAt[c]
    /\ opening' => opening /\ UNCHANGED <<sentAt, ackAt>>

LEMMA BackwardKeeps ==
    ASSUME CInv, RInv', Backward
    PROVE  CInv'
<1>1. /\ UNCHANGED <<pc, readAt, endState, latestOnSink, seqs, acks, messages, missed, ordered>>
      /\ TypeOK /\ TypeOK' /\ ReadsInv /\ DueInv
      /\ "sink" \in Chain /\ "source" \in Chain /\ Peer("sink") = "source"
  BY DEF Backward, callVars, reads, results, CInv, RInv, Chain, Peer
<1>2. /\ readAt["sink"] \in Nat /\ readAt["source"] \in Nat
      /\ updates["sink"] \subseteq Update /\ updates'["sink"] \subseteq Update
      /\ \A p \in Packet : sentAt'[p] \in Nat
      /\ \A q \in Returning : ackAt'[q] \in Nat
      /\ Packet \subseteq Nat
  BY <1>1, ReadyAssumption DEF TypeOK
<1>3. \A u \in updates'["sink"] : u.block <= readAt["sink"] => u \in updates["sink"]
  BY <1>1, <1>2 DEF Backward, Update
<1>4. ReadsInv'
  <2>1. opening' => (\A p \in Packet : sentAt'[p] = 0) /\ (\A q \in Returning : ackAt'[q] = 0)
    BY <1>1 DEF ReadsInv, Backward
  <2>2. pc \in Asking => \A u \in updates'["sink"] : u.block <= readAt["sink"] => u.of <= latestOnSink
    BY <1>1, <1>3 DEF ReadsInv
  <2>3. \A c \in Chain : endState[c] = "Closed" => closedAt'[c] # 0
    BY <1>1 DEF ReadsInv, Backward
  <2> QED
    BY <1>1, <2>1, <2>2, <2>3 DEF ReadsInv
<1>5. UpdatedInOrder("sink")' => UpdatedInOrder("sink")
  BY <1>1 DEF UpdatedInOrder, Backward
<1>6. ASSUME NEW at \in Nat, at \in 1..readAt["source"],
             NEW u \in updates'["sink"], at <= u.of, DelayElapsed("sink", u, readAt["sink"])
      PROVE  ReadyWhenRead("sink", at)
  <2>1. u \in Update /\ u.block \in Nat
    BY <1>2 DEF Update
  <2>2. u.block <= readAt["sink"]
    BY <1>1, <1>2, <1>6, <2>1, ElapsedNotBefore
  <2>3. u \in updates["sink"]
    BY <1>3, <2>2
  <2> QED
    BY <1>1, <1>6, <2>3 DEF ReadyWhenRead
<1>7. ASSUME NEW p \in Packet, DueMessage(p)' PROVE DueMessage(p)
  <2>1. ReadyWhenRead("sink", sentAt[p])
    <3>1. ReadyWhenRead("sink", sentAt[p])'
      BY <1>7 DEF DueMessage
    <3>2. /\ sentAt'[p] \in 1..readAt["source"]
          /\ \E u \in updates'["sink"] :
                sentAt'[p] <= u.of /\ DelayElapsed("sink", u, readAt["sink"])
      BY <1>1, <3>1 DEF ReadyWhenRead, DelayElapsed, Time
    <3>3. sentAt'[p] = sentAt[p]
      BY <1>2, <3>2 DEF Backward
    <3> QED
      BY <1>2, <1>6, <3>2, <3>3
  <2>2. ~timed_out(p)
    BY <1>1, <1>7 DEF DueMessage, timed_out, Time
  <2>3. Undelivered(p) /\ closedAt["sink"] = 0
    BY <1>1, <1>7 DEF DueMessage, Undelivered, Backward
  <2>4. ordered => AfterNext(p)
    BY <1>1, <1>7 DEF DueMessage, AfterNext, Backward
  <2> QED
    BY <2>1, <2>2, <2>3, <2>4 DEF DueMessage
<1>8. ASSUME NEW q \in Returning, DueAck(q)' PROVE DueAck(q)
  <2>1. ReadyWhenRead("sink", ackAt[q])
    <3>1. ReadyWhenRead("sink", ackAt[q])'
      BY <1>8 DEF DueAck
    <3>2. /\ ackAt'[q] \in 1..readAt["source"]
          /\ \E u \in updates'["sink"] :
                ackAt'[q] <= u.of /\ DelayElapsed("sink", u, readAt["sink"])
      BY <1>1, <3>1 DEF ReadyWhenRead, DelayElapsed, Time
    <3>3. ackAt'[q] = ackAt[q]
      BY <1>2, <3>2 DEF Backward
    <3> QED
      BY <1>2, <1>6, <3>2, <3>3
  <2> QED
    BY <1>1, <1>8, <2>1 DEF DueAck, Backward
<1>9. \A k, s : Returned(k, s)' <=> Returned(k, s)
  BY <1>1 DEF Returned
<1>10. DueInv'
  BY <1>1, <1>5, <1>7, <1>8, <1>9 DEF DueInv, MessagesDue, AcksDue
<1> QED
  BY <1>4, <1>10 DEF CInv

LEMMA InitDue == Init => CInv
<1> SUFFICES ASSUME Init PROVE CInv
  OBVIOUS
<1>1. RInv
  BY InitInv
<1>2. ReadsInv /\ DueInv
  BY DEF Init, ReadsInv, DueInv, MessagesDue, AcksDue, Asking, Listed, AcksListed
<1> QED
  BY <1>1, <1>2 DEF CInv

LEMMA ChainDue == ASSUME CInv, ChainStep PROVE CInv'
<1>1. /\ RInv /\ TypeOK /\ Behind /\ {"source", "sink"} = Chain
      /\ opening => (\A p \in Packet : sentAt[p] = 0) /\ (\A q \in Returning : ackAt[q] = 0)
  BY DEF CInv, RInv, ReadsInv, Chain
<1>2. RInv'
  BY <1>1, ChainInv
<1>3. \A c \in Chain : height[c] \in Nat /\ readAt[c] \in Nat /\ height[c] + 1 > readAt[c]
  BY <1>1 DEF TypeOK, Behind
<1>4. \A c \in Chain : closedAt[c] \in Nat /\ height[c] + 1 # 0
  BY <1>1 DEF TypeOK
<1> USE DEF Backward
<1>5. CASE Open
  BY <1>2, <1>5, BackwardKeeps DEF Open
<1>6. ASSUME NEW c \in Chain, EmptyBlock(c) PROVE CInv'
  BY <1>2, <1>6, BackwardKeeps DEF EmptyBlock
<1>7. ASSUME NEW c \in Chain, Close(c) PROVE CInv'
  <2>1. \A d \in Chain : closedAt'[d] = 0 => closedAt[d] = 0
    BY <1>1, <1>4, <1>7 DEF Close, TypeOK
  <2> QED
    BY <1>2, <1>7, <2>1, BackwardKeeps DEF Close
<1>8. ASSUME NEW c \in Chain, NEW h \in 1..height[Peer(c)], UpdateClient(c, h) PROVE CInv'
  <2>1. \A d \in Chain : /\ updates[d] \subseteq updates'[d]
                         /\ \A u \in updates'[d] \ updates[d] : u.block > readAt[d]
    BY <1>1, <1>3, <1>8 DEF UpdateClient, TypeOK
  <2> QED
    BY <1>2, <1>8, <2>1, BackwardKeeps DEF UpdateClient
<1>9. ASSUME NEW p \in Packet, Send(p) PROVE CInv'
  <2>1. \A o \in Packet : sentAt'[o] = sentAt[o] \/ sentAt'[o] > readAt["source"]
    BY <1>1, <1>3, <1>9 DEF Send, TypeOK
  <2> QED
    BY <1>2, <1>9, <2>1, BackwardKeeps DEF Send
<1>10. ASSUME NEW p \in Packet, Receive(p) PROVE CInv'
  <2>1. \A o \in Packet : receivedAt'[o] = 0 => receivedAt[o] = 0
    BY <1>1, <1>10 DEF Receive, TypeOK
  <2> QED
    BY <1>2, <1>10, <2>1, BackwardKeeps DEF Receive
<1>11. ASSUME NEW p \in Packet, Settle(p) PROVE CInv'
  <2>1. \A d \in Chain : closedAt'[d] = 0 => closedAt[d] = 0
    BY <1>1, <1>4, <1>11 DEF Settle, TypeOK
  <2>2. settled \subseteq settled'
    BY <1>11 DEF Settle
  <2>3. UNCHANGED <<ordered, opening, sentAt, receivedAt, ackAt, ackSettled, updates, callVars>>
    BY <1>11 DEF Settle
  <2> QED
    BY <1>2, <2>1, <2>2, <2>3, BackwardKeeps
<1>12. ASSUME NEW q \in Returning, WriteAck(q) PROVE CInv'
  <2>1. \A o \in Returning : ackAt'[o] = ackAt[o] \/ ackAt'[o] > readAt["source"]
    BY <1>1, <1>3, <1>12 DEF WriteAck, TypeOK
  <2> QED
    BY <1>2, <1>12, <2>1, BackwardKeeps DEF WriteAck
<1>13. ASSUME NEW q \in Returning, SettleAck(q) PROVE CInv'
  <2>1. ackSettled \subseteq ackSettled'
    BY <1>13 DEF SettleAck
  <2> QED
    BY <1>2, <1>13, <2>1, BackwardKeeps DEF SettleAck
<1> QED
  BY <1>5, <1>6, <1>7, <1>8, <1>9, <1>10, <1>11, <1>12, <1>13 DEF ChainStep

(* A step of the call that reads nothing of the chains' states again: what *)
(* is due stays what it was.                                               *)
LEMMA DueStays ==
    ASSUME UNCHANGED <<chainVars, readAt>>
    PROVE  /\ \A p : DueMessage(p)' <=> DueMessage(p)
           /\ \A q : DueAck(q)' <=> DueAck(q)
           /\ UpdatedInOrder("sink")' <=> UpdatedInOrder("sink")
<1>1. UNCHANGED <<height, ordered, sentAt, receivedAt, settled, ackAt, ackSettled, updates, closedAt>>
  BY DEF chainVars
<1>2. \A at : ReadyWhenRead("sink", at)' <=> ReadyWhenRead("sink", at)
  BY <1>1 DEF ReadyWhenRead, DelayElapsed, Time
<1>3. /\ \A p : ReadyWhenRead("sink", sentAt[p])' <=> ReadyWhenRead("sink", sentAt[p])
      /\ \A q : ReadyWhenRead("sink", ackAt[q])' <=> ReadyWhenRead("sink", ackAt[q])
  BY <1>1 DEF ReadyWhenRead, DelayElapsed, Time
<1>4. \A p : /\ timed_out(p)' <=> timed_out(p)
             /\ Undelivered(p)' <=> Undelivered(p)
             /\ AfterNext(p)' <=> AfterNext(p)
  BY <1>1 DEF timed_out, Time, Undelivered, AfterNext
<1>5. \A p : DueMessage(p)' <=> DueMessage(p)
  BY <1>1, <1>3, <1>4 DEF DueMessage
<1>6. \A q : DueAck(q)' <=> DueAck(q)
  BY <1>1, <1>3 DEF DueAck
<1> QED
  BY <1>1, <1>5, <1>6 DEF UpdatedInOrder

(* What the call asks before it collects.                                  *)
LEMMA QueriesDue ==
    ASSUME CInv, RInv',
           \/ ReadHeight("source", "sink") \/ ReadHeight("sink", "channel")
           \/ ReadChannel \/ ReadCounterparty \/ ReadClient \/ ReadOtherClient
    PROVE  CInv'
<1>1. /\ TypeOK /\ Behind /\ ReadsInv /\ UNCHANGED chainVars
      /\ UNCHANGED <<opening, closedAt, updates, sentAt, ackAt>>
      /\ pc' \in {"sink", "channel", "counterparty", "client", "again", "commitments", "done"}
      /\ pc' # "done" => pc' \notin Listed \cup {"acks", "done"} \cup AcksListed
      /\ "sink" \in Chain
  BY DEF CInv, RInv, ReadHeight, ReadChannel, ReadCounterparty, ReadClient, ReadOtherClient,
         chainVars, Chain, Listed, AcksListed
<1>2. CASE pc' = "done"
  <2>1. opening
    BY <1>2 DEF ReadHeight, ReadChannel, ReadCounterparty, ReadClient, ReadOtherClient
  <2>2. /\ \A p \in Packet : sentAt'[p] = 0
        /\ \A q \in Returning : ackAt'[q] = 0
    BY <1>1, <2>1 DEF ReadsInv
  <2>3. /\ \A p \in Packet : ~DueMessage(p)'
        /\ \A q \in Returning : ~DueAck(q)'
    BY <2>2 DEF DueMessage, DueAck, ReadyWhenRead
  <2>4. ReadsInv'
    <3>1. \A c \in Chain : endState'[c] = "Closed" => closedAt'[c] # 0
      BY <1>1, <1>2 DEF ReadHeight, ReadChannel, ReadCounterparty, ReadClient, ReadOtherClient,
                        ReadsInv, TypeOK, EndOf
    <3> QED
      BY <1>1, <1>2, <3>1 DEF ReadsInv, Asking
  <2> QED
    BY <2>3, <2>4 DEF CInv, DueInv, MessagesDue, AcksDue
<1>3. CASE pc' # "done"
  <2>1. DueInv'
    BY <1>1, <1>3 DEF DueInv, MessagesDue, AcksDue
  <2>2. \A c \in Chain : endState'[c] = "Closed" => closedAt'[c] # 0
    BY <1>1 DEF ReadHeight, ReadChannel, ReadCounterparty, ReadClient, ReadOtherClient, ReadsInv,
                TypeOK, EndOf
  <2>3. pc' \in Asking =>
            \A u \in updates'["sink"] : u.block <= readAt'["sink"] => u.of <= latestOnSink'
    <3>1. CASE ReadClient
      <4>1. \A u \in updates["sink"] : u.of \in Known("sink")
        BY DEF Known
      <4>2. \A u \in updates["sink"] : u.of <= Latest("sink")
        BY <1>1, <4>1, LatestKnown
      <4> QED
        BY <1>1, <3>1, <4>2 DEF ReadClient
    <3>2. CASE ReadOtherClient
      BY <1>1, <3>2 DEF ReadOtherClient, ReadsInv, Asking
    <3> QED
      BY <3>1, <3>2 DEF ReadHeight, ReadChannel, ReadCounterparty, Asking
  <2>4. ReadsInv'
    BY <1>1, <2>2, <2>3 DEF ReadsInv
  <2> QED
    BY <2>1, <2>4 DEF CInv
<1> QED
  BY <1>2, <1>3

(* A later step of the call keeps what was read.                           *)
LEMMA ReadsKept ==
    ASSUME ReadsInv, UNCHANGED <<chainVars, reads>>, pc' \in Asking => pc \in Asking
    PROVE  ReadsInv'
BY DEF ReadsInv, chainVars, reads

(* What is due is among the commitments, and not received.                 *)
LEMMA SequencesDue == ASSUME CInv, RInv', ReadCommitments \/ ReadUnreceived PROVE CInv'
<1>1. /\ UNCHANGED <<chainVars, reads, readAt, acks, messages, missed>>
      /\ pc \in {"commitments", "unreceived"} /\ pc' \in Listed
      /\ \A k, s : Returned(k, s)' <=> Returned(k, s)
  BY DEF ReadCommitments, ReadUnreceived, Listed, reads, results, Returned
<1>2. ReadsInv'
  BY <1>1, ReadsKept DEF CInv, Asking, Listed
<1>3. /\ \A p : DueMessage(p)' <=> DueMessage(p)
      /\ UpdatedInOrder("sink")' <=> UpdatedInOrder("sink")
  BY <1>1, DueStays
<1>4. ASSUME NEW p \in Packet, DueMessage(p), ~missed, UpdatedInOrder("sink")
      PROVE  p \in seqs' \/ Returned("MsgRecvPacket", p)
  <2>1. sentAt[p] # 0 /\ Undelivered(p) /\ (ordered => AfterNext(p))
    BY <1>4 DEF DueMessage, ReadyWhenRead
  <2>2. CASE ReadCommitments
    BY <1>4, <2>1, <2>2 DEF ReadCommitments, Undelivered
  <2>3. CASE ReadUnreceived
    <3>1. p \in seqs \/ Returned("MsgRecvPacket", p)
      BY <1>4, <2>3 DEF CInv, DueInv, MessagesDue, ReadUnreceived, Listed
    <3> QED
      BY <2>1, <2>3, <3>1 DEF ReadUnreceived, Undelivered
  <2> QED
    BY <2>2, <2>3
<1>5. DueInv'
  <2>1. ~missed /\ UpdatedInOrder("sink") => MessagesDue'
    BY <1>1, <1>3, <1>4 DEF MessagesDue
  <2>2. AcksDue'
    BY <1>1 DEF AcksDue, Listed, AcksListed
  <2> QED
    BY <1>1, <1>3, <2>1, <2>2 DEF DueInv
<1> QED
  BY <1>2, <1>5 DEF CInv

(* A packet that is due is not one the call passes over.                   *)
LEMMA DueIsSendable ==
    ASSUME CInv, pc = "packets", ~missed, UpdatedInOrder("sink"), NEW p \in Packet, DueMessage(p)
    PROVE  Sendable(p) /\ FirstReady(sentAt[p])
<1>1. TypeOK /\ ReadsInv
  BY DEF CInv, RInv
<1>2. sentAt[p] \in Nat /\ ReadyWhenRead("sink", sentAt[p])
  BY <1>1 DEF TypeOK, DueMessage
<1>3. FirstReady(sentAt[p]) /\ sentAt[p] <= latestOnSink
  BY <1>1, <1>2, FirstIsReady DEF ReadsInv, Asking
<1>4. endState["sink"] = "Open"
  BY <1>1 DEF ReadsInv, DueMessage, TypeOK, Chain
<1> QED
  BY <1>3, <1>4 DEF Sendable, DueMessage

LEMMA DueAckIsReady ==
    ASSUME CInv, pc = "ack_packets", ~missed, UpdatedInOrder("sink"), NEW q \in Returning, DueAck(q)
    PROVE  FirstReady(ackAt[q])
<1>1. TypeOK /\ ReadsInv
  BY DEF CInv, RInv
<1>2. ackAt[q] \in Nat /\ ReadyWhenRead("sink", ackAt[q])
  BY <1>1 DEF TypeOK, DueAck
<1> QED
  BY <1>1, <1>2, FirstIsReady DEF ReadsInv, Asking

(* Of a call that has failed nothing is promised.                          *)
LEMMA FailDue ==
    ASSUME CInv, RInv', UNCHANGED <<chainVars, reads>>, pc' = "failed"
    PROVE  CInv'
<1>1. ReadsInv'
  BY ReadsKept DEF CInv, Asking
<1> QED
  BY <1>1 DEF CInv, DueInv, MessagesDue, AcksDue, Listed, AcksListed

(* A step takes off the lists what is not due, or returns it.              *)
LEMMA ListsDue ==
    ASSUME CInv, RInv', UNCHANGED <<chainVars, reads, pc>>, pc \in {"packets", "ack_packets"},
           messages \subseteq messages', missed => missed',
           pc = "packets" => UNCHANGED acks,
           \A p \in seqs \ seqs' :
               ~missed' /\ UpdatedInOrder("sink") /\ DueMessage(p) => Returned("MsgRecvPacket", p)',
           \A q \in acks \ acks' :
               ~missed' /\ UpdatedInOrder("sink") /\ DueAck(q) => Returned("MsgAcknowledgement", q)'
    PROVE  CInv'
<1>1. ReadsInv'
  BY ReadsKept DEF CInv
<1>2. /\ \A p : DueMessage(p)' <=> DueMessage(p)
      /\ \A q : DueAck(q)' <=> DueAck(q)
      /\ UpdatedInOrder("sink")' <=> UpdatedInOrder("sink")
  BY DueStays DEF reads
<1>3. \A k, s : Returned(k, s) => Returned(k, s)'
  BY DEF Returned
<1>4. ASSUME ~missed', UpdatedInOrder("sink") PROVE MessagesDue' /\ AcksDue'
  <2>1. MessagesDue /\ AcksDue
    BY <1>4 DEF CInv, DueInv
  <2>2. MessagesDue'
    BY <1>2, <1>3, <1>4, <2>1 DEF MessagesDue, Listed, AcksListed
  <2>3. AcksDue'
    BY <1>2, <1>3, <1>4, <2>1 DEF AcksDue, Listed, AcksListed
  <2> QED
    BY <2>2, <2>3
<1> QED
  BY <1>1, <1>2, <1>4 DEF CInv, DueInv

LEMMA CollectDue ==
    ASSUME CInv, RInv',
           \/ \E p \in Packet :
                 \/ AddTimeout(p) \/ PeriodOverflow(p) \/ PassOver(p)
                 \/ \E h \in Known("sink") : AddRecv(p, h)
           \/ \E q \in Returning : PassOverAck(q) \/ \E h \in Known("sink") : AddAck(q, h)
    PROVE  CInv'
<1>1. ASSUME NEW p \in Packet, AddTimeout(p) PROVE CInv'
  <2>1. ~DueMessage(p)
    BY <1>1 DEF AddTimeout, DueMessage
  <2> QED
    BY <1>1, <2>1, ListsDue DEF AddTimeout, AtPacket
<1>2. ASSUME NEW p \in Packet, PeriodOverflow(p) PROVE CInv'
  <2>1. ~DueMessage(p)
    BY <1>2 DEF PeriodOverflow, DueMessage
  <2>2. CASE pc' = pc /\ UNCHANGED <<messages, timeouts>>
    BY <1>2, <2>1, <2>2, ListsDue DEF PeriodOverflow, AtPacket
  <2>3. CASE Fail
    BY <1>2, <2>3, FailDue DEF PeriodOverflow, Fail
  <2> QED
    BY <1>2, <2>2, <2>3 DEF PeriodOverflow
<1>3. ASSUME NEW p \in Packet, PassOver(p) PROVE CInv'
  <2>1. ~missed /\ UpdatedInOrder("sink") => ~DueMessage(p)
    BY <1>3, DueIsSendable DEF PassOver, AtPacket, DueMessage
  <2> QED
    BY <1>3, <2>1, ListsDue DEF PassOver, AtPacket, results
<1>4. ASSUME NEW p \in Packet, NEW h, AddRecv(p, h) PROVE CInv'
  <2> DEFINE n == [kind |-> "MsgRecvPacket", seq |-> p, at |-> h, proof |-> h]
  <2>1. n \in messages' /\ n.kind = "MsgRecvPacket" /\ n.seq = p
    BY <1>4 DEF AddRecv
  <2>2. Returned("MsgRecvPacket", p)'
    BY <2>1 DEF Returned
  <2> QED
    BY <1>4, <2>2, ListsDue DEF AddRecv, AtPacket
<1>5. ASSUME NEW q \in Returning, PassOverAck(q) PROVE CInv'
  <2>1. ~missed /\ UpdatedInOrder("sink") => ~DueAck(q)
    BY <1>5, DueAckIsReady DEF PassOverAck, AtAck
  <2> QED
    BY <1>5, <2>1, ListsDue DEF PassOverAck, AtAck, results
<1>6. ASSUME NEW q \in Returning, NEW h, AddAck(q, h) PROVE CInv'
  <2> DEFINE n == [kind |-> "MsgAcknowledgement", seq |-> q, at |-> h, proof |-> h]
  <2>1. n \in messages' /\ n.kind = "MsgAcknowledgement" /\ n.seq = q
    BY <1>6 DEF AddAck
  <2>2. Returned("MsgAcknowledgement", q)'
    BY <2>1 DEF Returned
  <2> QED
    BY <1>6, <2>2, ListsDue DEF AddAck, AtAck
<1> QED
  BY <1>1, <1>2, <1>3, <1>4, <1>5, <1>6

(* From one list to the next, and to the end.                              *)
LEMMA NextListDue ==
    ASSUME CInv, RInv', PacketsHandled \/ ReadAcks \/ ReadUnreceivedAcks \/ AcksHandled
    PROVE  CInv'
<1>1. /\ UNCHANGED <<chainVars, reads, readAt, messages, missed>>
      /\ pc \in Asking
      /\ \A k, s : Returned(k, s)' <=> Returned(k, s)
  BY DEF PacketsHandled, ReadAcks, ReadUnreceivedAcks, AcksHandled, reads, results, Returned, Asking
<1>2. ReadsInv'
  BY <1>1, ReadsKept DEF CInv
<1>3. /\ \A p : DueMessage(p)' <=> DueMessage(p)
      /\ \A q : DueAck(q)' <=> DueAck(q)
      /\ UpdatedInOrder("sink")' <=> UpdatedInOrder("sink")
  BY <1>1, DueStays
<1>4. ASSUME ~missed, UpdatedInOrder("sink") PROVE MessagesDue' /\ AcksDue'
  <2>1. MessagesDue /\ AcksDue
    BY <1>4 DEF CInv, DueInv
  <2>2. MessagesDue'
    BY <1>1, <1>3, <2>1
       DEF MessagesDue, PacketsHandled, ReadAcks, ReadUnreceivedAcks, AcksHandled, Listed, AcksListed
  <2>3. CASE PacketsHandled
    BY <2>2, <2>3 DEF PacketsHandled, AcksDue, AcksListed
  <2>4. CASE ReadAcks
    <3>1. \A q \in Returning : DueAck(q) => q \in acks'
      BY <2>4 DEF ReadAcks, DueAck, ReadyWhenRead
    <3> QED
      BY <1>1, <1>3, <2>2, <2>4, <3>1 DEF ReadAcks, AcksDue, AcksListed
  <2>5. CASE ReadUnreceivedAcks
    <3>1. CASE endState["source"] = "Closed"
      <4>1. closedAt["source"] # 0
        BY <3>1 DEF CInv, ReadsInv, Chain
      <4> QED
        BY <1>3, <2>2, <4>1 DEF AcksDue, DueAck
    <3>2. CASE endState["source"] # "Closed"
      <4>1. \A q \in Returning : DueAck(q) => q \in acks \/ Returned("MsgAcknowledgement", q)
        BY <2>1, <2>5 DEF ReadUnreceivedAcks, AcksDue, AcksListed
      <4> QED
        BY <1>1, <1>3, <2>2, <2>5, <3>2, <4>1
           DEF ReadUnreceivedAcks, AcksDue, AcksListed, DueAck
    <3> QED
      BY <3>1, <3>2
  <2>6. CASE AcksHandled
    BY <1>1, <1>3, <2>1, <2>2, <2>6 DEF AcksHandled, AcksDue, AcksListed
  <2> QED
    BY <2>2, <2>3, <2>4, <2>5, <2>6
<1> QED
  BY <1>1, <1>2, <1>3, <1>4 DEF CInv, DueInv

LEMMA StepDue == CInv /\ [Next]_vars => CInv'
<1> SUFFICES ASSUME CInv, [Next]_vars PROVE CInv'
  OBVIOUS
<1>1. RInv'
  BY StepInv DEF CInv
<1>2. CASE UNCHANGED vars
  <2>1. UNCHANGED <<callVars, ordered, opening, sentAt, receivedAt, settled, ackAt, ackSettled, updates,
                    closedAt>>
    BY <1>2 DEF vars, chainVars
  <2> QED
    BY <1>1, <2>1, BackwardKeeps DEF Backward
<1>3. CASE ChainStep
  BY <1>3, ChainDue
<1>4. CASE LookupFails
  <2>1. missed' /\ UNCHANGED <<chainVars, reads, pc>>
    BY <1>4 DEF LookupFails
  <2> QED
    BY <1>1, <2>1, ReadsKept DEF CInv, DueInv
<1>5. CASE QueryFails
  BY <1>1, <1>5, FailDue DEF QueryFails, Fail
<1>6. CASE CallStep
  BY <1>1, <1>6, QueriesDue, SequencesDue, CollectDue, NextListDue DEF CallStep
<1> QED
  BY <1>2, <1>3, <1>4, <1>5, <1>6 DEF Next

LEMMA DueInvariance == Spec => []CInv
BY InitDue, StepDue, PTL DEF Spec

-------------------------------------------------------------------------------
(* Types; a proof height is one the client has.                            *)
THEOREM TypeCorrect == Spec => []TypeOK
<1> QED
  BY Invariance, PTL DEF RInv

(* The heights of a message for the sink fit, then and later: the packet   *)
(* was committed by the one, and the client has had the other for the      *)
(* delay (packets.rs:234, packets.rs:312).                                 *)
THEOREM MessageHeights == Spec => []MessageHeightsFit
<1>1. RInv => MessageHeightsFit
  BY DEF RInv, Collected, GoodMessage, MessageHeightsFit, Usable
<1> QED
  BY <1>1, Invariance, PTL

(* A packet returned as timed out is never received, before or after       *)
(* (packets.rs:149).                                                       *)
THEOREM TimeoutIsFinal == Spec => []TimeoutsFinal
<1>1. RInv => TimeoutsFinal
  BY DEF RInv, Collected, GoodMessage, GoodTimeout, TimeoutsFinal
<1> QED
  BY <1>1, Invariance, PTL

(* Nothing is returned that sink had when the call began (funcs.rs:49).    *)
THEOREM ReturnsUnreceived == Spec => []NothingRepeated
<1>1. RInv => NothingRepeated
  BY DEF RInv, Collected, GoodMessage, NothingRepeated
<1> QED
  BY <1>1, Invariance, PTL

(* The height of a timeout for source is one its client has had for the    *)
(* delay, at or after both of the packet's timeouts, whatever heights the  *)
(* halving came across; and on an ordered channel the number it gives as   *)
(* sink's next is not beyond the packet, though it was read before the     *)
(* receipts (packets.rs:104, packets.rs:165, utils.rs:108, funcs.rs:173).  *)
THEOREM TimeoutHeights == Spec => []TimeoutHeightsFit
<1>1. RInv => TimeoutHeightsFit
  BY DEF RInv, Collected, GoodTimeout, TimeoutHeightsFit, Usable
<1> QED
  BY <1>1, Invariance, PTL

(* A call that returns without a lookup failing has returned whatever was  *)
(* ready when it began and still is, if the client was updated in the      *)
(* order of its heights (packets.rs:41).                                   *)
THEOREM NothingReadyLeftOut == Spec => []AllReadyReturned
<1>1. CInv => AllReadyReturned
  BY DEF CInv, DueInv, MessagesDue, AcksDue, Listed, AcksListed, AllReadyReturned, DueMessage, DueAck
<1> QED
  BY <1>1, DueInvariance, PTL
===============================================================================
