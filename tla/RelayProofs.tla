----------------------------- MODULE RelayProofs -----------------------------
(***************************************************************************)
(* Proofs about Relay: for every set of flows, every channel naming, every *)
(* batch limit, and chains of any length.                                  *)
(***************************************************************************)
EXTENDS RelayProperties, TLAPS, WellFoundedInduction

-------------------------------------------------------------------------------
(* Facts about the constants and tables.                                   *)

(* A non-empty set of naturals has a least element.                        *)
LEMMA LeastElement ==
    ASSUME NEW T, T \subseteq Nat, T # {}
    PROVE  \E x \in T : \A y \in T : x <= y
<1> DEFINE R == {ss \in Nat \X Nat : ss[1] < ss[2]}
<1>1. OpToRel(<, Nat) = R
  BY DEF OpToRel
<1>2. IsWellFoundedOn(R, Nat)
  BY <1>1, NatLessThanWellFounded
<1>3. PICK x \in T : \A y \in T : <<y, x>> \notin R
  BY <1>2, WFMin, Zenon
<1>4. ASSUME NEW y \in T PROVE ~(y < x)
  <2>1. <<y, x>> \in Nat \X Nat /\ <<y, x>>[1] = y /\ <<y, x>>[2] = x
    OBVIOUS
  <2> QED
    BY <1>3, <2>1, Zenon
<1> QED
  BY <1>4

(* The two chains are each other's peer.                                   *)
LEMMA Peers ==
    \A c \in Chain : Peer(c) \in Chain /\ Peer(c) # c /\ Peer(Peer(c)) = c
BY ChainsDistinct DEF Chain, Peer

(* Every event with an arm becomes a message whose effect is an event.     *)
LEMMA Tables ==
    /\ \A k \in RelayedKind : MsgFor(k) \in Msg
    /\ \A m \in Msg : Effect[m] \in Kind
    /\ \A k \in StartKind : k \in Kind
    /\ "NoOp" \in Kind
<1>1. \A k \in RelayedKind : MsgFor(k) \in Msg
  BY DEF RelayedKind, MsgFor, Msg, Effect, ConnectionMsg, ChannelMsg, MsgOfPacket, PacketKind
<1> QED
  BY <1>1 DEF Kind

-------------------------------------------------------------------------------
(* Blocks.                                                                 *)

(* evs2 is evs with events above height h added.                           *)
Grown(evs, evs2, h) ==
    /\ Len(evs) <= Len(evs2)
    /\ \A i \in 1..Len(evs) : evs2[i] = evs[i]
    /\ \A i \in (Len(evs) + 1)..Len(evs2) : evs2[i].height > h

BlockEvents(evs, h) ==
    evs \in Seq(Event) /\ \A i \in 1..Len(evs) : evs[i].height = h + 1

(* The events of the users' messages are of the block being committed.     *)
LEMMA UserEventsTyped ==
    ASSUME TypeOK, NEW c \in Chain, NEW n \in Nat, NEW fs \in [1..n -> Flow]
    PROVE  BlockEvents(UserEvents(c, fs), height[c])
<1>1. \A i \in 1..n : EventAt(c, Starts[fs[i]], fs[i]) \in Event
  <2>1. Starts \in [Flow -> StartKind]
    BY FlowAssumption
  <2> QED
    BY <2>1, Tables DEF EventAt, Event, TypeOK, ChainTypeOK
<1>2. Len(fs) = n
  OBVIOUS
<1>3. UserEvents(c, fs) = [i \in 1..n |-> EventAt(c, Starts[fs[i]], fs[i])]
  BY <1>2 DEF UserEvents
<1>4. UserEvents(c, fs) \in [1..n -> Event]
  BY <1>1, <1>3
<1>5. UserEvents(c, fs) \in Seq(Event) /\ Len(UserEvents(c, fs)) = n
  BY <1>4
<1>6. \A i \in 1..n : UserEvents(c, fs)[i].height = height[c] + 1
  BY <1>3 DEF EventAt
<1> QED
  BY <1>5, <1>6 DEF BlockEvents

(* So are those of an executed transaction of the relayer.                 *)
LEMMA TxEventsTyped ==
    ASSUME TypeOK, NEW c \in Chain, NEW tx \in Tx
    PROVE  BlockEvents(TxEvents(c, tx), height[c])
<1> DEFINE n == Len(tx.batch)
<1>1. n \in Nat /\ tx.batch \in Seq(Message)
  BY DEF Tx
<1>2. \A i \in 1..n : TxEvents(c, tx)[i] \in Event /\ TxEvents(c, tx)[i].height = height[c] + 1
  <2> TAKE i \in 1..n
  <2>1. tx.batch[i] \in Message
    BY <1>1
  <2>2. tx.batch[i].msg \in Msg /\ tx.batch[i].flow \in Flow
    BY <2>1 DEF Message
  <2>3. PICK k \in Kind : TxEvents(c, tx)[i] = EventAt(c, k, tx.batch[i].flow)
    BY <2>2, Tables DEF TxEvents
  <2> QED
    BY <2>2, <2>3 DEF EventAt, Event, TypeOK, ChainTypeOK
<1>3. TxEvents(c, tx) = [i \in 1..n |-> TxEvents(c, tx)[i]]
  BY DEF TxEvents
<1> HIDE DEF n
<1>4. TxEvents(c, tx) \in [1..n -> Event]
  BY <1>2, <1>3, Zenon
<1>5. TxEvents(c, tx) \in Seq(Event) /\ Len(TxEvents(c, tx)) = n
  BY <1>1, <1>4
<1> QED
  BY <1>2, <1>5 DEF BlockEvents

(* What a logged event has.                                                *)
LEMMA EventHeights ==
    \A evs \in Seq(Event) : \A i \in 1..Len(evs) :
        evs[i].kind \in Kind /\ evs[i].flow \in Flow /\ evs[i].height \in Nat
<1> TAKE evs \in Seq(Event)
<1> TAKE i \in 1..Len(evs)
<1>1. evs[i] \in Event
  OBVIOUS
<1> QED
  BY <1>1 DEF Event

(* Appending a block's events to a log keeps it ordered and its old part   *)
(* in place.                                                               *)
LEMMA ConcatGrows ==
    ASSUME NEW h \in Nat, NEW old \in Seq(Event), Ordered(old, h), NEW evs, BlockEvents(evs, h)
    PROVE  /\ old \o evs \in Seq(Event)
           /\ Grown(old, old \o evs, h) /\ Ordered(old \o evs, h + 1)
<1> DEFINE new == old \o evs
<1>1. evs \in Seq(Event) /\ \A i \in 1..Len(evs) : evs[i].height = h + 1
  BY DEF BlockEvents
<1>2. /\ new \in Seq(Event) /\ Len(new) = Len(old) + Len(evs)
      /\ \A i \in 1..Len(old) : new[i] = old[i]
      /\ \A i \in (Len(old) + 1)..Len(new) : new[i] = evs[i - Len(old)]
  BY <1>1
<1>3. Len(old) \in Nat /\ Len(evs) \in Nat
  BY <1>1
<1> HIDE DEF new
<1>4. \A i \in (Len(old) + 1)..Len(new) : new[i].height = h + 1
  <2> TAKE i \in (Len(old) + 1)..Len(new)
  <2>1. i - Len(old) \in 1..Len(evs)
    BY <1>2, <1>3
  <2> QED
    BY <1>1, <1>2, <2>1
<1>5. \A i \in 1..Len(new) : new[i].height \in Nat
  BY <1>2, EventHeights
<1>6. Grown(old, new, h)
  BY <1>2, <1>3, <1>4 DEF Grown
<1>7. \A i \in 1..Len(old) :
         old[i].height <= h /\ \A j \in 1..i : old[j].height <= old[i].height
  BY DEF Ordered
<1>8. Ordered(new, h + 1)
  <2> SUFFICES ASSUME NEW i \in 1..Len(new)
               PROVE  new[i].height <= h + 1 /\ \A j \in 1..i : new[j].height <= new[i].height
    BY DEF Ordered
  <2>1. CASE i <= Len(old)
    <3>1. i \in 1..Len(old)
      BY <1>3, <2>1
    <3>2. new[i] = old[i] /\ old[i].height <= h
      BY <1>2, <1>7, <3>1
    <3>3. new[i].height \in Nat
      BY <1>5
    <3>4. new[i].height <= h + 1
      BY <3>2, <3>3
    <3>5. \A j \in 1..i : new[j].height <= new[i].height
      <4> TAKE j \in 1..i
      <4>1. j \in 1..Len(old)
        BY <1>3, <3>1
      <4>2. new[j] = old[j]
        BY <1>2, <4>1
      <4> QED
        BY <1>7, <3>1, <3>2, <4>2
    <3> QED
      BY <3>4, <3>5
  <2>2. CASE i > Len(old)
    <3>1. \A j \in 1..Len(new) : new[j].height <= h + 1
      <4> TAKE j \in 1..Len(new)
      <4>1. CASE j <= Len(old)
        <5>1. j \in 1..Len(old)
          BY <1>3, <4>1
        <5>2. new[j] = old[j] /\ old[j].height <= h /\ new[j].height \in Nat
          BY <1>2, <1>5, <1>7, <5>1
        <5> QED
          BY <5>2
      <4>2. CASE j > Len(old)
        BY <1>3, <1>4, <4>2
      <4> QED
        BY <1>3, <4>1, <4>2
    <3>2. new[i].height = h + 1
      BY <1>3, <1>4, <2>2
    <3> QED
      BY <3>1, <3>2
  <2> QED
    BY <1>3, <2>1, <2>2
<1> QED
  BY <1>2, <1>6, <1>8 DEF new

(* A committed block extends one log and leaves the other alone.           *)
LEMMA CommitGrows ==
    ASSUME TypeOK, LogOrdered, NEW c \in Chain, NEW evs, BlockEvents(evs, height[c]), Commit(c, evs)
    PROVE  /\ height' \in [Chain -> Nat] /\ log' \in [Chain -> Seq(Event)]
           /\ LogOrdered'
           /\ \A d \in Chain : height[d] <= height'[d] /\ Grown(log[d], log'[d], height[d])
<1>1. /\ height[c] \in Nat /\ log[c] \in Seq(Event) /\ Ordered(log[c], height[c])
      /\ \A d \in Chain : height[d] \in Nat /\ log[d] \in Seq(Event)
  BY DEF TypeOK, ChainTypeOK, LogOrdered
<1>2. /\ height'[c] = height[c] + 1 /\ log'[c] = log[c] \o evs
      /\ \A d \in Chain : d # c => height'[d] = height[d] /\ log'[d] = log[d]
  BY DEF TypeOK, ChainTypeOK, Commit
<1>3. /\ log[c] \o evs \in Seq(Event) /\ Grown(log[c], log[c] \o evs, height[c])
      /\ Ordered(log[c] \o evs, height[c] + 1)
  BY <1>1, ConcatGrows
<1>4. height' \in [Chain -> Nat] /\ log' \in [Chain -> Seq(Event)]
  BY <1>3 DEF TypeOK, ChainTypeOK, Commit
<1>5. LogOrdered'
  BY <1>2, <1>3 DEF LogOrdered
<1>6. \A d \in Chain : Grown(log[d], log[d], height[d])
  BY <1>1 DEF Grown
<1>7. \A d \in Chain : height[d] <= height'[d] /\ Grown(log[d], log'[d], height[d])
  <2> TAKE d \in Chain
  <2>1. CASE d = c
    <3>1. height[c] <= height'[c]
      BY <1>1, <1>2
    <3>2. Grown(log[c], log'[c], height[c])
      BY <1>2, <1>3
    <3> QED
      BY <2>1, <3>1, <3>2
  <2>2. CASE d # c
    BY <1>1, <1>2, <1>6, <2>2
  <2> QED
    BY <2>1, <2>2
<1> QED
  BY <1>4, <1>5, <1>7

(* A block leaves client heights no lower.                                 *)
Later ==
    /\ height' \in [Chain -> Nat] /\ log' \in [Chain -> Seq(Event)]
    /\ client' \in [Chain -> Nat]
    /\ LogOrdered'
    /\ \A d \in Chain : /\ height[d] <= height'[d] /\ client[d] <= client'[d]
                        /\ Grown(log[d], log'[d], height[d])
                        /\ pool'[d] \subseteq pool[d]

(* A block of the users only adds to what the chains have.                 *)
LEMMA NewBlockLater ==
    ASSUME TypeOK, LogOrdered, NEW c \in Chain, NEW n \in Nat, NEW fs \in [1..n -> Flow],
           NewBlock(c, fs)
    PROVE  Later /\ TypeOK'
<1>1. Commit(c, UserEvents(c, fs)) /\ UNCHANGED <<client, consensus, pool>>
  BY DEF NewBlock, CommitUsers
<1>2. notifs' \in [Chain -> Nat] /\ UNCHANGED <<pc, restarts, pass>>
  BY DEF NewBlock, Notify, TypeOK
<1>3. /\ height' \in [Chain -> Nat] /\ log' \in [Chain -> Seq(Event)]
      /\ LogOrdered'
      /\ \A d \in Chain : height[d] <= height'[d] /\ Grown(log[d], log'[d], height[d])
  BY <1>1, UserEventsTyped, CommitGrows
<1>4. TypeOK'
  BY <1>1, <1>2, <1>3 DEF TypeOK, ChainTypeOK, pass
<1>5. \A d \in Chain : client[d] <= client'[d] /\ pool'[d] \subseteq pool[d]
  BY <1>1 DEF TypeOK, ChainTypeOK
<1> QED
  BY <1>1, <1>3, <1>4, <1>5 DEF Later, TypeOK, ChainTypeOK

(* So does one with the relayer's transaction, executed or failed.         *)
LEMMA TxBlockLater ==
    ASSUME TypeOK, LogOrdered, NEW c \in Chain, AcceptTx(c) \/ RejectTx(c)
    PROVE  Later /\ TypeOK'
<1>1. PICK tx \in pool[c] : \/ AcceptTx(c) /\ CommitTx(c, tx)
                            \/ RejectTx(c) /\ CommitFailedTx(c, tx)
  BY DEF AcceptTx, RejectTx
<1>2. tx \in Tx /\ tx.header \in Nat
  BY DEF TypeOK, ChainTypeOK, Tx
<1>3. BlockEvents(<<>>, height[c]) /\ BlockEvents(TxEvents(c, tx), height[c])
  BY <1>2, TxEventsTyped DEF BlockEvents
<1>4. PICK evs : BlockEvents(evs, height[c]) /\ Commit(c, evs)
  BY <1>1, <1>3 DEF CommitTx, CommitFailedTx
<1>5. /\ height' \in [Chain -> Nat] /\ log' \in [Chain -> Seq(Event)]
      /\ LogOrdered'
      /\ \A d \in Chain : height[d] <= height'[d] /\ Grown(log[d], log'[d], height[d])
  BY <1>4, CommitGrows
<1>6. /\ client \in [Chain -> Nat] /\ consensus \in [Chain -> SUBSET Nat]
      /\ pool \in [Chain -> SUBSET Tx] /\ pool' = [pool EXCEPT ![c] = pool[c] \ {tx}]
  BY <1>1 DEF CommitTx, CommitFailedTx, TypeOK, ChainTypeOK
<1>7. /\ client' \in [Chain -> Nat] /\ consensus' \in [Chain -> SUBSET Nat]
      /\ \A d \in Chain : client[d] <= client'[d]
  <2>1. CASE CommitTx(c, tx)
    <3>1. consensus' \in [Chain -> SUBSET Nat]
      BY <1>2, <1>6, <2>1 DEF CommitTx
    <3>2. client' \in [Chain -> Nat] /\ \A d \in Chain : client[d] <= client'[d]
      BY <1>2, <1>6, <2>1 DEF CommitTx
    <3> QED
      BY <3>1, <3>2
  <2>2. CASE CommitFailedTx(c, tx)
    BY <1>6, <2>2 DEF CommitFailedTx
  <2> QED
    BY <1>1, <2>1, <2>2
<1>8. pool' \in [Chain -> SUBSET Tx] /\ \A d \in Chain : pool'[d] \subseteq pool[d]
  <2>1. pool[c] \ {tx} \in SUBSET Tx
    BY <1>6
  <2> QED
    BY <1>6, <2>1
<1>9. /\ notifs' \in [Chain -> Nat] /\ sent' \in {"none", "pooled", "lost", "ok", "failed"}
      /\ UNCHANGED <<pc, restarts, src, from, to, cursor, batch, ref, trusted, header>>
  BY <1>1 DEF AcceptTx, RejectTx, Notify, Outcome, TypeOK
<1> QED
  BY <1>5, <1>7, <1>8, <1>9 DEF Later, TypeOK, ChainTypeOK

-------------------------------------------------------------------------------
(* Type correctness.                                                       *)
LEMMA FaultTyped == ASSUME TypeOK, Fault PROVE TypeOK'
<1>1. CASE \E c \in Chain : DropTx(c)
  BY <1>1 DEF DropTx, Outcome, TypeOK, ChainTypeOK
<1>2. CASE Start
  BY <1>2 DEF Start, PC, TypeOK, ChainTypeOK, chainVars, pass
<1>3. CASE QueryLatestFails
  BY <1>3 DEF QueryLatestFails, Continue, EndPass, PC, TypeOK, ChainTypeOK, chainVars, Chain
<1>4. CASE Stop
  BY <1>4 DEF Stop, EndPass, PC, TypeOK, ChainTypeOK, chainVars, Chain
<1> QED
  BY <1>1, <1>2, <1>3, <1>4 DEF Fault, StreamClosed, QueryFails, ConfirmTooSlow, Abort

(* Translating an event (events.rs:51) appends a message.                  *)
LEMMA TranslateTyped == ASSUME TypeOK, LogOrdered, Translate PROVE TypeOK'
<1>1. cursor' \in Nat \ {0} /\ UNCHANGED <<chainVars, pc, notifs, restarts, src, from, to, trusted, header, sent>>
  BY DEF Translate, TypeOK
<1>2. batch' \in Seq(Message) /\ ref' \in Nat
  <2>1. CASE ~Relayable(NextEvent)
    BY <2>1 DEF Translate, TypeOK
  <2>2. CASE Relayable(NextEvent)
    <3>1. cursor \in 1..Len(log[src]) /\ log[src] \in Seq(Event) /\ height[src] \in Nat
      BY DEF Translate, HasNext, TypeOK, ChainTypeOK
    <3>2. NextEvent.kind \in RelayedKind /\ NextEvent.flow \in Flow /\ NextEvent.height \in Nat
      BY <2>2, <3>1, EventHeights DEF NextEvent, Relayable
    <3>3. MsgFor(NextEvent.kind) \in Msg
      BY <3>2, Tables
    <3>4. [msg |-> MsgFor(NextEvent.kind), flow |-> NextEvent.flow,
           at |-> NextEvent.height, proof |-> height[src] + 1] \in Message
      BY <3>1, <3>2, <3>3 DEF Message
    <3>5. batch' \in Seq(Message)
      BY <2>2, <3>4 DEF Translate, TypeOK
    <3>6. ref' \in Nat
      BY <2>2, <3>1 DEF Translate, TypeOK
    <3> QED
      BY <3>5, <3>6
  <2> QED
    BY <2>1, <2>2
<1> QED
  BY <1>1, <1>2 DEF TypeOK, ChainTypeOK, chainVars

(* Every step of the task keeps the types.                                 *)
LEMMA RelayStepTyped == ASSUME TypeOK, LogOrdered, RelayStep PROVE TypeOK'
<1>1. CASE \E c \in Chain : Select(c)
  BY <1>1 DEF Select, PC, TypeOK, ChainTypeOK, chainVars
<1>2. CASE ScanClient
  BY <1>2, Peers DEF ScanClient, sink, PC, TypeOK, ChainTypeOK, chainVars
<1>3. CASE ScanBlocks
  BY <1>3 DEF ScanBlocks, PC, TypeOK, ChainTypeOK, chainVars
<1>4. CASE Continue
  BY <1>4 DEF Continue, EndPass, PC, TypeOK, ChainTypeOK, chainVars, Chain
<1>5. CASE Stop
  BY <1>5 DEF Stop, EndPass, PC, TypeOK, ChainTypeOK, chainVars, Chain
<1>6. CASE Translate
  BY <1>6, TranslateTyped
<1>7. CASE Parsed \/ ProofHeightReached \/ Flush
  BY <1>7 DEF Parsed, ProofHeightReached, Flush, PC, TypeOK, ChainTypeOK, chainVars, pass
<1>8. CASE RescanClient
  BY <1>8, Peers DEF RescanClient, sink, PC, TypeOK, ChainTypeOK, chainVars
<1>9. CASE FetchHeader
  BY <1>9 DEF FetchHeader, PC, TypeOK, ChainTypeOK, chainVars
<1>10. CASE Broadcast
  <2>1. [header |-> header, trusted |-> trusted, batch |-> batch, from |-> from, to |-> to] \in Tx
    BY DEF Tx, TypeOK
  <2> DEFINE tx == [header |-> header, trusted |-> trusted, batch |-> batch, from |-> from, to |-> to]
  <2>2. {tx} \in SUBSET Tx
    BY <2>1
  <2> HIDE DEF tx
  <2>3. pool \in [Chain -> SUBSET Tx] /\ pool' \in {pool, [pool EXCEPT ![sink] = {tx}]}
    BY <1>10 DEF Broadcast, TypeOK, ChainTypeOK, tx
  <2>4. pool' \in [Chain -> SUBSET Tx]
    BY <2>2, <2>3
  <2>5. sent' \in {"none", "pooled", "lost", "ok", "failed"} /\ pc' \in PC
    BY <1>10 DEF Broadcast, PC
  <2> QED
    BY <1>10, <2>4, <2>5 DEF Broadcast, TypeOK, ChainTypeOK
<1> QED
  BY <1>1, <1>2, <1>3, <1>4, <1>5, <1>6, <1>7, <1>8, <1>9, <1>10
  DEF RelayStep, NothingNew, ChannelNotFound, SkipUpdate, TooManyMessages,
      Confirmed, ConfirmFailed, ConfirmTimeout

-------------------------------------------------------------------------------
(* The inductive invariant: parts of it under a longer log.                *)
LEMMA MadeFromGrows ==
    ASSUME NEW evs \in Seq(Event), NEW evs2 \in Seq(Event), NEW h, Grown(evs, evs2, h),
           NEW b, MadeFrom(b, evs)
    PROVE  MadeFrom(b, evs2)
<1>1. \A i \in 1..Len(evs) : i \in 1..Len(evs2) /\ evs2[i] = evs[i]
  BY DEF Grown
<1> QED
  BY <1>1 DEF MadeFrom

(* A batch covers a longer log up to the same position.                    *)
LEMMA CoversUpToGrows ==
    ASSUME NEW evs \in Seq(Event), NEW evs2 \in Seq(Event), NEW h, Grown(evs, evs2, h),
           NEW b, NEW lo, NEW hi, NEW n \in Nat, n <= Len(evs) + 1, CoversUpTo(b, evs, lo, hi, n)
    PROVE  CoversUpTo(b, evs2, lo, hi, n)
<1>1. \A i \in 1..Len(evs2) : i < n => i \in 1..Len(evs) /\ evs2[i] = evs[i]
  BY DEF Grown
<1> QED
  BY <1>1 DEF CoversUpTo

(* A batch that covers a window of committed blocks covers it in a longer  *)
(* log.                                                                    *)
LEMMA CoversGrows ==
    ASSUME NEW evs \in Seq(Event), NEW evs2 \in Seq(Event), NEW h \in Nat, Grown(evs, evs2, h),
           NEW b, NEW lo, NEW hi \in Nat, hi <= h, Covers(b, evs, lo, hi)
    PROVE  Covers(b, evs2, lo, hi)
<1>1. \A i \in 1..Len(evs2) :
         evs2[i].height <= hi => i \in 1..Len(evs) /\ evs2[i] = evs[i]
  <2> TAKE i \in 1..Len(evs2)
  <2>1. evs2[i].height \in Nat
    BY EventHeights
  <2>2. CASE i \in 1..Len(evs)
    BY <2>2 DEF Grown
  <2>3. CASE i \notin 1..Len(evs)
    BY <2>1, <2>3 DEF Grown
  <2> QED
    BY <2>2, <2>3
<1>2. \A i \in 1..Len(evs) : i < Len(evs) + 1
  OBVIOUS
<1> QED
  BY <1>1, <1>2 DEF Covers, CoversUpTo

(* What a transaction promises survives blocks of both chains.             *)
LEMMA TxInvLater ==
    ASSUME TypeOK, Later, NEW c \in Chain, NEW tx \in Tx, TxInv(c, tx)
    PROVE  TxInv(c, tx)'
<1> DEFINE d == Peer(c)
<1>1. d \in Chain
  BY Peers
<1>2. /\ height[d] \in Nat /\ height'[d] \in Nat /\ client[c] \in Nat /\ client'[c] \in Nat
      /\ log[d] \in Seq(Event) /\ log'[d] \in Seq(Event) /\ Grown(log[d], log'[d], height[d])
      /\ height[d] <= height'[d] /\ client[c] <= client'[c]
  BY <1>1 DEF TypeOK, ChainTypeOK, Later
<1>3. tx.from \in Nat /\ tx.to \in Nat
  BY DEF Tx
<1>4. tx.from <= client'[c] /\ tx.to <= height'[d]
  BY <1>2, <1>3 DEF TxInv
<1>5. MadeFrom(tx.batch, log'[d])
  BY <1>2, MadeFromGrows DEF TxInv
<1>6. Covers(tx.batch, log'[d], tx.from, tx.to)
  BY <1>2, <1>3, CoversGrows DEF TxInv
<1> QED
  BY <1>4, <1>5, <1>6 DEF TxInv

(* So does what the pass under way knows (macros.rs:9-86).                 *)
LEMMA PassInvLater ==
    ASSUME TypeOK, PassInv, Later,
           UNCHANGED <<pc, src, from, to, cursor, batch, ref, trusted, header>>
    PROVE  PassInv'
<1>1. src \in Chain /\ sink \in Chain
  BY Peers DEF TypeOK, sink
<1>2. /\ height[src] \in Nat /\ height'[src] \in Nat
      /\ client[sink] \in Nat /\ client'[sink] \in Nat
      /\ log[src] \in Seq(Event) /\ log'[src] \in Seq(Event)
      /\ Grown(log[src], log'[src], height[src])
      /\ height[src] <= height'[src] /\ client[sink] <= client'[sink]
  BY <1>1 DEF TypeOK, ChainTypeOK, Later
<1>3. from \in Nat /\ to \in Nat /\ cursor \in Nat /\ ref \in Nat /\ header \in Nat
  BY DEF TypeOK
<1>4. MadeFrom(batch, log'[src])
  BY <1>2, MadeFromGrows DEF PassInv
<1>5. pc \in Scanned \cup {"blocks"} => from <= client'[sink]
  BY <1>2, <1>3 DEF PassInv
<1>6. ASSUME pc \in Scanned
      PROVE  /\ to <= height'[src] /\ cursor <= Len(log'[src]) + 1
             /\ CoversUpTo(batch, log'[src], from, to, cursor)
  <2>1. /\ to <= height[src] /\ cursor <= Len(log[src]) + 1
        /\ CoversUpTo(batch, log[src], from, to, cursor)
    BY <1>6 DEF PassInv
  <2>2. Len(log[src]) \in Nat /\ Len(log'[src]) \in Nat /\ Len(log[src]) <= Len(log'[src])
    BY <1>2 DEF Grown
  <2> QED
    BY <1>2, <1>3, <2>1, <2>2, CoversUpToGrows
<1>7. ASSUME pc \in Translated PROVE Covers(batch, log'[src], from, to)
  <2>1. to <= height[src] /\ Covers(batch, log[src], from, to)
    BY <1>7 DEF PassInv, Translated
  <2> QED
    BY <1>2, <1>3, <2>1, CoversGrows
<1>8. pc \in {"rescan", "header"} => ref <= height'[src]
  BY <1>2, <1>3 DEF PassInv
<1> QED
  BY <1>4, <1>5, <1>6, <1>7, <1>8 DEF PassInv, sink

(* A step of the task alone leaves logs and mempools as they are.          *)
LEMMA ChainsUnchanged ==
    ASSUME LogOrdered, PoolInv, UNCHANGED chainVars
    PROVE  LogOrdered' /\ PoolInv'
BY DEF LogOrdered, PoolInv, TxInv, chainVars

(* A pass that ends leaves nothing to promise.                             *)
LEMMA EndPassInv ==
    ASSUME NEW label \in {"select", "stopped"}, EndPass(label)
    PROVE  PassInv'
<1>1. batch' = <<>> /\ Len(batch') = 0
  BY DEF EndPass
<1>2. pc' = label
  BY DEF EndPass
<1>3. ProofsUpTo(batch', ref') /\ MadeFrom(batch', log'[src'])
  BY <1>1 DEF ProofsUpTo, MadeFrom
<1> QED
  BY <1>1, <1>2, <1>3 DEF PassInv, Scanned, Translated

(* Failures, an abort and a restart keep the invariant (tests.rs:33).      *)
LEMMA FaultInv == ASSUME IInv, Fault PROVE LogOrdered' /\ PassInv' /\ PoolInv'
<1>1. CASE \E c \in Chain : DropTx(c)
  <2>1. PICK c \in Chain : DropTx(c)
    BY <1>1
  <2>2. \A d \in Chain : pool'[d] \subseteq pool[d]
    BY <2>1 DEF DropTx, IInv, TypeOK, ChainTypeOK
  <2>3. UNCHANGED <<height, log, client, pc, src, from, to, cursor, batch, ref, trusted, header>>
    BY <2>1 DEF DropTx
  <2>4. LogOrdered' /\ PassInv'
    BY <2>3 DEF IInv, LogOrdered, PassInv, sink
  <2>5. PoolInv'
    BY <2>2, <2>3 DEF IInv, PoolInv, TxInv
  <2> QED
    BY <2>4, <2>5
<1>2. CASE Start
  <2>1. UNCHANGED chainVars /\ UNCHANGED pass /\ pc = "stopped" /\ pc' = "select"
    BY <1>2 DEF Start
  <2>2. PassInv'
    BY <2>1 DEF IInv, PassInv, sink, pass, chainVars, Scanned, Translated
  <2> QED
    BY <2>1, <2>2, ChainsUnchanged DEF IInv
<1>3. CASE QueryLatestFails
  BY <1>3, ChainsUnchanged, EndPassInv DEF QueryLatestFails, Continue, IInv
<1>4. CASE Stop
  BY <1>4, ChainsUnchanged, EndPassInv DEF Stop, IInv
<1> QED
  BY <1>1, <1>2, <1>3, <1>4 DEF Fault, StreamClosed, QueryFails, ConfirmTooSlow, Abort

(* Blocks keep it.                                                         *)
LEMMA ChainStepInv == ASSUME IInv, ChainStep PROVE IInv'
<1>1. Later /\ TypeOK' /\ UNCHANGED <<pc, src, from, to, cursor, batch, ref, trusted, header>>
  <2>1. PICK c \in Chain : \/ \E n \in 0..MaxUserTx : \E fs \in [1..n -> Flow] : NewBlock(c, fs)
                           \/ AcceptTx(c) \/ RejectTx(c)
    BY DEF ChainStep
  <2>2. CASE \E n \in 0..MaxUserTx : \E fs \in [1..n -> Flow] : NewBlock(c, fs)
    <3>1. PICK n \in 0..MaxUserTx : \E fs \in [1..n -> Flow] : NewBlock(c, fs)
      BY <2>2
    <3>2. PICK fs \in [1..n -> Flow] : NewBlock(c, fs)
      BY <3>1
    <3>3. n \in Nat
      BY RelayAssumption
    <3>4. Later /\ TypeOK'
      BY <3>2, <3>3, NewBlockLater DEF IInv
    <3> QED
      BY <3>2, <3>4 DEF NewBlock, pass
  <2>3. CASE AcceptTx(c) \/ RejectTx(c)
    <3>1. Later /\ TypeOK'
      BY <2>3, TxBlockLater DEF IInv
    <3> QED
      BY <2>3, <3>1 DEF AcceptTx, RejectTx
  <2> QED
    BY <2>1, <2>2, <2>3
<1>2. PassInv'
  BY <1>1, PassInvLater DEF IInv
<1>3. PoolInv'
  <2> SUFFICES ASSUME NEW c \in Chain, NEW tx \in pool'[c] PROVE TxInv(c, tx)'
    BY DEF PoolInv
  <2>1. tx \in pool[c]
    BY <1>1 DEF Later
  <2>2. tx \in Tx /\ TxInv(c, tx)
    BY <2>1 DEF IInv, PoolInv, TypeOK, ChainTypeOK
  <2> QED
    BY <1>1, <2>2, TxInvLater DEF IInv
<1> QED
  BY <1>1, <1>2, <1>3 DEF IInv, Later

-------------------------------------------------------------------------------
(* The inductive invariant under the steps of the task.                    *)
LEMMA ScanBlocksInv == ASSUME IInv, ScanBlocks PROVE PassInv'
<1>1. /\ pc = "blocks" /\ pc' = "parse" /\ to' = height[src]
      /\ UNCHANGED <<height, log, client, src, from, batch, ref, header>>
  BY DEF ScanBlocks, chainVars
<1>2. PICK n \in 1..(Len(log[src]) + 1) :
         /\ \A i \in DOMAIN log[src] : i < n <=> log[src][i].height <= from
         /\ cursor' = n
  BY DEF ScanBlocks
<1>3. log[src] \in Seq(Event) /\ height[src] \in Nat /\ from \in Nat
  BY DEF IInv, TypeOK, ChainTypeOK
<1>4. CoversUpTo(batch, log[src], from, to', cursor')
  <2> SUFFICES ASSUME NEW i \in 1..Len(log[src]), i < cursor', from < log[src][i].height
               PROVE  FALSE
    BY DEF CoversUpTo
  <2>1. log[src][i].height <= from
    BY <1>2, <1>3
  <2>2. log[src][i].height \in Nat
    BY <1>3, EventHeights
  <2> QED
    BY <1>3, <2>1, <2>2
<1>5. ProofsUpTo(batch, ref) /\ MadeFrom(batch, log[src]) /\ from <= client[sink]
  BY <1>1 DEF IInv, PassInv
<1>6. to' <= height[src] /\ cursor' <= Len(log[src]) + 1
  BY <1>1, <1>2, <1>3
<1> QED
  BY <1>1, <1>4, <1>5, <1>6 DEF PassInv, Scanned, Translated, sink

(* Translating an event covers one position more.                          *)
LEMMA TranslateInv == ASSUME IInv, Translate PROVE PassInv'
<1> DEFINE evs == log[src]
           e == evs[cursor]
<1>1. /\ pc = "parse" /\ pc' = "parse" /\ cursor' = cursor + 1
      /\ UNCHANGED <<height, log, client, src, from, to, header>>
  BY DEF Translate, chainVars
<1>2. /\ evs \in Seq(Event) /\ Len(evs) \in Nat /\ cursor \in 1..Len(evs)
      /\ height[src] \in Nat /\ batch \in Seq(Message) /\ Len(batch) \in Nat /\ ref \in Nat
  BY DEF Translate, HasNext, IInv, TypeOK, ChainTypeOK
<1>3. /\ ProofsUpTo(batch, ref) /\ MadeFrom(batch, evs) /\ from <= client[sink] /\ to <= height[src]
      /\ CoversUpTo(batch, evs, from, to, cursor)
  BY <1>1 DEF IInv, PassInv, Scanned
<1>4. ProofsUpTo(batch', ref') /\ MadeFrom(batch', evs) /\ CoversUpTo(batch', evs, from, to, cursor')
  <2>1. CASE ~Relayable(e)
    <3>1. batch' = batch /\ ref' = ref
      BY <2>1 DEF Translate, NextEvent
    <3>2. CoversUpTo(batch, evs, from, to, cursor + 1)
      <4>1. \A i \in 1..Len(evs) : (i < cursor + 1 /\ Relayable(evs[i])) => i < cursor
        BY <1>2, <2>1
      <4> QED
        BY <1>3, <4>1 DEF CoversUpTo
    <3> QED
      BY <1>1, <1>3, <3>1, <3>2
  <2>2. CASE Relayable(e)
    <3> DEFINE m == [msg |-> MsgFor(e.kind), flow |-> e.flow, at |-> e.height, proof |-> height[src] + 1]
    <3>1. /\ batch' = Append(batch, m)
          /\ ref' = IF ref >= height[src] + 1 THEN ref ELSE height[src] + 1
      BY <2>2 DEF Translate, NextEvent
    <3>2. /\ Len(batch') = Len(batch) + 1 /\ batch'[Len(batch) + 1] = m
          /\ \A j \in 1..Len(batch) : batch'[j] = batch[j]
      BY <1>2, <3>1
    <3>3. /\ m.msg = MsgFor(e.kind) /\ m.flow = e.flow /\ m.proof = height[src] + 1
          /\ e.kind \in RelayedKind
      BY <2>2 DEF Relayable
    <3> HIDE DEF m, e, evs
    <3>4. ProofsUpTo(batch', ref')
      <4>1. \A j \in 1..Len(batch) : batch[j].proof \in Nat
        <5> TAKE j \in 1..Len(batch)
        <5>1. batch[j] \in Message
          BY <1>2
        <5> QED
          BY <5>1 DEF Message
      <4>2. ref' \in Nat /\ ref <= ref' /\ height[src] + 1 <= ref'
        BY <1>2, <3>1
      <4>3. \A j \in 1..Len(batch) : batch[j].proof <= ref
        BY <1>3 DEF ProofsUpTo
      <4>4. SUFFICES ASSUME NEW j \in 1..Len(batch') PROVE batch'[j].proof <= ref'
        BY DEF ProofsUpTo
      <4>5. CASE j \in 1..Len(batch)
        <5>1. batch'[j] = batch[j] /\ batch[j].proof <= ref
          BY <3>2, <4>3, <4>5
        <5>2. batch[j].proof \in Nat /\ ref \in Nat
          BY <1>2, <4>1, <4>5
        <5> QED
          BY <4>2, <5>1, <5>2
      <4>6. CASE j = Len(batch) + 1
        BY <1>2, <3>2, <3>3, <4>2, <4>6
      <4>7. Len(batch) \in Nat /\ Len(batch') = Len(batch) + 1
        BY <1>2, <3>2
      <4> QED
        BY <4>5, <4>6, <4>7
    <3>5. MadeFrom(batch', evs)
      <4> SUFFICES ASSUME NEW j \in 1..Len(batch')
                   PROVE  \E i \in 1..Len(evs) :
                             /\ evs[i].kind \in RelayedKind
                             /\ batch'[j].msg = MsgFor(evs[i].kind) /\ batch'[j].flow = evs[i].flow
        BY DEF MadeFrom
      <4>1. CASE j \in 1..Len(batch)
        BY <1>3, <3>2, <4>1 DEF MadeFrom
      <4>2. CASE j = Len(batch) + 1
        BY <1>2, <3>2, <3>3, <4>2 DEF e
      <4> QED
        BY <1>2, <3>2, <4>1, <4>2
    <3>6. CoversUpTo(batch', evs, from, to, cursor')
      <4> SUFFICES ASSUME NEW i \in 1..Len(evs), i < cursor + 1, Relayable(evs[i]),
                          from < evs[i].height, evs[i].height <= to
                   PROVE  \E j \in 1..Len(batch') : /\ batch'[j].msg = MsgFor(evs[i].kind)
                                                   /\ batch'[j].flow = evs[i].flow
        BY <1>1 DEF CoversUpTo
      <4>1. CASE i < cursor
        <5>1. PICK j \in 1..Len(batch) : batch[j].msg = MsgFor(evs[i].kind) /\ batch[j].flow = evs[i].flow
          BY <1>3, <4>1 DEF CoversUpTo
        <5>2. j \in 1..Len(batch') /\ batch'[j] = batch[j]
          BY <1>2, <3>2
        <5> QED
          BY <5>1, <5>2
      <4>2. CASE i = cursor
        <5>1. Len(batch) + 1 \in 1..Len(batch')
          BY <1>2, <3>2
        <5> QED
          BY <3>2, <3>3, <4>2, <5>1 DEF e
      <4> QED
        BY <1>2, <4>1, <4>2
    <3> QED
      BY <3>4, <3>5, <3>6
  <2> QED
    BY <2>1, <2>2
<1>5. cursor' <= Len(evs) + 1
  BY <1>1, <1>2
<1> QED
  BY <1>1, <1>3, <1>4, <1>5 DEF PassInv, Scanned, Translated, sink

(* At the end of parse_events the whole window is covered (macros.rs:27).  *)
LEMMA ParsedInv == ASSUME IInv, Parsed PROVE PassInv'
<1> DEFINE evs == log[src]
<1>1. pc = "parse" /\ pc' = "await" /\ UNCHANGED <<height, log, client, pass>>
  BY DEF Parsed, chainVars
<1>2. /\ evs \in Seq(Event) /\ Len(evs) \in Nat /\ cursor \in Nat \ {0} /\ to \in Nat
      /\ Ordered(evs, height[src])
  BY DEF IInv, TypeOK, ChainTypeOK, LogOrdered
<1>3. CoversUpTo(batch, evs, from, to, cursor)
  BY <1>1 DEF IInv, PassInv, Scanned
<1>4. \A i \in 1..Len(evs) : i >= cursor => evs[i].height > to
  <2> SUFFICES ASSUME NEW i \in 1..Len(evs), i >= cursor PROVE evs[i].height > to
    OBVIOUS
  <2>1. cursor \in 1..i /\ cursor \in 1..Len(evs)
    BY <1>2
  <2>2. evs[cursor].height > to
    <3>1. ~(evs[cursor].height <= to)
      BY <1>2, <2>1 DEF Parsed, HasNext
    <3> QED
      BY <1>2, <2>1, <3>1, EventHeights
  <2>3. evs[cursor].height <= evs[i].height
    BY <1>2, <2>1 DEF Ordered
  <2>4. evs[cursor].height \in Nat /\ evs[i].height \in Nat
    BY <1>2, <2>1, EventHeights
  <2> QED
    BY <1>2, <2>2, <2>3, <2>4
<1>5. Covers(batch, evs, from, to)
  <2> SUFFICES ASSUME NEW i \in 1..Len(evs), Relayable(evs[i]), from < evs[i].height, evs[i].height <= to
               PROVE  \E j \in 1..Len(batch) : /\ batch[j].msg = MsgFor(evs[i].kind)
                                              /\ batch[j].flow = evs[i].flow
    BY DEF Covers, CoversUpTo
  <2>1. evs[i].height \in Nat
    BY <1>2, EventHeights
  <2>2. i < cursor
    BY <1>2, <1>4, <2>1
  <2> QED
    BY <1>3, <2>2 DEF CoversUpTo
<1>6. UNCHANGED <<src, from, to, cursor, batch, ref, header>>
  BY <1>1 DEF pass
<1> QED
  BY <1>1, <1>5, <1>6 DEF IInv, PassInv, Scanned, Translated, sink

(* The transaction put in the mempool takes over the pass's promise        *)
(* (client.rs:188).                                                        *)
LEMMA BroadcastInv == ASSUME IInv, Broadcast PROVE LogOrdered' /\ PassInv' /\ PoolInv'
<1>1. /\ pc = "broadcast" /\ pc' = "confirm"
      /\ UNCHANGED <<height, log, client, src, from, to, cursor, batch, ref, trusted, header>>
  BY DEF Broadcast
<1>2. LogOrdered' /\ PassInv'
  BY <1>1 DEF IInv, LogOrdered, PassInv, Scanned, Translated, sink
<1> DEFINE new == [header |-> header, trusted |-> trusted, batch |-> batch, from |-> from, to |-> to]
<1>3. src \in Chain /\ sink \in Chain /\ Peer(sink) = src
  BY Peers DEF IInv, TypeOK, sink
<1>4. TxInv(sink, new)
  <2>1. /\ from <= client[sink] /\ to <= height[src] /\ ref <= header
        /\ ProofsUpTo(batch, ref) /\ MadeFrom(batch, log[src]) /\ Covers(batch, log[src], from, to)
    BY <1>1 DEF IInv, PassInv, Scanned, Translated
  <2>2. ProofsUpTo(batch, header)
    <3>1. ref \in Nat /\ header \in Nat /\ batch \in Seq(Message)
      BY DEF IInv, TypeOK
    <3>2. \A j \in 1..Len(batch) : batch[j] \in Message
      BY <3>1
    <3>3. \A j \in 1..Len(batch) : batch[j].proof \in Nat
      BY <3>2 DEF Message
    <3> QED
      BY <2>1, <3>1, <3>3 DEF ProofsUpTo
  <2> QED
    BY <1>3, <2>1, <2>2 DEF TxInv
<1>5. \A c \in Chain : \A tx \in pool'[c] : tx \in pool[c] \/ (c = sink /\ tx = new)
  <2>1. pool \in [Chain -> SUBSET Tx]
    BY DEF IInv, TypeOK, ChainTypeOK
  <2>2. CASE pool[sink] = {}
    <3>1. pool' = [pool EXCEPT ![sink] = {new}]
      BY <2>2 DEF Broadcast
    <3> HIDE DEF new
    <3> QED
      BY <1>3, <2>1, <3>1
  <2>3. CASE pool[sink] # {}
    BY <2>3 DEF Broadcast
  <2> QED
    BY <2>2, <2>3
<1>6. PoolInv'
  <2> SUFFICES ASSUME NEW c \in Chain, NEW tx \in pool'[c] PROVE TxInv(c, tx)'
    BY DEF PoolInv
  <2> HIDE DEF new
  <2>1. TxInv(c, tx)
    BY <1>4, <1>5 DEF IInv, PoolInv
  <2> QED
    BY <1>1, <2>1 DEF TxInv
<1> QED
  BY <1>2, <1>6

(* Every step of the task keeps the invariant.                             *)
LEMMA RelayStepInv == ASSUME IInv, RelayStep PROVE LogOrdered' /\ PassInv' /\ PoolInv'
<1> USE DEF Scanned, Translated
<1>1. CASE \E c \in Chain : Select(c)
  <2>1. /\ pc = "select" /\ pc' = "scan" /\ batch' = batch /\ ref' = ref
        /\ UNCHANGED chainVars
    BY <1>1 DEF Select
  <2>2. batch = <<>> /\ Len(batch) = 0
    BY <2>1 DEF IInv, PassInv
  <2>3. ProofsUpTo(batch', ref') /\ MadeFrom(batch', log'[src'])
    BY <2>1, <2>2 DEF ProofsUpTo, MadeFrom
  <2>4. PassInv'
    BY <2>1, <2>2, <2>3 DEF PassInv
  <2> QED
    BY <2>1, <2>4, ChainsUnchanged DEF IInv
<1>2. CASE ScanClient
  <2>1. PassInv'
    <3>1. /\ pc = "scan" /\ pc' = "blocks" /\ from' = client[sink]
          /\ UNCHANGED <<height, log, client, src, to, cursor, batch, ref, trusted, header>>
      BY <1>2 DEF ScanClient, chainVars
    <3>2. client[sink] \in Nat
      BY Peers DEF IInv, TypeOK, ChainTypeOK, sink
    <3> QED
      BY <3>1, <3>2 DEF IInv, PassInv, sink
  <2> QED
    BY <1>2, <2>1, ChainsUnchanged DEF IInv, ScanClient
<1>3. CASE ScanBlocks
  BY <1>3, ScanBlocksInv, ChainsUnchanged DEF IInv, ScanBlocks
<1>4. CASE Continue
  BY <1>4, EndPassInv, ChainsUnchanged DEF IInv, Continue
<1>5. CASE Stop
  BY <1>5, EndPassInv, ChainsUnchanged DEF IInv, Stop
<1>6. CASE Translate
  BY <1>6, TranslateInv, ChainsUnchanged DEF IInv, Translate
<1>7. CASE Parsed
  BY <1>7, ParsedInv, ChainsUnchanged DEF IInv, Parsed
<1>8. CASE ProofHeightReached
  <2>1. PassInv'
    <3>1. ref <= height[src]
      BY <1>8 DEF ProofHeightReached, IInv, TypeOK, ChainTypeOK
    <3> QED
      BY <1>8, <3>1 DEF ProofHeightReached, IInv, PassInv, sink, pass, chainVars
  <2> QED
    BY <1>8, <2>1, ChainsUnchanged DEF IInv, ProofHeightReached
<1>9. CASE RescanClient
  <2>1. PassInv'
    BY <1>9 DEF RescanClient, IInv, PassInv, sink, chainVars
  <2> QED
    BY <1>9, <2>1, ChainsUnchanged DEF IInv, RescanClient
<1>10. CASE FetchHeader
  <2>1. PassInv'
    BY <1>10 DEF FetchHeader, IInv, PassInv, sink, chainVars
  <2> QED
    BY <1>10, <2>1, ChainsUnchanged DEF IInv, FetchHeader
<1>11. CASE Flush
  <2>1. PassInv'
    BY <1>11 DEF Flush, IInv, PassInv, sink, pass, chainVars
  <2> QED
    BY <1>11, <2>1, ChainsUnchanged DEF IInv, Flush
<1>12. CASE Broadcast
  BY <1>12, BroadcastInv
<1> QED
  BY <1>1, <1>2, <1>3, <1>4, <1>5, <1>6, <1>7, <1>8, <1>9, <1>10, <1>11, <1>12
  DEF RelayStep, NothingNew, ChannelNotFound, SkipUpdate, TooManyMessages,
      Confirmed, ConfirmFailed, ConfirmTimeout

-------------------------------------------------------------------------------
(* The chains right after the clients are created, and a task that has yet *)
(* to run.                                                                 *)
LEMMA InitInv == Init => IInv
<1> SUFFICES ASSUME Init PROVE IInv
  OBVIOUS
<1>1. TypeOK
  BY DEF Init, ChainInit, TypeOK, ChainTypeOK, PC, Chain
<1>2. LogOrdered
  BY DEF Init, ChainInit, LogOrdered, Ordered
<1>3. PassInv
  BY DEF Init, PassInv, ProofsUpTo, MadeFrom, Scanned, Translated
<1>4. PoolInv
  BY DEF Init, ChainInit, PoolInv
<1> QED
  BY <1>1, <1>2, <1>3, <1>4 DEF IInv

(* IInv is inductive.                                                      *)
LEMMA NextInv == IInv /\ [Next]_vars => IInv'
<1> SUFFICES ASSUME IInv, [Next]_vars PROVE IInv'
  OBVIOUS
<1>1. CASE RelayStep
  BY <1>1, RelayStepTyped, RelayStepInv DEF IInv
<1>2. CASE ChainStep
  BY <1>2, ChainStepInv
<1>3. CASE Fault
  BY <1>3, FaultTyped, FaultInv DEF IInv
<1>4. CASE UNCHANGED vars
  <2>1. UNCHANGED chainVars /\ UNCHANGED <<pc, notifs, restarts, pass>>
    BY <1>4 DEF vars, relayVars
  <2>2. TypeOK' /\ PassInv'
    BY <2>1 DEF IInv, TypeOK, ChainTypeOK, PassInv, sink, chainVars, pass
  <2> QED
    BY <2>1, <2>2, ChainsUnchanged DEF IInv
<1> QED
  BY <1>1, <1>2, <1>3, <1>4 DEF Next

(* IInv holds of every reachable state: the relayer's picture of the scan  *)
(* (macros.rs:9-86) stays right while the chains move on under it, and a   *)
(* transaction keeps it after the task that sent it is gone.               *)
THEOREM Invariant == Spec => []IInv
BY InitInv, NextInv, PTL DEF Spec

(* Every reachable state is well typed.                                    *)
THEOREM TypeCorrect == Spec => []TypeOK
<1>1. IInv => TypeOK
  BY DEF IInv
<1> QED
  BY <1>1, Invariant, PTL

(* The header covers every proof that goes with it.                        *)
THEOREM HeaderCoversProofs == Spec => []UpdateCoversProofs
<1>1. IInv => UpdateCoversProofs
  <2> SUFFICES ASSUME IInv PROVE UpdateCoversProofs
    OBVIOUS
  <2>1. ASSUME pc \in {"flush", "broadcast", "confirm"}, NEW i \in DOMAIN batch
        PROVE  batch[i].proof <= header
    <3>1. ref <= header /\ ProofsUpTo(batch, ref)
      BY <2>1 DEF IInv, PassInv
    <3>2. batch \in Seq(Message) /\ ref \in Nat /\ header \in Nat
      BY DEF IInv, TypeOK
    <3>3. i \in 1..Len(batch) /\ batch[i] \in Message
      BY <2>1, <3>2
    <3>4. batch[i].proof \in Nat
      BY <3>3 DEF Message
    <3> QED
      BY <3>1, <3>2, <3>3, <3>4 DEF ProofsUpTo
  <2>2. ASSUME NEW c \in Chain, NEW tx \in pool[c], NEW i \in DOMAIN tx.batch
        PROVE  tx.batch[i].proof <= tx.header
    <3>1. tx \in Tx /\ TxInv(c, tx)
      BY DEF IInv, PoolInv, TypeOK, ChainTypeOK
    <3>2. tx.batch \in Seq(Message)
      BY <3>1 DEF Tx
    <3> QED
      BY <3>1, <3>2 DEF TxInv, ProofsUpTo
  <2> QED
    BY <2>1, <2>2 DEF UpdateCoversProofs
<1> QED
  BY <1>1, Invariant, PTL

-------------------------------------------------------------------------------
(* What an executed transaction leaves behind.                             *)
LEMMA ReachedGrows ==
    ASSUME NEW c \in Chain, log \in [Chain -> Seq(Event)], log' \in [Chain -> Seq(Event)],
           NEW h, Grown(log[c], log'[c], h), NEW f, NEW k, Reached(c, f, k)
    PROVE  Reached(c, f, k)'
<1>1. PICK i \in DOMAIN log[c] : log[c][i].flow = f /\ log[c][i].kind = k
  BY DEF Reached
<1>2. log[c] \in Seq(Event) /\ log'[c] \in Seq(Event)
  OBVIOUS
<1>3. i \in 1..Len(log[c])
  BY <1>1, <1>2
<1>4. i \in DOMAIN log'[c] /\ log'[c][i] = log[c][i]
  BY <1>2, <1>3 DEF Grown
<1> QED
  BY <1>1, <1>4 DEF Reached

(* Executing a batch does what each of its messages is for: the first of   *)
(* several that do the same has its effect, or the effect was there.       *)
LEMMA ExecutedReached ==
    ASSUME TypeOK, LogOrdered, NEW c \in Chain, NEW tx \in pool[c], CommitTx(c, tx),
           NEW j \in 1..Len(tx.batch)
    PROVE  Reached(c, tx.batch[j].flow, Effect[tx.batch[j].msg])'
<1> DEFINE b == tx.batch
           same == {i \in 1..Len(b) : b[i].msg = b[j].msg /\ b[i].flow = b[j].flow}
           evs == TxEvents(c, tx)
<1>1. tx \in Tx /\ b \in Seq(Message) /\ Len(b) \in Nat
  BY DEF TypeOK, ChainTypeOK, Tx
<1>2. /\ Commit(c, evs) /\ BlockEvents(evs, height[c])
      /\ log \in [Chain -> Seq(Event)] /\ log' \in [Chain -> Seq(Event)]
      /\ Grown(log[c], log'[c], height[c]) /\ log'[c] = log[c] \o evs
  <2>1. Commit(c, evs) /\ BlockEvents(evs, height[c])
    BY <1>1, TxEventsTyped DEF CommitTx
  <2> HIDE DEF evs
  <2>2. log \in [Chain -> Seq(Event)] /\ log'[c] = log[c] \o evs
    BY <2>1 DEF Commit, TypeOK, ChainTypeOK
  <2> QED
    BY <2>1, <2>2, CommitGrows
<1>3. PICK i \in same : \A x \in same : i <= x
  <2>1. same \subseteq Nat /\ same # {}
    BY <1>1
  <2> QED
    BY <2>1, LeastElement, Zenon
<1>4. i \in 1..Len(b) /\ b[i].msg = b[j].msg /\ b[i].flow = b[j].flow /\ ~Repeated(b, i)
  <2>1. i \in 1..Len(b) /\ b[i].msg = b[j].msg /\ b[i].flow = b[j].flow
    BY <1>3
  <2>2. ASSUME NEW x \in 1..(i - 1), b[x].msg = b[i].msg, b[x].flow = b[i].flow PROVE FALSE
    <3>1. x \in same /\ x < i
      BY <1>1, <2>1, <2>2
    <3> QED
      BY <1>1, <1>3, <2>1, <3>1
  <2> QED
    BY <2>1, <2>2 DEF Repeated
<1>5. CASE Redundant(c, b[i])
  <2>1. Reached(c, b[j].flow, Effect[b[j].msg])
    BY <1>4, <1>5 DEF Redundant
  <2> QED
    BY <1>2, <2>1, ReachedGrows
<1>6. CASE ~Redundant(c, b[i])
  <2>1. evs[i] = EventAt(c, Effect[b[i].msg], b[i].flow) /\ Len(evs) = Len(b)
    BY <1>1, <1>4, <1>6 DEF TxEvents
  <2>2. evs[i].kind = Effect[b[j].msg] /\ evs[i].flow = b[j].flow
    BY <1>4, <2>1 DEF EventAt
  <2> HIDE DEF evs, b
  <2>3. /\ Len(log[c]) + i \in DOMAIN log'[c]
        /\ log'[c][Len(log[c]) + i] = evs[i]
    BY <1>1, <1>2, <1>4, <2>1 DEF BlockEvents
  <2> QED
    BY <2>2, <2>3 DEF Reached, b
<1> QED
  BY <1>5, <1>6

(* Only the relayer's transactions move a client.                          *)
LEMMA ClientMoves ==
    ASSUME TypeOK, [Next]_vars, NEW c \in Chain, client'[c] # client[c]
    PROVE  \E tx \in pool[c] : CommitTx(c, tx)
<1>1. ~(UNCHANGED client)
  OBVIOUS
<1>2. ~RelayStep
  BY <1>1 DEF RelayStep, Select, ScanClient, ScanBlocks, NothingNew, Translate, ChannelNotFound,
     Parsed, ProofHeightReached, RescanClient, FetchHeader, SkipUpdate, Flush, TooManyMessages,
     Broadcast, Confirmed, ConfirmFailed, ConfirmTimeout, Continue, Stop, chainVars
<1>3. ~Fault
  BY <1>1 DEF Fault, DropTx, StreamClosed, QueryLatestFails, QueryFails, ConfirmTooSlow,
     Abort, Start, Continue, Stop, chainVars
<1>4. ~(UNCHANGED vars)
  BY <1>1 DEF vars, chainVars
<1>5. PICK d \in Chain : AcceptTx(d)
  BY <1>1, <1>2, <1>3, <1>4 DEF Next, ChainStep, NewBlock, CommitUsers, RejectTx, CommitFailedTx
<1>6. PICK tx \in pool[d] : CommitTx(d, tx)
  BY <1>5 DEF AcceptTx
<1>7. d = c
  BY <1>6 DEF CommitTx, TypeOK, ChainTypeOK
<1> QED
  BY <1>6, <1>7

(* An executed update forwards all that was scanned for it.                *)
THEOREM WindowsForwarded == Spec => UpdateForwardsWindow
<1>1. IInv /\ [Next]_vars => \A c \in Chain : WindowForwarded(c)
  <2> SUFFICES ASSUME IInv, [Next]_vars, NEW c \in Chain, NEW tx \in pool[c] \ pool'[c],
                      NEW f \in Flow, NEW k \in RelayedKind, client'[c] # client[c],
                      NEW i \in DOMAIN log[Peer(c)], Relayable(log[Peer(c)][i]),
                      log[Peer(c)][i].flow = f, log[Peer(c)][i].kind = k,
                      Within(log[Peer(c)][i], client[c], tx.to)
               PROVE  Reached(c, f, Effect[MsgFor(k)])'
    BY DEF WindowForwarded
  <2> DEFINE evs == log[Peer(c)]
  <2>1. TypeOK /\ LogOrdered
    BY DEF IInv
  <2>2. PICK tx0 \in pool[c] : CommitTx(c, tx0)
    BY <2>1, ClientMoves
  <2>3. tx0 = tx
    BY <2>1, <2>2 DEF CommitTx, TypeOK, ChainTypeOK
  <2>4. CommitTx(c, tx) /\ tx \in pool[c]
    BY <2>2, <2>3
  <2>5. tx \in Tx /\ TxInv(c, tx) /\ evs \in Seq(Event) /\ client[c] \in Nat
    BY Peers DEF IInv, PoolInv, TypeOK, ChainTypeOK
  <2>6. i \in 1..Len(evs) /\ i < Len(evs) + 1 /\ evs[i].height \in Nat /\ tx.from \in Nat
    BY <2>5, EventHeights DEF Tx
  <2>7. tx.from < evs[i].height /\ evs[i].height <= tx.to
    BY <2>5, <2>6 DEF TxInv, Within
  <2>8. PICK j \in 1..Len(tx.batch) : tx.batch[j].msg = MsgFor(k) /\ tx.batch[j].flow = f
    BY <2>5, <2>6, <2>7 DEF TxInv, Covers, CoversUpTo
  <2>9. Reached(c, tx.batch[j].flow, Effect[tx.batch[j].msg])'
    BY <2>1, <2>4, ExecutedReached
  <2> QED
    BY <2>8, <2>9 DEF Reached
<1> QED
  BY <1>1, Invariant, PTL DEF Spec, UpdateForwardsWindow

-------------------------------------------------------------------------------
(* Refinement of FlowProtocol.                                             *)
LEMMA InStepsDone ==
    \A c \in Chain, f \in Flow, k \in Kind \ {"NoOp"} :
        /\ <<c, f, k>> \in StepsDone <=> Reached(c, f, k)
        /\ <<c, f, k>> \in StepsDone' <=> Reached(c, f, k)'
BY DEF StepsDone, Reached

(* The message made of an event has the effect that follows it             *)
(* (events.rs:56).                                                         *)
LEMMA FollowsTable ==
    \A k \in RelayedKind : /\ <<k, Effect[MsgFor(k)]>> \in Flows!Follows
                          /\ k \in Kind \ {"NoOp"}
<1> SUFFICES ASSUME NEW k \in RelayedKind
             PROVE  /\ <<k, Effect[MsgFor(k)]>> \in Flows!Follows
                    /\ k \in Kind \ {"NoOp"}
  OBVIOUS
<1>1. k \in {"OpenInitConnection", "OpenTryConnection", "OpenAckConnection",
             "OpenInitChannel", "OpenTryChannel", "OpenAckChannel", "CloseInitChannel",
             "SendPacket", "WriteAcknowledgement"}
  BY DEF RelayedKind, ConnectionMsg, ChannelMsg, PacketKind
<1>2. \A m \in Msg : Effect[m] \in Kind
  BY Tables
<1>3. /\ Effect["MsgConnectionOpenTry"] = "OpenTryConnection"
      /\ Effect["MsgConnectionOpenAck"] = "OpenAckConnection"
      /\ Effect["MsgConnectionOpenConfirm"] = "OpenConfirmConnection"
      /\ Effect["MsgChannelOpenTry"] = "OpenTryChannel"
      /\ Effect["MsgChannelOpenAck"] = "OpenAckChannel"
      /\ Effect["MsgChannelOpenConfirm"] = "OpenConfirmChannel"
      /\ Effect["MsgChannelCloseConfirm"] = "CloseConfirmChannel"
      /\ Effect["MsgRecvPacket"] = "WriteAcknowledgement"
      /\ Effect["MsgAcknowledgement"] = "AcknowledgePacket"
  BY DEF Effect
<1>4. k \in Kind \ {"NoOp"}
  BY <1>1, <1>2, <1>3 DEF Kind, StartKind, Msg, Effect
<1>5. <<k, Effect[MsgFor(k)]>> \in Flows!Follows
  BY <1>1, <1>3 DEF Flows!Follows, MsgFor, ConnectionMsg, ChannelMsg, MsgOfPacket
<1> QED
  BY <1>4, <1>5

(* A block advances the flows if each of its events was called for.        *)
LEMMA BlockAdvances ==
    ASSUME TypeOK, LogOrdered, NEW c \in Chain, NEW evs, BlockEvents(evs, height[c]), Commit(c, evs),
           \A i \in 1..Len(evs) :
               evs[i].kind # "NoOp" => Flows!CalledFor(c, evs[i].flow, evs[i].kind)
    PROVE  Flows!Advance
<1>1. /\ log \in [Chain -> Seq(Event)] /\ log' \in [Chain -> Seq(Event)]
      /\ \A d \in Chain : Grown(log[d], log'[d], height[d])
      /\ \A d \in Chain : d # c => log'[d] = log[d]
      /\ log'[c] = log[c] \o evs
  BY CommitGrows DEF TypeOK, ChainTypeOK, Commit
<1>2. ASSUME NEW s \in StepsDone PROVE s \in StepsDone'
  <2>1. PICK d \in Chain, f \in Flow, k \in Kind \ {"NoOp"} : s = <<d, f, k>>
    BY <1>2 DEF StepsDone
  <2>2. Reached(d, f, k)
    BY <1>2, <2>1, InStepsDone
  <2>3. Reached(d, f, k)'
    BY <1>1, <2>2, ReachedGrows
  <2> QED
    BY <2>1, <2>3, InStepsDone
<1>3. ASSUME NEW s \in StepsDone' \ StepsDone
      PROVE  /\ s = <<s[1], s[2], s[3]>> /\ s[1] \in Chain /\ s[2] \in Flow
             /\ Flows!CalledFor(s[1], s[2], s[3])
  <2>1. PICK d \in Chain, f \in Flow, k \in Kind \ {"NoOp"} : s = <<d, f, k>>
    BY <1>3 DEF StepsDone
  <2>2. Reached(d, f, k)' /\ ~Reached(d, f, k)
    BY <1>3, <2>1, InStepsDone
  <2>3. PICK i \in DOMAIN log'[d] : log'[d][i].flow = f /\ log'[d][i].kind = k
    BY <2>2 DEF Reached
  <2>4. d = c
    BY <1>1, <2>2, <2>3 DEF Reached
  <2>5. log[c] \in Seq(Event) /\ evs \in Seq(Event) /\ Len(log[c]) \in Nat /\ Len(evs) \in Nat
    BY <1>1 DEF BlockEvents
  <2>6. i \in 1..(Len(log[c]) + Len(evs))
    BY <1>1, <2>3, <2>4, <2>5
  <2>7. ~(i \in 1..Len(log[c]))
    <3>1. i \in 1..Len(log[c]) => i \in DOMAIN log[c] /\ log'[c][i] = log[c][i]
      BY <1>1, <2>5
    <3> QED
      BY <2>2, <2>3, <2>4, <3>1 DEF Reached
  <2>8. i - Len(log[c]) \in 1..Len(evs) /\ log'[c][i] = evs[i - Len(log[c])]
    BY <1>1, <2>5, <2>6, <2>7
  <2>9. Flows!CalledFor(c, f, k)
    BY <2>3, <2>4, <2>8
  <2> QED
    BY <2>1, <2>4, <2>9
<1> QED
  BY <1>2, <1>3 DEF Flows!Advance, Flows!Chain, Chain

(* A block takes flows to steps called for, never further.                 *)
LEMMA ChainStepAdvances == ASSUME IInv, ChainStep PROVE Flows!Advance
<1>1. TypeOK /\ LogOrdered /\ PoolInv
  BY DEF IInv
<1>2. PICK c \in Chain : \/ \E n \in 0..MaxUserTx : \E fs \in [1..n -> Flow] : NewBlock(c, fs)
                         \/ AcceptTx(c) \/ RejectTx(c)
  BY DEF ChainStep
<1>3. CASE \E n \in 0..MaxUserTx : \E fs \in [1..n -> Flow] : NewBlock(c, fs)
  <2>1. PICK n \in 0..MaxUserTx : \E fs \in [1..n -> Flow] : NewBlock(c, fs)
    BY <1>3
  <2>2. PICK fs \in [1..n -> Flow] : NewBlock(c, fs)
    BY <2>1
  <2>3. n \in Nat /\ Len(fs) = n
    BY RelayAssumption
  <2>4. BlockEvents(UserEvents(c, fs), height[c]) /\ Commit(c, UserEvents(c, fs)) /\ Users(c, fs)
    BY <1>1, <2>2, <2>3, UserEventsTyped DEF NewBlock, CommitUsers
  <2>5. \A i \in 1..Len(UserEvents(c, fs)) :
           Flows!CalledFor(c, UserEvents(c, fs)[i].flow, UserEvents(c, fs)[i].kind)
    <3>1. Len(UserEvents(c, fs)) = n
      BY <2>3 DEF UserEvents
    <3>2. \A i \in 1..n : UserEvents(c, fs)[i] = EventAt(c, Starts[fs[i]], fs[i])
      BY <2>3 DEF UserEvents
    <3>3. \A i \in 1..n : Origin[fs[i]] = c
      BY <2>3, <2>4 DEF Users
    <3>4. ASSUME NEW i \in 1..n
          PROVE  Flows!CalledFor(c, UserEvents(c, fs)[i].flow, UserEvents(c, fs)[i].kind)
      <4>1. UserEvents(c, fs)[i].flow = fs[i] /\ UserEvents(c, fs)[i].kind = Starts[fs[i]]
        <5>1. UserEvents(c, fs)[i] = EventAt(c, Starts[fs[i]], fs[i])
          BY <3>2
        <5> DEFINE e == UserEvents(c, fs)[i]
        <5>2. e = [kind |-> Starts[fs[i]], flow |-> fs[i], height |-> height[c] + 1]
          BY <5>1, Zenon DEF EventAt
        <5> HIDE DEF e
        <5>3. e.flow = fs[i] /\ e.kind = Starts[fs[i]]
          BY <5>2
        <5> QED
          BY <5>3 DEF e
      <4> QED
        BY <3>3, <4>1 DEF Flows!CalledFor
    <3> QED
      BY <3>1, <3>4
  <2> QED
    BY <1>1, <2>4, <2>5, BlockAdvances
<1>4. CASE RejectTx(c)
  <2>1. Commit(c, <<>>) /\ BlockEvents(<<>>, height[c])
    BY <1>4 DEF RejectTx, CommitFailedTx, BlockEvents
  <2> QED
    BY <1>1, <2>1, BlockAdvances
<1>5. CASE AcceptTx(c)
  <2>1. PICK tx \in pool[c] : CommitTx(c, tx)
    BY <1>5 DEF AcceptTx
  <2> DEFINE evs == TxEvents(c, tx)
             b == tx.batch
             old == log[Peer(c)]
  <2>2. /\ tx \in Tx /\ MadeFrom(b, old) /\ b \in Seq(Message) /\ old \in Seq(Event)
        /\ Peer(c) \in Chain
    BY <1>1, Peers DEF PoolInv, TxInv, TypeOK, ChainTypeOK, Tx
  <2>3. BlockEvents(evs, height[c]) /\ Commit(c, evs)
    BY <1>1, <2>1, <2>2, TxEventsTyped DEF CommitTx
  <2>4. ASSUME NEW j \in 1..Len(evs), evs[j].kind # "NoOp"
        PROVE  Flows!CalledFor(c, evs[j].flow, evs[j].kind)
    <3>1. j \in 1..Len(b) /\ evs[j].flow = b[j].flow /\ evs[j].kind = Effect[b[j].msg]
      BY <2>2, <2>4 DEF TxEvents, EventAt
    <3>2. PICK i \in 1..Len(old) : /\ old[i].kind \in RelayedKind /\ b[j].msg = MsgFor(old[i].kind)
                                  /\ b[j].flow = old[i].flow
      BY <2>2, <3>1 DEF MadeFrom
    <3>3. Reached(Peer(c), old[i].flow, old[i].kind)
      BY <2>2, <3>2 DEF Reached
    <3>4. old[i].kind \in Kind \ {"NoOp"} /\ <<old[i].kind, Effect[b[j].msg]>> \in Flows!Follows
      BY <3>2, FollowsTable
    <3>5. <<Peer(c), old[i].flow, old[i].kind>> \in StepsDone
      BY <2>2, <3>3, <3>4, InStepsDone, EventHeights
    <3>6. Flows!Other(c) = Peer(c)
      BY DEF Flows!Other, Peer
    <3> HIDE DEF old, b, evs
    <3> QED
      BY <3>1, <3>2, <3>4, <3>5, <3>6 DEF Flows!CalledFor
  <2> HIDE DEF evs
  <2> QED
    BY <1>1, <2>3, <2>4, BlockAdvances
<1> QED
  BY <1>2, <1>3, <1>4, <1>5

(* The chains and the relayer implement FlowProtocol.                      *)
THEOREM Refinement == Spec => ImplementsFlows
<1>1. Init => Flows!Init
  <2> SUFFICES ASSUME Init PROVE StepsDone = {}
    BY DEF Flows!Init
  <2>1. \A c \in Chain : DOMAIN log[c] = {}
    BY DEF Init, ChainInit
  <2> QED
    BY <2>1 DEF StepsDone, Reached
<1>2. IInv /\ [Next]_vars => [Flows!Advance]_StepsDone
  <2> SUFFICES ASSUME IInv, [Next]_vars PROVE Flows!Advance \/ UNCHANGED StepsDone
    OBVIOUS
  <2>1. CASE ChainStep
    BY <2>1, ChainStepAdvances
  <2>2. CASE UNCHANGED log
    BY <2>2 DEF StepsDone, Reached
  <2>3. CASE RelayStep
    BY <2>2, <2>3 DEF RelayStep, Select, ScanClient, ScanBlocks, NothingNew, Translate,
       ChannelNotFound, Parsed, ProofHeightReached, RescanClient, FetchHeader, SkipUpdate, Flush,
       TooManyMessages, Broadcast, Confirmed, ConfirmFailed, ConfirmTimeout, Continue, Stop, chainVars
  <2>4. CASE Fault
    BY <2>2, <2>4 DEF Fault, DropTx, StreamClosed, QueryLatestFails, QueryFails, ConfirmTooSlow,
       Abort, Start, Continue, Stop, chainVars
  <2>5. CASE UNCHANGED vars
    BY <2>2, <2>5 DEF vars, chainVars
  <2> QED
    BY <2>1, <2>3, <2>4, <2>5 DEF Next
<1> QED
  BY <1>1, <1>2, Invariant, PTL DEF Spec, ImplementsFlows, Flows!Spec
===============================================================================
