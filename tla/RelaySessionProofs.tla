-------------------------- MODULE RelaySessionProofs --------------------------
(***************************************************************************)
(* Proofs about one uninterrupted call of relay(): nothing is executed     *)
(* twice, only stale proofs are refused, no sequence number is used twice. *)
(***************************************************************************)
EXTENDS RelayProofs

(* No two arms make one message, no two messages have one effect, and no   *)
(* message has the effect of a user's.                                     *)
LEMMA Injective ==
    /\ \A k, l \in RelayedKind : MsgFor(k) = MsgFor(l) => k = l
    /\ \A m, l \in Msg : Effect[m] = Effect[l] => m = l
    /\ \A m \in Msg : Effect[m] \notin StartKind /\ Effect[m] # "NoOp"
    /\ "NoOp" \notin StartKind
<1>1. \A k, l \in RelayedKind : MsgFor(k) = MsgFor(l) => k = l
  BY DEF RelayedKind, MsgFor, ConnectionMsg, ChannelMsg, MsgOfPacket, PacketKind
<1>2. \A m, l \in Msg : Effect[m] = Effect[l] => m = l
  BY DEF Msg, Effect
<1>3. \A m \in Msg : Effect[m] \notin StartKind /\ Effect[m] # "NoOp"
  BY DEF Msg, Effect, StartKind
<1> QED
  BY <1>1, <1>2, <1>3 DEF StartKind

(* The first clause of LoggedOnce, without order.                          *)
LEMMA SameEvent ==
    ASSUME NEW evs \in Seq(Event), LoggedOnce(evs), NEW i \in 1..Len(evs), NEW k \in 1..Len(evs),
           evs[i].flow = evs[k].flow, evs[i].kind = evs[k].kind
    PROVE  i = k
<1>1. ~(i < k)
  <2> SUFFICES ASSUME i < k PROVE FALSE
    OBVIOUS
  <2>1. i \in 1..(k - 1)
    OBVIOUS
  <2> QED
    BY <2>1 DEF LoggedOnce
<1>2. ~(k < i)
  <2> SUFFICES ASSUME k < i PROVE FALSE
    OBVIOUS
  <2>1. k \in 1..(i - 1)
    OBVIOUS
  <2> QED
    BY <2>1 DEF LoggedOnce
<1> QED
  BY <1>1, <1>2

(* A longer log has the events a batch was made of.                        *)
LEMMA MadeWithinGrows ==
    ASSUME NEW evs \in Seq(Event), NEW evs2 \in Seq(Event), NEW h, Grown(evs, evs2, h),
           NEW b, NEW lo, NEW hi, NEW n \in Nat, NEW m \in Nat, n <= m,
           MadeWithin(b, evs, lo, hi, n)
    PROVE  MadeWithin(b, evs2, lo, hi, m)
<1>1. \A i \in 1..Len(evs) : i \in 1..Len(evs2) /\ evs2[i] = evs[i] /\ (i < n => i < m)
  BY DEF Grown
<1> QED
  BY <1>1 DEF MadeWithin

-------------------------------------------------------------------------------
(* What is sent has not been executed before.                              *)
LEMMA SentIsFresh ==
    ASSUME TypeOK, NEW c \in Chain, NEW tx \in pool[c], SessionTx(c, tx),
           \A d \in Chain : LoggedOnce(log[d]) /\ Caused(d)
    PROVE  \A j \in 1..Len(tx.batch) :
              ~Redundant(c, tx.batch[j]) /\ ~Repeated(tx.batch, j)
<1> DEFINE b == tx.batch
           evs == log[Peer(c)]
<1>1. /\ tx \in Tx /\ b \in Seq(Message) /\ tx.from \in Nat /\ client[c] \in Nat
      /\ log[c] \in Seq(Event) /\ evs \in Seq(Event) /\ Peer(c) \in Chain
  BY Peers DEF TypeOK, ChainTypeOK, Tx
<1> SUFFICES ASSUME NEW j \in 1..Len(b), Redundant(c, b[j]) PROVE FALSE
  BY DEF SessionTx, NoneRepeated
<1>2. b[j] \in Message /\ b[j].msg \in Msg
  <2> HIDE DEF b, evs
  <2>1. b[j] \in Message
    BY <1>1
  <2> QED
    BY <2>1 DEF Message
<1>3. PICK i \in 1..Len(log[c]) : log[c][i].flow = b[j].flow /\ log[c][i].kind = Effect[b[j].msg]
  <2> HIDE DEF b, evs
  <2>1. DOMAIN log[c] = 1..Len(log[c])
    BY <1>1
  <2>2. Reached(c, b[j].flow, Effect[b[j].msg])
    BY DEF Redundant
  <2> QED
    BY <2>1, <2>2, Zenon DEF Reached
<1>4. PICK k \in 1..Len(evs) :
         /\ evs[k].kind \in RelayedKind /\ evs[k].height <= client[c]
         /\ evs[k].flow = b[j].flow /\ Effect[MsgFor(evs[k].kind)] = Effect[b[j].msg]
  <2>1. log[c][i].kind \notin StartKind
    BY <1>2, <1>3, Injective
  <2>2. Caused(c)
    OBVIOUS
  <2>3. PICK k \in 1..Len(log[Peer(c)]) :
           LET e == log[Peer(c)][k] IN
           /\ e.kind \in RelayedKind /\ e.height <= client[c]
           /\ e.flow = log[c][i].flow /\ Effect[MsgFor(e.kind)] = log[c][i].kind
    BY <2>1, <2>2, Zenon DEF Caused
  <2> HIDE DEF b
  <2> QED
    BY <1>3, <2>3
<1>5. PICK l \in 1..Len(evs) :
         /\ client[c] < evs[l].height /\ evs[l].kind \in RelayedKind
         /\ b[j].msg = MsgFor(evs[l].kind) /\ b[j].flow = evs[l].flow
  BY DEF SessionTx, MadeWithin
<1>6. evs[k].kind = evs[l].kind
  <2>1. MsgFor(evs[k].kind) \in Msg
    BY <1>4, Tables
  <2> QED
    BY <1>2, <1>4, <1>5, <2>1, Injective
<1>7. k = l
  <2> HIDE DEF evs
  <2>1. LoggedOnce(evs)
    BY <1>1 DEF evs
  <2> QED
    BY <1>1, <1>4, <1>5, <1>6, <2>1, SameEvent
<1>8. evs[k].height \in Nat
  BY <1>1, EventHeights
<1> QED
  BY <1>1, <1>4, <1>5, <1>7, <1>8

(* A block whose events are new, each once, keeps a log without            *)
(* repetition.                                                             *)
LEMMA LoggedOnceGrows ==
    ASSUME NEW old \in Seq(Event), LoggedOnce(old), NEW evs \in Seq(Event),
           \A i \in 1..Len(evs) :
              /\ evs[i].kind # "NoOp"
              /\ \A k \in 1..Len(old) : ~(old[k].flow = evs[i].flow /\ old[k].kind = evs[i].kind)
              /\ \A k \in 1..(i - 1) : ~(evs[k].flow = evs[i].flow /\ evs[k].kind = evs[i].kind)
    PROVE  LoggedOnce(old \o evs)
<1> DEFINE new == old \o evs
<1>1. /\ Len(new) = Len(old) + Len(evs) /\ Len(old) \in Nat /\ Len(evs) \in Nat
      /\ \A i \in 1..Len(old) : new[i] = old[i]
      /\ \A i \in (Len(old) + 1)..Len(new) : new[i] = evs[i - Len(old)]
  OBVIOUS
<1> HIDE DEF new
<1>2. ASSUME NEW i \in 1..Len(new)
      PROVE  /\ new[i].kind # "NoOp"
             /\ \A j \in 1..(i - 1) : new[j].flow = new[i].flow => new[j].kind # new[i].kind
  <2>1. CASE i \in 1..Len(old)
    <3>1. \A j \in 1..(i - 1) : j \in 1..Len(old)
      BY <1>1, <2>1
    <3> QED
      BY <1>1, <2>1, <3>1 DEF LoggedOnce
  <2>2. CASE i \notin 1..Len(old)
    <3>1. new[i] = evs[i - Len(old)] /\ i - Len(old) \in 1..Len(evs)
      BY <1>1, <2>2
    <3>2. ASSUME NEW j \in 1..(i - 1), new[j].flow = new[i].flow, new[j].kind = new[i].kind
          PROVE  FALSE
      <4>1. CASE j \in 1..Len(old)
        BY <1>1, <3>1, <3>2, <4>1
      <4>2. CASE j \notin 1..Len(old)
        <5>1. new[j] = evs[j - Len(old)] /\ j - Len(old) \in 1..((i - Len(old)) - 1)
          BY <1>1, <4>2
        <5> QED
          BY <3>1, <3>2, <5>1
      <4> QED
        BY <4>1, <4>2
    <3> QED
      BY <3>1, <3>2
  <2> QED
    BY <2>1, <2>2
<1> QED
  BY <1>2 DEF LoggedOnce, new

-------------------------------------------------------------------------------
(* Blocks.                                                                 *)

(* A relayed step stays caused while logs and clients grow.                *)
LEMMA CausedGrows ==
    ASSUME NEW c \in Chain, log \in [Chain -> Seq(Event)], log' \in [Chain -> Seq(Event)],
           client \in [Chain -> Nat], client' \in [Chain -> Nat], client[c] <= client'[c],
           NEW h, Grown(log[Peer(c)], log'[Peer(c)], h),
           NEW k \in 1..Len(log[Peer(c)]), log[Peer(c)][k].height <= client[c]
    PROVE  /\ k \in 1..Len(log'[Peer(c)]) /\ log'[Peer(c)][k] = log[Peer(c)][k]
           /\ log'[Peer(c)][k].height <= client'[c]
<1>1. Peer(c) \in Chain
  BY Peers
<1>2. log[Peer(c)] \in Seq(Event) /\ log'[Peer(c)] \in Seq(Event)
  BY <1>1
<1>3. k \in 1..Len(log'[Peer(c)]) /\ log'[Peer(c)][k] = log[Peer(c)][k]
  BY <1>2 DEF Grown
<1>4. log[Peer(c)][k].height \in Nat
  BY <1>2, EventHeights
<1> QED
  BY <1>3, <1>4

(* A block keeps Caused if each of its events is a user's or caused.       *)
LEMMA CausedBlock ==
    ASSUME TypeOK, Later, NEW c \in Chain, NEW evs \in Seq(Event), log'[c] = log[c] \o evs,
           \A d \in Chain : d # c => log'[d] = log[d],
           \A d \in Chain : Caused(d),
           \A i \in 1..Len(evs) :
              evs[i].kind \in StartKind \/
              \E k \in 1..Len(log[Peer(c)]) :
                  LET e == log[Peer(c)][k] IN
                  /\ e.kind \in RelayedKind /\ e.height <= client'[c]
                  /\ e.flow = evs[i].flow /\ Effect[MsgFor(e.kind)] = evs[i].kind
    PROVE  \A d \in Chain : Caused(d)'
<1>1. /\ log \in [Chain -> Seq(Event)] /\ log' \in [Chain -> Seq(Event)]
      /\ client \in [Chain -> Nat] /\ client' \in [Chain -> Nat]
      /\ \A d \in Chain : client[d] <= client'[d] /\ Grown(log[d], log'[d], height[d])
  BY DEF TypeOK, ChainTypeOK, Later
<1>2. ASSUME NEW d \in Chain, NEW i \in 1..Len(log'[d]), log'[d][i].kind \notin StartKind
      PROVE  \E k \in 1..Len(log'[Peer(d)]) :
                LET e == log'[Peer(d)][k] IN
                /\ e.kind \in RelayedKind /\ e.height <= client'[d]
                /\ e.flow = log'[d][i].flow /\ Effect[MsgFor(e.kind)] = log'[d][i].kind
  <2>1. CASE i \in 1..Len(log[d])
    <3>1. log'[d][i] = log[d][i]
      BY <1>1, <2>1 DEF Grown
    <3>2. PICK k \in 1..Len(log[Peer(d)]) :
             /\ log[Peer(d)][k].kind \in RelayedKind /\ log[Peer(d)][k].height <= client[d]
             /\ log[Peer(d)][k].flow = log[d][i].flow
             /\ Effect[MsgFor(log[Peer(d)][k].kind)] = log[d][i].kind
      BY <1>2, <2>1, <3>1 DEF Caused
    <3>3. /\ k \in 1..Len(log'[Peer(d)]) /\ log'[Peer(d)][k] = log[Peer(d)][k]
          /\ log'[Peer(d)][k].height <= client'[d]
      BY <1>1, <3>2, Peers, CausedGrows
    <3> QED
      BY <3>1, <3>2, <3>3
  <2>2. CASE i \notin 1..Len(log[d])
    <3>1. d = c
      BY <1>2, <2>2
    <3>2. log'[c][i] = evs[i - Len(log[c])] /\ i - Len(log[c]) \in 1..Len(evs)
      BY <1>1, <1>2, <2>2, <3>1
    <3>3. Peer(c) # c /\ Peer(c) \in Chain
      BY Peers
    <3>4. log'[Peer(c)] = log[Peer(c)]
      BY <3>3
    <3> QED
      BY <1>2, <3>1, <3>2, <3>4
  <2> QED
    BY <2>1, <2>2
<1> QED
  BY <1>2 DEF Caused

(* The pass under way, when a block is added under it: it keeps what it    *)
(* knows unless its own transaction is executed or it is over.             *)
LEMMA SessionPassLater ==
    ASSUME TypeOK, PassInv, Later, SessionPass,
           UNCHANGED <<pc, src, from, to, cursor, batch, ref, trusted, header>>,
           \A d \in Chain : consensus[d] \subseteq consensus'[d],
           \/ UNCHANGED <<client, sent>>
           \/ pc = "stopped"
           \/ pc = "confirm" /\ sent' # "pooled"
    PROVE  SessionPass'
<1>1. src \in Chain /\ sink \in Chain
  BY Peers DEF TypeOK, sink
<1>2. /\ height[src] \in Nat /\ log[src] \in Seq(Event) /\ log'[src] \in Seq(Event)
      /\ Grown(log[src], log'[src], height[src])
      /\ from \in Nat /\ to \in Nat /\ cursor \in Nat
  BY <1>1 DEF TypeOK, ChainTypeOK, Later
<1>3. pc \in Scanned \cup {"blocks"} /\ (pc = "confirm" => sent' = "pooled") => from = client'[sink]
  BY DEF SessionPass, Scanned
<1>4. ASSUME pc = "parse"
      PROVE  from < to /\ \A i \in 1..Len(log'[src]) : cursor <= i => from < log'[src][i].height
  <2>1. from < to /\ to <= height[src]
    BY <1>4 DEF SessionPass, PassInv, Scanned
  <2>2. ASSUME NEW i \in 1..Len(log'[src]), cursor <= i PROVE from < log'[src][i].height
    <3>1. CASE i \in 1..Len(log[src])
      BY <1>2, <1>4, <2>2, <3>1 DEF SessionPass, Grown
    <3>2. CASE i \notin 1..Len(log[src])
      <4>1. log'[src][i].height > height[src]
        BY <1>2, <3>2 DEF Grown
      <4>2. log'[src][i].height \in Nat
        BY <1>2, EventHeights
      <4> QED
        BY <1>2, <2>1, <4>1, <4>2
    <3> QED
      BY <3>1, <3>2
  <2> QED
    BY <2>1, <2>2
<1>5. pc \in Scanned => MadeWithin(batch, log'[src], from, to, cursor) /\ NoneRepeated(batch)
  BY <1>2, MadeWithinGrows DEF SessionPass
<1>6. pc \in {"header", "flush", "broadcast", "confirm"} => trusted \in consensus'[sink]
  BY <1>1 DEF SessionPass
<1> QED
  BY <1>3, <1>4, <1>5, <1>6 DEF SessionPass, sink, NoneRepeated, Repeated

(* A transaction in a mempool, when a block does not move its client.      *)
LEMMA SessionTxLater ==
    ASSUME TypeOK, Later, NEW d \in Chain, NEW tx \in pool[d], SessionTx(d, tx),
           client'[d] = client[d], consensus[d] \subseteq consensus'[d]
    PROVE  SessionTx(d, tx)'
<1> DEFINE p == Peer(d)
<1>1. p \in Chain
  BY Peers
<1>2. /\ log[p] \in Seq(Event) /\ log'[p] \in Seq(Event) /\ Grown(log[p], log'[p], height[p])
  BY <1>1 DEF TypeOK, ChainTypeOK, Later
<1>3. Len(log[p]) + 1 \in Nat /\ Len(log'[p]) + 1 \in Nat /\ Len(log[p]) + 1 <= Len(log'[p]) + 1
  BY <1>2 DEF Grown
<1>4. MadeWithin(tx.batch, log'[p], tx.from, tx.to, Len(log'[p]) + 1)
  BY <1>2, <1>3, MadeWithinGrows DEF SessionTx
<1> QED
  BY <1>4 DEF SessionTx, HeaderExtends, NoneRepeated, Repeated

(* Users start a flow once.                                                *)
LEMMA NewBlockSession ==
    ASSUME IInv, SessionInv, NEW c \in Chain, NEW n \in Nat, NEW fs \in [1..n -> Flow],
           NewBlock(c, fs)
    PROVE  SessionInv'
<1> DEFINE evs == UserEvents(c, fs)
<1>1. TypeOK /\ LogOrdered /\ PassInv /\ Later
  BY NewBlockLater DEF IInv
<1>2. /\ Users(c, fs) /\ Commit(c, evs) /\ BlockEvents(evs, height[c])
      /\ UNCHANGED <<client, consensus, pool, pc, restarts, pass>>
  BY <1>1, UserEventsTyped DEF NewBlock, CommitUsers
<1>3. /\ \A i \in 1..Len(evs) : /\ evs[i].flow = fs[i] /\ evs[i].kind = Starts[fs[i]]
                                /\ fs[i] \in Flow /\ i \in 1..Len(fs)
  <2>1. Len(fs) = n /\ Len(evs) = n
    BY DEF UserEvents
  <2>2. \A i \in 1..n : evs[i] = EventAt(c, Starts[fs[i]], fs[i])
    BY <2>1 DEF UserEvents
  <2>3. ASSUME NEW i \in 1..n PROVE evs[i].flow = fs[i] /\ evs[i].kind = Starts[fs[i]]
    <3>1. evs[i] = [kind |-> Starts[fs[i]], flow |-> fs[i], height |-> height[c] + 1]
      BY <2>2 DEF EventAt
    <3> HIDE DEF evs
    <3> QED
      BY <3>1
  <2> HIDE DEF evs
  <2> QED
    BY <2>1, <2>3
<1> HIDE DEF evs
<1>4. /\ log[c] \in Seq(Event) /\ evs \in Seq(Event) /\ log'[c] = log[c] \o evs
      /\ \A d \in Chain : d # c => log'[d] = log[d]
  BY <1>1, <1>2 DEF TypeOK, ChainTypeOK, Commit, BlockEvents
<1>5. \A d \in Chain : client'[d] \in consensus'[d]
  BY <1>2 DEF SessionInv
<1>6. ASSUME restarts' = 0
      PROVE  \A d \in Chain : LoggedOnce(log[d]) /\ Caused(d)
  BY <1>2, <1>6 DEF SessionInv
<1>7. ASSUME restarts' = 0
      PROVE  LoggedOnce(log'[c])
  <2>1. ASSUME NEW i \in 1..Len(evs)
        PROVE  /\ evs[i].kind # "NoOp"
               /\ \A k \in 1..Len(log[c]) :
                     ~(log[c][k].flow = evs[i].flow /\ log[c][k].kind = evs[i].kind)
               /\ \A k \in 1..(i - 1) : ~(evs[k].flow = evs[i].flow /\ evs[k].kind = evs[i].kind)
    <3>1. evs[i].kind # "NoOp"
      BY <1>3, FlowAssumption, Injective
    <3>2. ~Reached(c, fs[i], Starts[fs[i]])
      BY <1>2, <1>3 DEF Users, Started
    <3>3. \A k \in 1..(i - 1) : k \in 1..Len(evs) /\ k # i
      BY <1>4
    <3>4. \A k \in 1..(i - 1) : fs[k] # fs[i]
      BY <1>2, <1>3, <3>3 DEF Users
    <3> QED
      BY <1>3, <1>4, <3>1, <3>2, <3>3, <3>4 DEF Reached
  <2> QED
    BY <1>4, <1>6, <1>7, <2>1, LoggedOnceGrows
<1>8. ASSUME restarts' = 0
      PROVE  \A d \in Chain : Caused(d)'
  <2>1. \A i \in 1..Len(evs) : evs[i].kind \in StartKind
    BY <1>3, FlowAssumption
  <2> QED
    BY <1>1, <1>4, <1>6, <1>8, <2>1, CausedBlock
<1>9. ASSUME restarts' = 0
      PROVE  SessionPass' /\ SessionPool'
  <2>1. SessionPass /\ SessionPool
    BY <1>2, <1>9 DEF SessionInv
  <2>2. SessionPass'
    BY <1>1, <1>2, <2>1, SessionPassLater DEF pass
  <2>3. \A d \in Chain : \A tx \in pool[d] : SessionTx(d, tx)'
    BY <1>1, <1>2, <2>1, SessionTxLater DEF SessionPool
  <2>4. SessionPool'
    BY <1>2, <2>1, <2>3 DEF SessionPool, OwnTx, pass, sink
  <2> QED
    BY <2>2, <2>4
<1>10. ASSUME restarts' = 0 PROVE \A d \in Chain : LoggedOnce(log'[d])
  BY <1>4, <1>6, <1>7, <1>10
<1> QED
  BY <1>5, <1>8, <1>9, <1>10 DEF SessionInv

(* A block with the transaction, executed or failed.                       *)
BlockWith(c, tx) ==
    \/ AcceptTx(c) /\ CommitTx(c, tx)
    \/ RejectTx(c) /\ CommitFailedTx(c, tx)

(* What the relayer's transaction leaves of the pass and of the mempools:  *)
(* it was the only one, and the task waits for it or has returned.         *)
LEMMA TxBlockSession ==
    ASSUME IInv, SessionInv, restarts = 0, NEW c \in Chain, NEW tx \in pool[c],
           BlockWith(c, tx)
    PROVE  SessionPass' /\ SessionPool'
<1> USE DEF BlockWith
<1>1. TypeOK /\ LogOrdered /\ PassInv /\ Later
  BY TxBlockLater DEF IInv
<1>2. /\ SessionPass /\ SessionPool /\ pool[c] = {tx} /\ SessionTx(c, tx)
      /\ \A d \in Chain : LoggedOnce(log[d]) /\ Caused(d)
  BY DEF SessionInv, SessionPool
<1>3. /\ pool'[c] = {} /\ \A d \in Chain : d # c => pool'[d] = pool[d] /\ client'[d] = client[d]
      /\ \A d \in Chain : consensus[d] \subseteq consensus'[d]
      /\ UNCHANGED <<pc, restarts, src, from, to, cursor, batch, ref, trusted, header>>
  <2>1. /\ UNCHANGED <<pc, restarts, src, from, to, cursor, batch, ref, trusted, header>>
        /\ pool' = [pool EXCEPT ![c] = pool[c] \ {tx}]
    BY DEF AcceptTx, RejectTx, CommitTx, CommitFailedTx
  <2>2. /\ client \in [Chain -> Nat] /\ consensus \in [Chain -> SUBSET Nat]
        /\ pool \in [Chain -> SUBSET Tx]
    BY <1>1 DEF TypeOK, ChainTypeOK
  <2>3. CASE CommitTx(c, tx)
    <3>1. /\ \A d \in Chain : d # c => client'[d] = client[d]
          /\ \A d \in Chain : consensus[d] \subseteq consensus'[d]
      BY <2>2, <2>3 DEF CommitTx
    <3> QED
      BY <1>2, <2>1, <2>2, <3>1
  <2>4. CASE CommitFailedTx(c, tx)
    <3>1. UNCHANGED <<client, consensus>>
      BY <2>4 DEF CommitFailedTx
    <3> QED
      BY <1>2, <2>1, <2>2, <3>1
  <2> QED
    BY <2>3, <2>4
<1>4. \/ pc = "stopped"
      \/ pc = "confirm" /\ sent = "pooled" /\ c = sink /\ tx = OwnTx
  BY <1>2 DEF SessionPool
<1>6. pc = "stopped" \/ (pc = "confirm" /\ sent' # "pooled")
  BY <1>4 DEF AcceptTx, RejectTx, Outcome, Awaiting
<1>7. SessionPass'
  BY <1>1, <1>2, <1>3, <1>6, SessionPassLater
<1>8. SessionPool'
  <2>1. ASSUME NEW d \in Chain, pool'[d] # {} PROVE pc' = "stopped"
    BY <1>2, <1>3, <1>4, <2>1 DEF SessionPool
  <2>2. ASSUME NEW d \in Chain, NEW ty \in pool'[d] PROVE SessionTx(d, ty)' /\ pool'[d] = {ty}
    <3>1. d # c
      BY <1>3, <2>2
    <3>2. /\ ty \in pool[d] /\ client'[d] = client[d] /\ pool'[d] = pool[d]
          /\ consensus[d] \subseteq consensus'[d]
      BY <1>3, <2>2, <3>1
    <3>3. SessionTx(d, ty) /\ pool[d] = {ty}
      BY <1>2, <3>2 DEF SessionPool
    <3> QED
      BY <1>1, <3>2, <3>3, SessionTxLater
  <2> QED
    BY <2>1, <2>2 DEF SessionPool
<1> QED
  BY <1>7, <1>8

(* An executed transaction logs new events only, each of them caused by    *)
(* one that the client is moved past.                                      *)
LEMMA AcceptSession ==
    ASSUME IInv, SessionInv, restarts = 0, NEW c \in Chain, NEW tx \in pool[c],
           AcceptTx(c), CommitTx(c, tx)
    PROVE  \A d \in Chain : LoggedOnce(log'[d]) /\ Caused(d)'
<1> DEFINE evs == TxEvents(c, tx)
           b == tx.batch
<1>1. TypeOK /\ LogOrdered /\ Later
  BY TxBlockLater DEF IInv
<1>2. /\ SessionTx(c, tx) /\ \A d \in Chain : LoggedOnce(log[d]) /\ Caused(d)
      /\ tx \in Tx /\ b \in Seq(Message) /\ tx.header \in Nat /\ tx.to \in Nat
  BY <1>1 DEF SessionInv, SessionPool, TypeOK, ChainTypeOK, Tx
<1>3. \A j \in 1..Len(b) : ~Redundant(c, b[j]) /\ ~Repeated(b, j)
  BY <1>1, <1>2, SentIsFresh
<1>4. Commit(c, evs) /\ BlockEvents(evs, height[c])
  BY <1>1, <1>2, TxEventsTyped DEF CommitTx
<1>5. ASSUME NEW i \in 1..Len(evs)
      PROVE  /\ i \in 1..Len(b) /\ evs[i].kind = Effect[b[i].msg] /\ evs[i].flow = b[i].flow
             /\ b[i].msg \in Msg
  <2>1. i \in 1..Len(b)
    BY <1>2 DEF TxEvents
  <2>2. evs[i] = EventAt(c, Effect[b[i].msg], b[i].flow)
    BY <1>3, <2>1 DEF TxEvents
  <2>3. evs[i] = [kind |-> Effect[b[i].msg], flow |-> b[i].flow, height |-> height[c] + 1]
    BY <2>2 DEF EventAt
  <2> HIDE DEF evs, b
  <2>4. b[i] \in Message
    BY <1>2, <2>1
  <2> QED
    BY <2>1, <2>3, <2>4 DEF Message
<1> HIDE DEF evs
<1>6. /\ log[c] \in Seq(Event) /\ evs \in Seq(Event) /\ log'[c] = log[c] \o evs
      /\ \A d \in Chain : d # c => log'[d] = log[d]
  BY <1>1, <1>4 DEF TypeOK, ChainTypeOK, Commit, BlockEvents
<1>7. LoggedOnce(log'[c])
  <2>1. ASSUME NEW i \in 1..Len(evs)
        PROVE  /\ evs[i].kind # "NoOp"
               /\ \A k \in 1..Len(log[c]) :
                     ~(log[c][k].flow = evs[i].flow /\ log[c][k].kind = evs[i].kind)
               /\ \A k \in 1..(i - 1) : ~(evs[k].flow = evs[i].flow /\ evs[k].kind = evs[i].kind)
    <3>1. evs[i].kind # "NoOp"
      BY <1>5, Injective
    <3>2. ~Reached(c, b[i].flow, Effect[b[i].msg])
      BY <1>3, <1>5 DEF Redundant
    <3>3. \A k \in 1..Len(log[c]) :
             ~(log[c][k].flow = evs[i].flow /\ log[c][k].kind = evs[i].kind)
      <4>1. evs[i].kind = Effect[b[i].msg] /\ evs[i].flow = b[i].flow
        BY <1>5
      <4>2. DOMAIN log[c] = 1..Len(log[c])
        BY <1>6
      <4> HIDE DEF b
      <4> QED
        BY <3>2, <4>1, <4>2, Zenon DEF Reached
    <3>4. ASSUME NEW k \in 1..(i - 1), evs[k].flow = evs[i].flow, evs[k].kind = evs[i].kind
          PROVE  FALSE
      <4>1. k \in 1..Len(evs)
        BY <1>6
      <4>2. b[k].flow = b[i].flow /\ b[k].msg = b[i].msg
        <5>1. /\ evs[k].kind = Effect[b[k].msg] /\ evs[k].flow = b[k].flow /\ b[k].msg \in Msg
              /\ evs[i].kind = Effect[b[i].msg] /\ evs[i].flow = b[i].flow /\ b[i].msg \in Msg
          BY <1>5, <4>1
        <5> HIDE DEF b
        <5> QED
          BY <3>4, <5>1, Injective
      <4> QED
        BY <1>3, <1>5, <4>2 DEF Repeated
    <3> QED
      BY <3>1, <3>3, <3>4
  <2> QED
    BY <1>2, <1>6, <2>1, LoggedOnceGrows
<1>8. \A d \in Chain : Caused(d)'
  <2>1. tx.header <= client'[c] /\ client'[c] \in Nat
    BY <1>1, <1>2 DEF CommitTx, TypeOK, ChainTypeOK
  <2>2. ASSUME NEW i \in 1..Len(evs)
        PROVE  \E k \in 1..Len(log[Peer(c)]) :
                  LET e == log[Peer(c)][k] IN
                  /\ e.kind \in RelayedKind /\ e.height <= client'[c]
                  /\ e.flow = evs[i].flow /\ Effect[MsgFor(e.kind)] = evs[i].kind
    <3>1. PICK k \in 1..Len(log[Peer(c)]) :
             /\ log[Peer(c)][k].height <= tx.to /\ log[Peer(c)][k].kind \in RelayedKind
             /\ b[i].msg = MsgFor(log[Peer(c)][k].kind) /\ b[i].flow = log[Peer(c)][k].flow
      BY <1>2, <1>5 DEF SessionTx, MadeWithin
    <3>2. log[Peer(c)][k].height \in Nat
      <4>1. log[Peer(c)] \in Seq(Event)
        BY <1>1, Peers DEF TypeOK, ChainTypeOK
      <4> QED
        BY <4>1, EventHeights
    <3>3. log[Peer(c)][k].height <= client'[c]
      <4>1. tx.to <= tx.header
        BY <1>2 DEF SessionTx
      <4>2. log[Peer(c)][k].height <= tx.to
        BY <3>1
      <4> QED
        BY <1>2, <2>1, <3>2, <4>1, <4>2
    <3> QED
      BY <1>5, <3>1, <3>3
  <2> QED
    BY <1>1, <1>2, <1>6, <2>2, CausedBlock
<1> QED
  BY <1>2, <1>6, <1>7, <1>8

(* Blocks keep SessionInv.                                                 *)
LEMMA ChainStepSession == ASSUME IInv, SessionInv, ChainStep PROVE SessionInv'
<1>1. PICK c \in Chain : \/ \E n \in 0..MaxUserTx : \E fs \in [1..n -> Flow] : NewBlock(c, fs)
                         \/ AcceptTx(c) \/ RejectTx(c)
  BY DEF ChainStep
<1>2. CASE \E n \in 0..MaxUserTx : \E fs \in [1..n -> Flow] : NewBlock(c, fs)
  <2>1. PICK n \in 0..MaxUserTx : \E fs \in [1..n -> Flow] : NewBlock(c, fs)
    BY <1>2
  <2>2. n \in Nat
    BY RelayAssumption
  <2> QED
    BY <2>1, <2>2, NewBlockSession
<1>3. CASE AcceptTx(c)
  <2>1. PICK tx \in pool[c] : CommitTx(c, tx)
    BY <1>3 DEF AcceptTx
  <2>2. restarts' = restarts
    BY <1>3 DEF AcceptTx
  <2>3. ASSUME restarts = 0
        PROVE  \A d \in Chain : LoggedOnce(log'[d]) /\ Caused(d)'
    BY <1>3, <2>1, <2>3, AcceptSession
  <2>4. ASSUME restarts = 0 PROVE SessionPass' /\ SessionPool'
    <3>1. BlockWith(c, tx)
      BY <1>3, <2>1 DEF BlockWith
    <3> QED
      BY <2>4, <3>1, TxBlockSession
  <2>5. \A d \in Chain : client'[d] \in consensus'[d]
    BY <2>1 DEF CommitTx, SessionInv, IInv, TypeOK, ChainTypeOK
  <2> QED
    BY <2>2, <2>3, <2>4, <2>5 DEF SessionInv
<1>4. CASE RejectTx(c)
  <2>1. PICK tx \in pool[c] : CommitFailedTx(c, tx)
    BY <1>4 DEF RejectTx
  <2>2. restarts' = restarts /\ UNCHANGED <<client, consensus>>
    BY <1>4, <2>1 DEF RejectTx, CommitFailedTx
  <2>3. UNCHANGED log
    <3>1. log' = [log EXCEPT ![c] = log[c] \o <<>>] /\ log[c] \in Seq(Event)
          /\ log \in [Chain -> Seq(Event)]
      BY <2>1 DEF CommitFailedTx, Commit, IInv, TypeOK, ChainTypeOK
    <3>2. log[c] \o <<>> = log[c]
      BY <3>1
    <3> QED
      BY <3>1, <3>2
  <2>4. ASSUME restarts = 0 PROVE SessionPass' /\ SessionPool'
    <3>1. BlockWith(c, tx)
      BY <1>4, <2>1 DEF BlockWith
    <3> QED
      BY <2>4, <3>1, TxBlockSession
  <2> QED
    BY <2>2, <2>3, <2>4 DEF SessionInv, Caused
<1> QED
  BY <1>1, <1>2, <1>3, <1>4

-------------------------------------------------------------------------------
(* Steps of the task and failures.                                         *)

(* A step that leaves the chains alone leaves what the logs say.           *)
LEMMA LogsUnchanged ==
    ASSUME SessionInv, UNCHANGED <<height, log, client, consensus, restarts>>,
           restarts = 0 => SessionPass' /\ SessionPool'
    PROVE  SessionInv'
BY DEF SessionInv, Caused

(* Nothing is in a mempool of the uninterrupted call but what the task     *)
(* waits for.                                                              *)
LEMMA PoolsEmpty ==
    ASSUME SessionPool, UNCHANGED pool, ~(pc = "confirm" /\ sent = "pooled"), pc # "stopped"
    PROVE  SessionPool'
BY DEF SessionPool

(* A pass that ends has nothing to know; one that returns may leave its    *)
(* transaction behind.                                                     *)
LEMMA EndPassSession ==
    ASSUME NEW label \in {"select", "stopped"}, EndPass(label)
    PROVE  SessionPass'
BY DEF EndPass, SessionPass, Scanned

(* relay() returns.                                                        *)
LEMMA StopSession == ASSUME SessionInv, Stop PROVE SessionInv'
<1>1. EndPass("stopped") /\ UNCHANGED <<chainVars, restarts>>
  BY DEF Stop
<1>2. SessionPass'
  BY <1>1, EndPassSession
<1>3. restarts = 0 => SessionPool'
  <2>1. pc' = "stopped"
    BY <1>1 DEF EndPass
  <2> QED
    BY <1>1, <2>1 DEF SessionInv, SessionPool, SessionTx, HeaderExtends, chainVars
<1> QED
  BY <1>1, <1>2, <1>3, LogsUnchanged DEF chainVars

(* A pass ends in `continue', with its transaction executed or none.       *)
LEMMA ContinueSession ==
    ASSUME SessionInv, Continue, ~(pc = "confirm" /\ sent = "pooled"), pc # "stopped"
    PROVE  SessionInv'
<1>1. EndPass("select") /\ UNCHANGED <<chainVars, restarts>>
  BY DEF Continue
<1>2. SessionPass'
  BY <1>1, EndPassSession
<1>3. restarts = 0 => SessionPool'
  BY <1>1, PoolsEmpty DEF SessionInv, chainVars
<1> QED
  BY <1>1, <1>2, <1>3, LogsUnchanged DEF chainVars

(* The next event is another than those translated before, so that its     *)
(* message repeats none (events.rs:51).                                    *)
LEMMA TranslateSession ==
    ASSUME IInv, SessionInv, restarts = 0, Translate
    PROVE  SessionPass'
<1> DEFINE evs == log[src]
           e == evs[cursor]
           m == [msg |-> MsgFor(e.kind), flow |-> e.flow, at |-> e.height, proof |-> height[src] + 1]
<1>1. /\ evs \in Seq(Event) /\ batch \in Seq(Message) /\ cursor \in Nat \ {0} /\ to \in Nat
      /\ LoggedOnce(evs)
  BY DEF IInv, TypeOK, ChainTypeOK, SessionInv
<1>2. /\ pc = "parse" /\ pc' = "parse" /\ cursor' = cursor + 1
      /\ UNCHANGED <<log, client, src, from, to>>
      /\ cursor \in 1..Len(evs) /\ e.height <= to
  BY <1>1 DEF Translate, HasNext, chainVars
<1>3. /\ from = client[sink] /\ from < to /\ from < e.height
      /\ \A i \in 1..Len(evs) : cursor <= i => from < evs[i].height
      /\ MadeWithin(batch, evs, from, to, cursor) /\ NoneRepeated(batch)
  BY <1>1, <1>2 DEF SessionInv, SessionPass, Scanned
<1>4. \A i \in 1..Len(evs) : cursor + 1 <= i => from < evs[i].height
  BY <1>1, <1>3
<1>5. MadeWithin(batch', evs, from, to, cursor + 1) /\ NoneRepeated(batch')
  <2>1. CASE ~Relayable(e)
    <3>1. batch' = batch
      BY <2>1 DEF Translate, NextEvent
    <3>2. \A i \in 1..Len(evs) : i < cursor => i < cursor + 1
      BY <1>1
    <3> HIDE DEF evs
    <3>3. MadeWithin(batch, evs, from, to, cursor + 1)
      BY <1>3, <3>2 DEF MadeWithin
    <3> QED
      BY <1>3, <3>1, <3>3
  <2>2. CASE Relayable(e)
    <3>1. batch' = Append(batch, m)
      BY <2>2 DEF Translate, NextEvent
    <3>2. /\ Len(batch') = Len(batch) + 1 /\ Len(batch) \in Nat
          /\ \A j \in 1..Len(batch) : batch'[j] = batch[j]
          /\ batch'[Len(batch) + 1] = m
      BY <1>1, <3>1
    <3>3. m.msg = MsgFor(e.kind) /\ m.flow = e.flow /\ e.kind \in RelayedKind
      BY <2>2 DEF Relayable
    <3> HIDE DEF m
    <3>4. ASSUME NEW j \in 1..Len(batch')
          PROVE  \E i \in 1..Len(evs) :
                    /\ i < cursor + 1 /\ from < evs[i].height /\ evs[i].height <= to
                    /\ evs[i].kind \in RelayedKind
                    /\ batch'[j].msg = MsgFor(evs[i].kind) /\ batch'[j].flow = evs[i].flow
      <4>1. CASE j \in 1..Len(batch)
        <5>1. PICK i \in 1..Len(evs) :
                 /\ i < cursor /\ from < evs[i].height /\ evs[i].height <= to
                 /\ evs[i].kind \in RelayedKind
                 /\ batch[j].msg = MsgFor(evs[i].kind) /\ batch[j].flow = evs[i].flow
          BY <1>3, <4>1 DEF MadeWithin
        <5>2. i < cursor + 1
          BY <1>1, <5>1
        <5> QED
          BY <3>2, <4>1, <5>1, <5>2
      <4>2. CASE j = Len(batch) + 1
        <5>1. batch'[j].msg = MsgFor(e.kind) /\ batch'[j].flow = e.flow
          BY <3>2, <3>3, <4>2
        <5>2. /\ cursor \in 1..Len(evs) /\ cursor < cursor + 1
              /\ from < e.height /\ e.height <= to /\ e.kind \in RelayedKind
          BY <1>1, <1>2, <1>3, <3>3
        <5> HIDE DEF evs
        <5> QED
          BY <5>1, <5>2
      <4> QED
        BY <3>2, <4>1, <4>2
    <3>5. ASSUME NEW j \in 1..Len(batch), batch[j].msg = m.msg, batch[j].flow = m.flow
          PROVE  FALSE
      <4>1. PICK i \in 1..Len(evs) : /\ i < cursor /\ evs[i].kind \in RelayedKind
                                     /\ m.msg = MsgFor(evs[i].kind) /\ m.flow = evs[i].flow
        BY <1>3, <3>5 DEF MadeWithin
      <4>2. evs[i].kind = e.kind /\ evs[i].flow = e.flow
        BY <3>3, <4>1, Injective
      <4> HIDE DEF evs
      <4>3. i = cursor
        BY <1>1, <1>2, <4>2, SameEvent
      <4> QED
        BY <1>1, <4>1, <4>3
    <3>6. ASSUME NEW j \in 1..Len(batch'), NEW i \in 1..(j - 1),
                 batch'[i].msg = batch'[j].msg, batch'[i].flow = batch'[j].flow
          PROVE  FALSE
      <4>1. i \in 1..Len(batch) /\ batch'[i] = batch[i]
        BY <3>2
      <4>2. CASE j \in 1..Len(batch)
        BY <1>3, <3>2, <3>6, <4>1, <4>2 DEF NoneRepeated, Repeated
      <4>3. CASE j = Len(batch) + 1
        BY <3>2, <3>5, <3>6, <4>1, <4>3
      <4> QED
        BY <3>2, <4>2, <4>3
    <3> QED
      BY <3>4, <3>6 DEF MadeWithin, NoneRepeated, Repeated
  <2> QED
    BY <2>1, <2>2
<1> QED
  BY <1>2, <1>3, <1>4, <1>5 DEF SessionPass, sink

(* The transaction sent is the only one.                                   *)
LEMMA BroadcastSession ==
    ASSUME IInv, SessionInv, restarts = 0, Broadcast
    PROVE  SessionPass' /\ SessionPool'
<1>1. /\ src \in Chain /\ sink \in Chain /\ Peer(sink) = src /\ log[src] \in Seq(Event)
      /\ pool \in [Chain -> SUBSET Tx] /\ cursor \in Nat
  BY Peers DEF IInv, TypeOK, ChainTypeOK, sink
<1>2. /\ pc = "broadcast" /\ pc' = "confirm"
      /\ UNCHANGED <<height, log, client, consensus, src, from, to, cursor, batch, ref, trusted,
                     header>>
  BY DEF Broadcast
<1>3. SessionPass /\ \A c \in Chain : pool[c] = {}
  BY <1>2 DEF SessionInv, SessionPool
<1>4. sent' = "pooled" /\ pool' = [pool EXCEPT ![sink] = {OwnTx}]
  BY <1>1, <1>3 DEF Broadcast, OwnTx
<1>5. SessionPass'
  BY <1>2, <1>3, <1>4 DEF SessionPass, Scanned, sink
<1>6. SessionTx(sink, OwnTx)
  <2>1. /\ from = client[sink] /\ to <= header /\ NoneRepeated(batch)
        /\ MadeWithin(batch, log[src], from, to, cursor)
        /\ trusted \in consensus[sink] /\ trusted < header
    BY <1>2, <1>3 DEF SessionPass, Scanned
  <2>2. cursor <= Len(log[src]) + 1
    BY <1>2 DEF IInv, PassInv, Scanned
  <2>3. MadeWithin(batch, log[src], from, to, Len(log[src]) + 1)
    BY <1>1, <2>1, <2>2 DEF MadeWithin
  <2>4. /\ OwnTx.from = from /\ OwnTx.to = to /\ OwnTx.header = header /\ OwnTx.batch = batch
        /\ OwnTx.trusted = trusted
    BY DEF OwnTx
  <2> QED
    BY <1>1, <2>1, <2>3, <2>4 DEF SessionTx, HeaderExtends
<1>7. SessionPool'
  <2>1. \A c \in Chain : c # sink => pool'[c] = {}
    BY <1>1, <1>3, <1>4
  <2>2. pool'[sink] = {OwnTx} /\ OwnTx' = OwnTx /\ sink' = sink
    BY <1>1, <1>2, <1>4 DEF OwnTx, sink
  <2>3. SessionTx(sink, OwnTx)'
    BY <1>2, <1>6 DEF SessionTx, HeaderExtends, OwnTx, sink
  <2>4. ASSUME NEW c \in Chain
        PROVE  \A tx \in pool'[c] : SessionTx(c, tx)' /\ pool'[c] = {tx}
    <3>1. CASE c = sink
      BY <2>2, <2>3, <3>1
    <3>2. CASE c # sink
      BY <2>1, <3>2
    <3> QED
      BY <3>1, <3>2
  <2> QED
    BY <1>2, <1>4, <2>1, <2>2, <2>4 DEF SessionPool
<1> QED
  BY <1>5, <1>7

(* Every other step of a pass: what it reads is what SessionPass says, and *)
(* nothing is in a mempool meanwhile.                                      *)
LEMMA PassStepSession ==
    ASSUME IInv, SessionInv, restarts = 0,
           \/ \E c \in Chain : Select(c)
           \/ ScanClient \/ ScanBlocks \/ Parsed \/ ProofHeightReached
           \/ RescanClient \/ FetchHeader \/ Flush
    PROVE  SessionPass' /\ SessionPool'
<1>1. /\ TypeOK /\ PassInv /\ SessionPass /\ SessionPool
      /\ \A c \in Chain : client[c] \in consensus[c]
  BY DEF IInv, SessionInv
<1>2. src \in Chain /\ sink \in Chain /\ log[src] \in Seq(Event) /\ from \in Nat /\ height[src] \in Nat
  BY <1>1, Peers DEF TypeOK, ChainTypeOK, sink
<1>3. CASE \E c \in Chain : Select(c)
  <2>1. pc = "select" /\ pc' = "scan" /\ UNCHANGED chainVars
    BY <1>3 DEF Select
  <2>2. SessionPass'
    BY <2>1 DEF SessionPass, Scanned
  <2> QED
    BY <1>1, <2>1, <2>2, PoolsEmpty DEF chainVars
<1>4. CASE ScanClient
  <2>1. pc = "scan" /\ pc' = "blocks" /\ from' = client[sink] /\ UNCHANGED <<chainVars, src>>
    BY <1>4 DEF ScanClient
  <2>2. SessionPass'
    BY <2>1 DEF SessionPass, Scanned, chainVars, sink
  <2> QED
    BY <1>1, <2>1, <2>2, PoolsEmpty DEF chainVars
<1>5. CASE ScanBlocks
  <2>1. /\ pc = "blocks" /\ pc' = "parse" /\ from < height[src] /\ to' = height[src]
        /\ UNCHANGED <<chainVars, src, from, batch>>
    BY <1>2, <1>5 DEF ScanBlocks
  <2>2. batch = <<>> /\ from = client[sink]
    BY <1>1, <2>1 DEF PassInv, SessionPass, Scanned
  <2>3. \A i \in 1..Len(log[src]) : cursor' <= i => from < log[src][i].height
    <3>1. PICK n \in 1..(Len(log[src]) + 1) :
             /\ \A i \in DOMAIN log[src] : i < n <=> log[src][i].height <= from
             /\ cursor' = n
      BY <1>5 DEF ScanBlocks
    <3>2. ASSUME NEW i \in 1..Len(log[src]), cursor' <= i PROVE from < log[src][i].height
      <4>1. ~(i < n) /\ i \in DOMAIN log[src]
        BY <1>2, <3>1, <3>2
      <4>2. ~(log[src][i].height <= from)
        BY <3>1, <4>1
      <4>3. log[src][i].height \in Nat
        BY <1>2, EventHeights
      <4> QED
        BY <1>2, <4>2, <4>3
    <3> QED
      BY <3>2
  <2>4. MadeWithin(batch', log[src], from, to', cursor') /\ NoneRepeated(batch')
    BY <2>1, <2>2 DEF MadeWithin, NoneRepeated
  <2>5. SessionPass'
    BY <2>1, <2>2, <2>3, <2>4 DEF SessionPass, chainVars, sink
  <2> QED
    BY <1>1, <2>1, <2>5, PoolsEmpty DEF chainVars
<1>6. CASE Parsed \/ ProofHeightReached \/ Flush
  <2>1. /\ pc \in {"parse", "await", "flush"} /\ pc' \in {"await", "rescan", "broadcast"}
        /\ pc' = "broadcast" => pc = "flush"
        /\ UNCHANGED <<chainVars, pass>>
    BY <1>6 DEF Parsed, ProofHeightReached, Flush
  <2>2. SessionPass'
    BY <1>1, <2>1 DEF SessionPass, Scanned, chainVars, pass, sink
  <2> QED
    BY <1>1, <2>1, <2>2, PoolsEmpty DEF chainVars
<1>7. CASE RescanClient
  <2>1. /\ pc = "rescan" /\ pc' = "header" /\ trusted' = client[sink]
        /\ UNCHANGED <<chainVars, src, from, to, cursor, batch>>
    BY <1>7 DEF RescanClient
  <2>2. SessionPass'
    BY <1>1, <1>2, <2>1 DEF SessionPass, Scanned, chainVars, sink
  <2> QED
    BY <1>1, <2>1, <2>2, PoolsEmpty DEF chainVars
<1>8. CASE FetchHeader
  <2>1. /\ pc = "header" /\ pc' = "flush" /\ header' = height[src] /\ height[src] > trusted
        /\ UNCHANGED <<chainVars, src, from, to, cursor, batch, trusted>>
    BY <1>8 DEF FetchHeader
  <2>2. to <= header' /\ trusted < header'
    BY <1>1, <1>2, <2>1 DEF PassInv, Scanned, TypeOK
  <2>3. SessionPass'
    BY <1>1, <2>1, <2>2 DEF SessionPass, Scanned, chainVars, sink
  <2> QED
    BY <1>1, <2>1, <2>3, PoolsEmpty DEF chainVars
<1> QED
  BY <1>3, <1>4, <1>5, <1>6, <1>7, <1>8

(* The steps of the task keep SessionInv.                                  *)
LEMMA RelayStepSession == ASSUME IInv, SessionInv, RelayStep PROVE SessionInv'
<1>1. CASE NothingNew \/ SkipUpdate \/ Confirmed
  <2>1. Continue /\ ~(pc = "confirm" /\ sent = "pooled") /\ pc # "stopped"
    BY <1>1 DEF NothingNew, SkipUpdate, Confirmed
  <2> QED
    BY <2>1, ContinueSession
<1>2. CASE ChannelNotFound \/ TooManyMessages \/ ConfirmFailed \/ ConfirmTimeout
  <2>1. Stop
    BY <1>2 DEF ChannelNotFound, TooManyMessages, ConfirmFailed, ConfirmTimeout
  <2> QED
    BY <2>1, StopSession
<1>3. CASE Translate
  <2>1. pc = "parse" /\ UNCHANGED <<chainVars, restarts>>
    BY <1>3 DEF Translate
  <2>2. restarts = 0 => SessionPass' /\ SessionPool'
    <3>1. restarts = 0 => SessionPass'
      BY <1>3, TranslateSession
    <3>2. restarts = 0 => SessionPool'
      BY <2>1, PoolsEmpty DEF SessionInv, chainVars
    <3> QED
      BY <3>1, <3>2
  <2> QED
    BY <2>1, <2>2, LogsUnchanged DEF chainVars
<1>4. CASE Broadcast
  <2>1. UNCHANGED <<height, log, client, consensus, restarts>>
    BY <1>4 DEF Broadcast
  <2>2. restarts = 0 => SessionPass' /\ SessionPool'
    BY <1>4, BroadcastSession
  <2> QED
    BY <2>1, <2>2, LogsUnchanged
<1>5. CASE \/ \E c \in Chain : Select(c)
           \/ ScanClient \/ ScanBlocks \/ Parsed \/ ProofHeightReached
           \/ RescanClient \/ FetchHeader \/ Flush
  <2>1. UNCHANGED <<chainVars, restarts>>
    BY <1>5 DEF Select, ScanClient, ScanBlocks, Parsed, ProofHeightReached, RescanClient,
       FetchHeader, Flush
  <2>2. restarts = 0 => SessionPass' /\ SessionPool'
    BY <1>5, PassStepSession
  <2> QED
    BY <2>1, <2>2, LogsUnchanged DEF chainVars
<1> QED
  BY <1>1, <1>2, <1>3, <1>4, <1>5 DEF RelayStep

(* So do failures; after a restart little is left to keep.                 *)
LEMMA FaultSession == ASSUME IInv, SessionInv, Fault PROVE SessionInv'
<1>1. CASE \E c \in Chain : DropTx(c)
  <2>1. PICK c \in Chain : DropTx(c)
    BY <1>1
  <2>2. /\ UNCHANGED <<height, log, client, consensus, pc, restarts,
                       src, from, to, cursor, batch, ref, trusted, header>>
        /\ pool[c] # {} /\ pool' = [pool EXCEPT ![c] = {}] /\ Outcome(c, "lost")
    BY <2>1 DEF DropTx
  <2>3. /\ pool'[c] = {} /\ \A d \in Chain : d # c => pool'[d] = pool[d]
    BY <2>2 DEF IInv, TypeOK, ChainTypeOK
  <2>4. ASSUME restarts = 0 PROVE SessionPass' /\ SessionPool'
    <3>1. SessionPass /\ SessionPool
      BY <2>4 DEF SessionInv
    <3>2. \/ pc = "stopped"
          \/ pc = "confirm" /\ sent = "pooled" /\ c = sink
      BY <2>2, <3>1 DEF SessionPool
    <3>3. pc = "confirm" => sent' = "lost"
      BY <2>2, <3>2 DEF Outcome, Awaiting
    <3>4. SessionPass'
      BY <2>2, <3>1, <3>2, <3>3 DEF SessionPass, Scanned, sink
    <3>5. \A d \in Chain : pool'[d] # {} => pc' = "stopped"
      BY <2>2, <2>3, <3>1, <3>2 DEF SessionPool
    <3>6. \A d \in Chain : \A tx \in pool'[d] : SessionTx(d, tx)' /\ pool'[d] = {tx}
      BY <2>2, <2>3, <3>1 DEF SessionPool, SessionTx, HeaderExtends
    <3> QED
      BY <3>4, <3>5, <3>6 DEF SessionPool
  <2> QED
    BY <2>2, <2>4, LogsUnchanged
<1>2. CASE Start
  <2>1. restarts \in Nat /\ restarts' = restarts + 1 /\ UNCHANGED chainVars
    BY <1>2 DEF Start, IInv, TypeOK
  <2>2. restarts' # 0
    BY <2>1
  <2> QED
    BY <2>1, <2>2 DEF SessionInv, chainVars
<1>3. CASE QueryLatestFails
  BY <1>3, ContinueSession DEF QueryLatestFails
<1>4. CASE Stop
  BY <1>4, StopSession
<1> QED
  BY <1>1, <1>2, <1>3, <1>4 DEF Fault, StreamClosed, QueryFails, ConfirmTooSlow, Abort

(* SessionInv holds of every reachable state.                              *)
LEMMA SessionInvariant == Spec => []SessionInv
<1>1. Init => SessionInv
  <2> SUFFICES ASSUME Init PROVE SessionInv
    OBVIOUS
  <2>1. \A c \in Chain : log[c] = <<>> /\ client[c] \in consensus[c] /\ pool[c] = {}
    BY DEF Init, ChainInit
  <2>2. pc = "select"
    BY DEF Init
  <2> QED
    BY <2>1, <2>2 DEF SessionInv, SessionPass, SessionPool, Scanned, LoggedOnce, Caused
<1>2. IInv /\ SessionInv /\ [Next]_vars => SessionInv'
  <2> SUFFICES ASSUME IInv, SessionInv, [Next]_vars PROVE SessionInv'
    OBVIOUS
  <2>1. CASE UNCHANGED vars
    BY <2>1 DEF vars, relayVars, pass, chainVars, SessionInv, Caused, SessionPass, SessionPool,
       SessionTx, HeaderExtends, OwnTx, sink
  <2> QED
    BY <2>1, RelayStepSession, ChainStepSession, FaultSession DEF Next
<1> QED
  BY <1>1, <1>2, Invariant, PTL DEF Spec

-------------------------------------------------------------------------------
(* One call of relay() has no message executed twice (provider.rs:121).    *)
THEOREM ExecutedOnce == Spec => []AtMostOnce
<1>1. IInv /\ SessionInv => AtMostOnce
  <2> SUFFICES ASSUME IInv, SessionInv, restarts = 0, NEW c \in Chain, NEW i \in DOMAIN log[c]
               PROVE  /\ log[c][i].kind # "NoOp"
                      /\ \A j \in 1..(i - 1) :
                            log[c][j].flow = log[c][i].flow => log[c][j].kind # log[c][i].kind
    BY DEF AtMostOnce
  <2>1. LoggedOnce(log[c]) /\ DOMAIN log[c] = 1..Len(log[c])
    BY DEF SessionInv, IInv, TypeOK, ChainTypeOK
  <2> QED
    BY <2>1 DEF LoggedOnce
<1> QED
  BY <1>1, Invariant, SessionInvariant, PTL

(* No transaction it sends becomes obsolete: its header extends a trusted  *)
(* height and its handshake steps are new (client.rs:224, macros.rs:43).   *)
THEOREM SentNeverObsolete == Spec => []NeverObsolete
<1>1. IInv /\ SessionInv => NeverObsolete
  <2> SUFFICES ASSUME IInv, SessionInv, restarts = 0, NEW c \in Chain, NEW tx \in pool[c]
               PROVE  HeaderExtends(c, tx) /\ \A i \in DOMAIN tx.batch : StepIsNew(c, tx.batch, i)
    BY DEF NeverObsolete
  <2>1. TypeOK /\ SessionTx(c, tx) /\ \A d \in Chain : LoggedOnce(log[d]) /\ Caused(d)
    BY DEF IInv, SessionInv, SessionPool
  <2>2. \A j \in 1..Len(tx.batch) : ~Redundant(c, tx.batch[j]) /\ ~Repeated(tx.batch, j)
    BY <2>1, SentIsFresh
  <2>3. DOMAIN tx.batch = 1..Len(tx.batch)
    BY <2>1 DEF TypeOK, ChainTypeOK, Tx
  <2> QED
    BY <2>1, <2>2, <2>3 DEF SessionTx, StepIsNew
<1> QED
  BY <1>1, Invariant, SessionInvariant, PTL

(* It never signs with the number of a transaction of its own (tx.rs:89).  *)
THEOREM NumberIsFree == Spec => []NoSequenceConflict
<1>1. IInv /\ SessionInv => NoSequenceConflict
  BY Peers DEF SessionInv, SessionPool, NoSequenceConflict, IInv, TypeOK, sink
<1> QED
  BY <1>1, Invariant, SessionInvariant, PTL
===============================================================================
