--------------------------- MODULE RelayPaceProofs ---------------------------
(***************************************************************************)
(* Proofs about the relayer between chains whose blocks come only while it *)
(* waits: what it can pass over then.                                      *)
(***************************************************************************)
EXTENDS RelayPace, RelayProofs

(* The pace is among those Relay allows, so that its invariants hold.      *)
LEMMA PacedIsNext == PacedNext => Next
BY DEF PacedNext, Next

LEMMA PacedInvariants == PacedSpec => []IInv
<1>1. [PacedNext]_vars => [Next]_vars
  BY PacedIsNext
<1> QED
  BY <1>1, Invariant, PTL DEF PacedSpec, Spec

(* The task itself leaves blocks and clients alone.                        *)
LEMMA TaskLeaves ==
    ASSUME RelayStep
    PROVE  /\ UNCHANGED <<height, log, client, consensus, restarts>>
           /\ ~Broadcast => UNCHANGED pool
<1>1. UNCHANGED <<height, log, client, consensus, restarts>>
  BY DEF RelayStep, Select, ScanClient, ScanBlocks, NothingNew, Translate, ChannelNotFound,
     Parsed, ProofHeightReached, RescanClient, FetchHeader, SkipUpdate, Flush, TooManyMessages,
     Broadcast, Confirmed, ConfirmFailed, ConfirmTimeout, Continue, Stop, chainVars
<1>2. ~Broadcast => UNCHANGED pool
  BY DEF RelayStep, Select, ScanClient, ScanBlocks, NothingNew, Translate, ChannelNotFound,
     Parsed, ProofHeightReached, RescanClient, FetchHeader, SkipUpdate, Flush, TooManyMessages,
     Confirmed, ConfirmFailed, ConfirmTimeout, Continue, Stop, chainVars
<1> QED
  BY <1>1, <1>2

-------------------------------------------------------------------------------
(* What a pass passes over: its own steps.                                 *)

(* A pass keeps or gains what it knows of its window (macros.rs:9-86).     *)
LEMMA PacedPassTask == ASSUME IInv, PacedInv, RelayStep PROVE PacedPass'
<1>1. UNCHANGED height
  BY TaskLeaves
<1>2. /\ PacedPass /\ src \in Chain /\ height[src] \in Nat /\ to \in Nat /\ ref \in Nat
  BY DEF PacedInv, IInv, TypeOK, ChainTypeOK
<1>3. CASE (\E c \in Chain : Select(c)) \/ ScanClient
  BY <1>2, <1>3 DEF Select, ScanClient, PacedPass, Scanned
<1>4. CASE ScanBlocks
  <2>1. pc = "blocks" /\ pc' = "parse" /\ to' = height[src] /\ UNCHANGED <<src, ref>>
    BY <1>4 DEF ScanBlocks
  <2>2. ref = 1
    BY <1>2, <2>1 DEF PacedPass, Scanned
  <2> QED
    BY <1>1, <1>2, <2>1, <2>2 DEF PacedPass, Scanned
<1>5. CASE Continue \/ Stop
  BY <1>5 DEF Continue, Stop, EndPass, PacedPass
<1>6. CASE Translate
  <2>1. pc = "parse" /\ pc' = "parse" /\ UNCHANGED <<src, to>> /\ ref' \in {ref, height[src] + 1}
    BY <1>6 DEF Translate
  <2> QED
    BY <1>1, <1>2, <2>1 DEF PacedPass, Scanned
<1>7. CASE Parsed \/ ProofHeightReached \/ RescanClient
  BY <1>1, <1>2, <1>7 DEF Parsed, ProofHeightReached, RescanClient, PacedPass, Scanned, pass
<1>8. CASE FetchHeader
  BY <1>1, <1>2, <1>8 DEF FetchHeader, PacedPass, Scanned
<1>9. CASE Flush \/ Broadcast
  BY <1>1, <1>2, <1>9 DEF Flush, Broadcast, PacedPass, Scanned, pass
<1> QED
  BY <1>3, <1>4, <1>5, <1>6, <1>7, <1>8, <1>9
  DEF RelayStep, NothingNew, ChannelNotFound, SkipUpdate, TooManyMessages,
      Confirmed, ConfirmFailed, ConfirmTimeout

(* What it sends keeps that knowledge, and the chains do not change.       *)
LEMMA PacedTask == ASSUME IInv, PacedInv, RelayStep PROVE PacedInv'
<1>1. UNCHANGED <<height, log, client, consensus>> /\ (~Broadcast => UNCHANGED pool)
  BY TaskLeaves
<1>2. OnlyHeaderBlocksSkipped'
  BY <1>1 DEF PacedInv, OnlyHeaderBlocksSkipped, Reached
<1>3. ASSUME NEW c \in Chain, NEW tx \in pool'[c]
      PROVE  tx.header <= tx.to + 1 /\ tx.header <= height'[Peer(c)]
  <2>1. CASE tx \in pool[c]
    BY <1>1, <2>1 DEF PacedInv
  <2>2. CASE tx \notin pool[c]
    <3>1. Broadcast /\ pc = "broadcast"
      BY <1>1, <2>2 DEF Broadcast
    <3>2. src \in Chain /\ Peer(sink) = src /\ pool \in [Chain -> SUBSET Tx]
      BY Peers DEF IInv, TypeOK, ChainTypeOK, sink
    <3>3. c = sink /\ tx.header = header /\ tx.to = to
      BY <2>2, <3>1, <3>2 DEF Broadcast
    <3> QED
      BY <1>1, <3>1, <3>2, <3>3 DEF PacedInv, PacedPass
  <2> QED
    BY <2>1, <2>2
<1> QED
  BY <1>1, <1>2, <1>3, PacedPassTask DEF PacedInv

(* So does a failure.                                                      *)
LEMMA PacedFault == ASSUME IInv, PacedInv, Fault PROVE PacedInv'
<1>1. /\ UNCHANGED <<height, log, client, consensus>>
      /\ \A c \in Chain : pool'[c] \subseteq pool[c]
  BY DEF Fault, DropTx, StreamClosed, QueryLatestFails, QueryFails, ConfirmTooSlow, Abort, Start,
     Continue, Stop, chainVars, IInv, TypeOK, ChainTypeOK
<1>2. OnlyHeaderBlocksSkipped'
  BY <1>1 DEF PacedInv, OnlyHeaderBlocksSkipped, Reached
<1>3. PacedPass'
  <2>1. CASE Continue \/ Stop
    BY <2>1 DEF Continue, Stop, EndPass, PacedPass
  <2>2. CASE Start \/ \E c \in Chain : DropTx(c)
    BY <1>1, <2>2 DEF Start, DropTx, PacedInv, PacedPass, Scanned, pass
  <2> QED
    BY <2>1, <2>2 DEF Fault, StreamClosed, QueryLatestFails, QueryFails, ConfirmTooSlow, Abort
<1> QED
  BY <1>1, <1>2, <1>3 DEF PacedInv

-------------------------------------------------------------------------------
(* What a pass passes over: blocks.                                        *)

(* A block adds to one chain and to what clients know.                     *)
LEMMA ChainStepLater ==
    ASSUME TypeOK, LogOrdered, ChainStep
    PROVE  /\ Later /\ TypeOK'
           /\ UNCHANGED <<pc, restarts, src, from, to, cursor, batch, ref, trusted, header>>
           /\ \A d \in Chain : height'[d] <= height[d] + 1 /\ consensus[d] \subseteq consensus'[d]
<1>1. ASSUME NEW c \in Chain, NEW n \in 0..MaxUserTx, NEW fs \in [1..n -> Flow], NewBlock(c, fs)
      PROVE  Later /\ TypeOK'
  <2>1. n \in Nat
    BY RelayAssumption
  <2> QED
    BY <1>1, <2>1, NewBlockLater
<1>2. Later /\ TypeOK'
  BY <1>1, TxBlockLater DEF ChainStep
<1>3. UNCHANGED <<pc, restarts, src, from, to, cursor, batch, ref, trusted, header>>
  BY DEF ChainStep, NewBlock, AcceptTx, RejectTx, pass
<1>4. \A d \in Chain : consensus[d] \subseteq consensus'[d]
  <2>1. consensus' = consensus \/
        \E c \in Chain : \E h : consensus' = [consensus EXCEPT ![c] = consensus[c] \cup {h}]
    BY DEF ChainStep, NewBlock, AcceptTx, RejectTx, CommitUsers, CommitTx, CommitFailedTx
  <2>2. consensus \in [Chain -> SUBSET Nat]
    BY DEF TypeOK, ChainTypeOK
  <2> QED
    BY <2>1, <2>2
<1>5. \E c \in Chain : height' = [height EXCEPT ![c] = height[c] + 1]
  BY DEF ChainStep, NewBlock, AcceptTx, RejectTx, CommitUsers, CommitTx, CommitFailedTx, Commit
<1>6. \A d \in Chain : height'[d] <= height[d] + 1
  <2>1. \A d \in Chain : height[d] \in Nat /\ height \in [Chain -> Nat]
    BY DEF TypeOK, ChainTypeOK
  <2> QED
    BY <1>5, <2>1
<1> QED
  BY <1>2, <1>3, <1>4, <1>6

(* A client that moves executes a transaction, and has its header.         *)
LEMMA MovesToHeader ==
    ASSUME TypeOK, ChainStep, NEW c \in Chain, client'[c] # client[c]
    PROVE  \E tx \in pool[c] : /\ CommitTx(c, tx) /\ tx \in Tx
                               /\ client'[c] = tx.header /\ tx.header \in consensus'[c]
<1>1. PICK tx \in pool[c] : CommitTx(c, tx)
  BY ClientMoves DEF Next
<1>2. /\ client'[c] = IF tx.header > client[c] THEN tx.header ELSE client[c]
      /\ tx.header \in consensus'[c] /\ tx \in Tx
  BY <1>1 DEF CommitTx, TypeOK, ChainTypeOK
<1> QED
  BY <1>1, <1>2

(* The events a client moves past are of its transaction's window or of    *)
(* the header's block.                                                     *)
LEMMA PacedSkips == ASSUME IInv, PacedInv, ChainStep PROVE OnlyHeaderBlocksSkipped'
<1>1. /\ TypeOK /\ LogOrdered /\ Later /\ TypeOK'
      /\ \A d \in Chain : consensus[d] \subseteq consensus'[d]
  BY ChainStepLater DEF IInv
<1> SUFFICES ASSUME NEW d \in Chain, NEW i \in DOMAIN log'[d], NEW e, e = log'[d][i], Relayable(e),
                    e.height <= client'[Peer(d)], e.height \notin consensus'[Peer(d)]
             PROVE  \E x \in DOMAIN log'[Peer(d)] :
                       /\ log'[Peer(d)][x].flow = e.flow
                       /\ log'[Peer(d)][x].kind = Effect[MsgFor(e.kind)]
  BY DEF OnlyHeaderBlocksSkipped, Relayable, Reached
<1>2. PICK c \in Chain : c = Peer(d) /\ Peer(c) = d
  BY Peers
<1>3. /\ log \in [Chain -> Seq(Event)] /\ log' \in [Chain -> Seq(Event)]
      /\ log[d] \in Seq(Event) /\ log'[d] \in Seq(Event) /\ i \in 1..Len(log'[d])
      /\ height[d] \in Nat /\ client[c] \in Nat /\ client'[c] \in Nat
      /\ Grown(log[d], log'[d], height[d]) /\ Grown(log[c], log'[c], height[c])
      /\ client[c] <= height[d]
  <2>1. /\ log \in [Chain -> Seq(Event)] /\ log' \in [Chain -> Seq(Event)]
        /\ height[d] \in Nat /\ client[c] \in Nat /\ client'[c] \in Nat
    BY <1>1, <1>2 DEF TypeOK, ChainTypeOK
  <2>2. log[d] \in Seq(Event) /\ log'[d] \in Seq(Event) /\ i \in 1..Len(log'[d])
    BY <2>1
  <2>3. /\ Grown(log[d], log'[d], height[d]) /\ Grown(log[c], log'[c], height[c])
        /\ client[c] <= height[d]
    BY <1>1, <1>2 DEF Later, PacedInv
  <2> QED
    BY <2>1, <2>2, <2>3
<1>4. e.height \in Nat
  BY <1>3, EventHeights
<1>5. client'[c] <= height[d]
  <2>1. CASE client'[c] = client[c]
    BY <1>3, <2>1
  <2>2. CASE client'[c] # client[c]
    BY <1>1, <1>2, <2>2, MovesToHeader DEF PacedInv
  <2> QED
    BY <2>1, <2>2
<1>6. i \in 1..Len(log[d]) /\ e = log[d][i] /\ i \in DOMAIN log[d]
  <2>1. ~(e.height > height[d])
    BY <1>2, <1>3, <1>4, <1>5
  <2>2. i \notin (Len(log[d]) + 1)..Len(log'[d])
    BY <1>3, <2>1 DEF Grown
  <2>3. i \in 1..Len(log[d])
    BY <1>3, <2>2
  <2> QED
    BY <1>3, <2>3 DEF Grown
<1>7. CASE e.height <= client[c]
  <2>1. e.height \notin consensus[c]
    BY <1>1, <1>2
  <2>2. Reached(c, e.flow, Effect[MsgFor(e.kind)])
    BY <1>2, <1>6, <1>7, <2>1 DEF PacedInv, OnlyHeaderBlocksSkipped
  <2>3. Reached(c, e.flow, Effect[MsgFor(e.kind)])'
    <3>1. PICK f, k : f = e.flow /\ k = Effect[MsgFor(e.kind)]
      OBVIOUS
    <3>2. Reached(c, f, k)
      BY <2>2, <3>1
    <3>3. Reached(c, f, k)'
      BY <1>3, <3>2, ReachedGrows
    <3> QED
      BY <1>6, <3>1, <3>3 DEF Reached
  <2> QED
    BY <1>2, <1>6, <2>3 DEF Reached
<1>8. CASE e.height > client[c]
  <2>1. client'[c] # client[c]
    BY <1>2, <1>3, <1>4, <1>8
  <2>2. PICK tx \in pool[c] : /\ CommitTx(c, tx) /\ tx \in Tx
                              /\ client'[c] = tx.header /\ tx.header \in consensus'[c]
    BY <1>1, <2>1, MovesToHeader
  <2>3. /\ tx.header <= tx.to + 1 /\ tx.header \in Nat /\ tx.to \in Nat /\ tx.from \in Nat
        /\ tx.from <= client[c] /\ Covers(tx.batch, log[d], tx.from, tx.to)
    BY <1>2, <2>2 DEF PacedInv, IInv, PoolInv, TxInv, Tx
  <2>4. tx.from < e.height /\ e.height <= tx.to
    BY <1>2, <1>3, <1>4, <1>8, <2>2, <2>3
  <2>5. i < Len(log[d]) + 1
    BY <1>3, <1>6
  <2>6. PICK j \in 1..Len(tx.batch) : tx.batch[j].msg = MsgFor(e.kind) /\ tx.batch[j].flow = e.flow
    BY <1>6, <2>3, <2>4, <2>5 DEF Covers, CoversUpTo
  <2>7. Reached(c, tx.batch[j].flow, Effect[tx.batch[j].msg])'
    BY <1>1, <2>2, ExecutedReached
  <2> QED
    BY <1>2, <2>6, <2>7 DEF Reached
<1> QED
  BY <1>3, <1>4, <1>7, <1>8

(* A block comes when the task waits (macros.rs:40, tx.rs:89).             *)
LEMMA PacedBlock == ASSUME IInv, PacedInv, Waits, ChainStep PROVE PacedInv'
<1>1. /\ TypeOK /\ LogOrdered /\ Later /\ TypeOK'
      /\ UNCHANGED <<pc, restarts, src, from, to, cursor, batch, ref, trusted, header>>
      /\ \A d \in Chain : height'[d] <= height[d] + 1
  BY ChainStepLater DEF IInv
<1>2. /\ src \in Chain /\ to \in Nat /\ ref \in Nat /\ header \in Nat
      /\ \A d \in Chain : height[d] \in Nat /\ height'[d] \in Nat /\ height[d] <= height'[d]
  BY <1>1 DEF TypeOK, ChainTypeOK, Later
<1>3. pc \in {"select", "stopped", "confirm"} \/ (pc = "await" /\ height[src] < ref)
  BY DEF Waits, Idle, AwaitedBlock
<1>4. PacedPass'
  <2>1. PacedPass
    BY DEF PacedInv
  <2>2. CASE pc \in {"select", "stopped"}
    BY <1>1, <2>1, <2>2 DEF PacedPass, Scanned
  <2>3. CASE pc = "confirm"
    <3>1. header <= to + 1 /\ header <= height'[src]
      BY <1>2, <2>1, <2>3 DEF PacedPass
    <3> QED
      BY <1>1, <2>3, <3>1 DEF PacedPass, Scanned
  <2>4. CASE pc = "await" /\ height[src] < ref
    <3>1. height'[src] <= height[src] + 1 /\ ref <= to + 1
      BY <1>1, <1>2, <2>1, <2>4 DEF PacedPass
    <3>2. height'[src] <= to + 1
      BY <1>2, <2>4, <3>1
    <3> QED
      BY <1>1, <2>4, <3>1, <3>2 DEF PacedPass, Scanned
  <2> QED
    BY <1>3, <2>2, <2>3, <2>4
<1>5. ASSUME NEW c \in Chain
      PROVE  /\ client'[c] <= height'[Peer(c)]
             /\ \A tx \in pool'[c] : tx.header <= tx.to + 1 /\ tx.header <= height'[Peer(c)]
  <2>1. /\ Peer(c) \in Chain /\ height[Peer(c)] \in Nat /\ height'[Peer(c)] \in Nat
        /\ height[Peer(c)] <= height'[Peer(c)] /\ client[c] \in Nat /\ client'[c] \in Nat
        /\ pool'[c] \subseteq pool[c]
        /\ client[c] <= height[Peer(c)]
        /\ \A tx \in pool[c] : tx \in Tx /\ tx.header <= tx.to + 1 /\ tx.header <= height[Peer(c)]
    BY <1>1, <1>2, Peers DEF TypeOK, ChainTypeOK, Later, PacedInv
  <2>2. \A tx \in pool'[c] : tx.header <= tx.to + 1 /\ tx.header <= height'[Peer(c)]
    <3> TAKE tx \in pool'[c]
    <3>1. tx.header \in Nat /\ tx.header <= tx.to + 1 /\ tx.header <= height[Peer(c)]
      BY <2>1 DEF Tx
    <3> QED
      BY <2>1, <3>1
  <2>3. client'[c] <= height[Peer(c)]
    <3>1. CASE client'[c] = client[c]
      BY <2>1, <3>1
    <3>2. CASE client'[c] # client[c]
      BY <1>1, <2>1, <3>2, MovesToHeader
    <3> QED
      BY <3>1, <3>2
  <2> QED
    BY <2>1, <2>2, <2>3
<1> QED
  BY <1>4, <1>5, PacedSkips DEF PacedInv

(* With blocks that come only while the task waits, whatever fails and     *)
(* however often relay() is called, an event that a client has been moved  *)
(* past and that was not forwarded (traits.rs:65) is in a block whose      *)
(* header an update carried: the one that came while the proofs' height    *)
(* was awaited (macros.rs:40-43).                                          *)
THEOREM PacedSkipsOnlyHeaders == PacedSpec => []OnlyHeaderBlocksSkipped
<1>1. Init => PacedInv
  <2> SUFFICES ASSUME Init PROVE PacedInv
    OBVIOUS
  <2>1. \A c \in Chain : log[c] = <<>> /\ client[c] = 1 /\ height[c] = 1 /\ pool[c] = {}
    BY DEF Init, ChainInit
  <2>2. pc = "select" /\ ref = 1
    BY DEF Init
  <2> QED
    BY <2>1, <2>2, Peers DEF PacedInv, PacedPass, OnlyHeaderBlocksSkipped, Scanned
<1>2. IInv /\ PacedInv /\ [PacedNext]_vars => PacedInv'
  <2> SUFFICES ASSUME IInv, PacedInv, [PacedNext]_vars PROVE PacedInv'
    OBVIOUS
  <2>1. CASE UNCHANGED vars
    BY <2>1 DEF vars, relayVars, pass, chainVars, PacedInv, PacedPass, OnlyHeaderBlocksSkipped,
       Reached
  <2> QED
    BY <2>1, PacedTask, PacedFault, PacedBlock DEF PacedNext
<1>3. PacedInv => OnlyHeaderBlocksSkipped
  BY DEF PacedInv
<1> QED
  BY <1>1, <1>2, <1>3, PacedInvariants, PTL DEF PacedSpec
===============================================================================
