------------------------------- MODULE IbcChain -------------------------------
(***************************************************************************)
(* Two Cosmos chains as the relayer sees them: committed heights, the IBC  *)
(* events of their blocks, the light client each one hosts of the other,   *)
(* and the one transaction of the relayer's account that may wait in the   *)
(* mempool.  A chain is a service outside the repository; what is modelled *)
(* is what the relayer's queries read from it and what its transactions do *)
(* to it.                                                                  *)
(***************************************************************************)
EXTENDS Integers, Sequences

LOCAL INSTANCE FiniteSetsExt

CONSTANTS
    ChainA, ChainB,   \* the two chains of relay(chain_a, chain_b)
    Flow,             \* handshakes, closings and packet transfers
    Origin,           \* Origin[f]: the chain whose user starts f
    Starts,           \* Starts[f]: the kind of the event that starts f
    Timeout,          \* Timeout[f]: block from which packet f is late, 0 for none
    ClosedBy,         \* ClosedBy[f]: the other closings of f's channel
    Before,           \* Before[f]: the packets before f on an ordered channel
    Gas,              \* Gas[m]: what the execution of a message m costs
    GasLimit          \* what every transaction pays for, beside its update

Chain == {ChainA, ChainB}

Peer(c) == IF c = ChainA THEN ChainB ELSE ChainA

StartKind == {"OpenInitConnection", "OpenInitChannel", "CloseInitChannel", "SendPacket"}

ASSUME ChainsDistinct == ChainA # ChainB

ASSUME FlowAssumption ==
    /\ Origin \in [Flow -> Chain]
    /\ Starts \in [Flow -> StartKind]
    /\ Timeout \in [Flow -> Nat]
    /\ ClosedBy \in [Flow -> SUBSET Flow] /\ Before \in [Flow -> SUBSET Flow]
    /\ \A f \in Flow :
          /\ \A g \in ClosedBy[f] : g # f /\ Starts[g] = "CloseInitChannel"
          /\ \A g \in Before[f] : g # f /\ Starts[g] = "SendPacket" /\ Origin[g] = Origin[f]

(***************************************************************************)
(* The event a message of the relayer emits on the chain that executes it. *)
(***************************************************************************)
Effect ==
    [ MsgConnectionOpenTry     |-> "OpenTryConnection",
      MsgConnectionOpenAck     |-> "OpenAckConnection",
      MsgConnectionOpenConfirm |-> "OpenConfirmConnection",
      MsgChannelOpenTry        |-> "OpenTryChannel",
      MsgChannelOpenAck        |-> "OpenAckChannel",
      MsgChannelOpenConfirm    |-> "OpenConfirmChannel",
      MsgChannelCloseConfirm   |-> "CloseConfirmChannel",
      MsgRecvPacket            |-> "WriteAcknowledgement",
      MsgAcknowledgement       |-> "AcknowledgePacket" ]

Msg == DOMAIN Effect

ASSUME GasAssumption == Gas \in [Msg -> Nat] /\ GasLimit \in Nat

(* A handshake step moves a connection or channel end to a state in which  *)
(* the same step is refused.  A Try may be repeated (it opens another end) *)
(* and a repeated packet message is a no-op that emits no packet event.    *)
OnceOnly == {"MsgConnectionOpenAck", "MsgConnectionOpenConfirm", "MsgChannelOpenAck",
             "MsgChannelOpenConfirm", "MsgChannelCloseConfirm"}
PacketMsg == {"MsgRecvPacket", "MsgAcknowledgement"}

Kind == StartKind \cup {Effect[m] : m \in Msg} \cup {"NoOp"}

Event == [kind : Kind, flow : Flow, height : Nat]

(* A relayed message proves the state at height `at` of the other chain    *)
(* and declares that the proof verifies against the consensus state at     *)
(* height `proof`.                                                         *)
Message == [msg : Msg, flow : Flow, at : Nat, proof : Nat]

(* A transaction: MsgUpdateClient with a header, then the messages.  `from *)
(* and `to` are the block window the messages were scanned from; the chain *)
(* does not see them.                                                      *)
Tx == [header : Nat, trusted : Nat, batch : Seq(Message), from : Nat, to : Nat]

VARIABLES
    height,      \* height[c]: latest committed block of c
    log,         \* log[c]: the IBC events of the blocks of c, in order
    client,      \* client[c]: latest height of the client of Peer(c) hosted on c
    consensus,   \* consensus[c]: the heights that client has consensus states for
    pool         \* pool[c]: the relayer's transaction in the mempool of c, if any

chainVars == <<height, log, client, consensus, pool>>

ChainTypeOK ==
    /\ height \in [Chain -> Nat]
    /\ log \in [Chain -> Seq(Event)]
    /\ client \in [Chain -> Nat]
    /\ consensus \in [Chain -> SUBSET Nat]
    /\ pool \in [Chain -> SUBSET Tx]

(* Block 1 of each chain is the block its client was created from, and no  *)
(* IBC event precedes it.                                                  *)
ChainInit ==
    /\ height = [c \in Chain |-> 1]
    /\ log = [c \in Chain |-> <<>>]
    /\ client = [c \in Chain |-> 1]
    /\ consensus = [c \in Chain |-> {1}]
    /\ pool = [c \in Chain |-> {}]

Reached(c, f, k) == \E i \in DOMAIN log[c] : log[c][i].flow = f /\ log[c][i].kind = k

Started(f) == Reached(Origin[f], f, Starts[f])

Redundant(c, m) == Reached(c, m.flow, Effect[m.msg])

(* Another message before position i of the batch that does the same.      *)
Repeated(b, i) == \E j \in 1..(i - 1) : b[j].msg = b[i].msg /\ b[j].flow = b[i].flow

(***************************************************************************)
(* Execution of a transaction is all or nothing.  The header must extend a *)
(* height the client trusts.                                               *)
(***************************************************************************)
HeaderExtends(c, tx) == tx.trusted \in consensus[c] /\ tx.trusted < tx.header

(* Each proof must name a height for which the client has a consensus      *)
(* state once updated, and that must be the root the proof was made from:  *)
(* the state after block h is committed to by the header of block h + 1    *)
(* and by no other.                                                        *)
ProofHolds(c, tx, m) == m.proof \in consensus[c] \cup {tx.header} /\ m.proof = m.at + 1

StepIsNew(c, b, i) == b[i].msg \in OnceOnly => ~Redundant(c, b[i]) /\ ~Repeated(b, i)

(* A message is refused on a closed channel, a packet is not received in   *)
(* or after the block it times out at, and an ordered channel takes its    *)
(* packets and acknowledgements in their order.                            *)
Closed(c, f) == \E k \in {"CloseInitChannel", "CloseConfirmChannel"} : Reached(c, f, k)

Timely(c, m) ==
    m.msg = "MsgRecvPacket" => Timeout[m.flow] = 0 \/ height[c] + 1 < Timeout[m.flow]

ChannelOpen(c, b, i) ==
    \A g \in ClosedBy[b[i].flow] :
        ~Closed(c, g) /\ \A j \in 1..(i - 1) : b[j].msg = "MsgChannelCloseConfirm" => b[j].flow # g

InSequence(c, b, i) ==
    b[i].msg \in PacketMsg =>
        \A g \in Before[b[i].flow] :
            \/ Reached(c, g, Effect[b[i].msg])
            \/ \E j \in 1..(i - 1) : b[j].msg = b[i].msg /\ b[j].flow = g

Deliverable(c, b) ==
    \A i \in DOMAIN b : Timely(c, b[i]) /\ ChannelOpen(c, b, i) /\ InSequence(c, b, i)

(* The gas limit does not depend on the messages (client.rs:201).          *)
GasSuffices(b) == MapThenSumSet(LAMBDA i : Gas[b[i].msg], DOMAIN b) <= GasLimit

Accepts(c, tx) ==
    /\ HeaderExtends(c, tx)
    /\ \A i \in DOMAIN tx.batch : ProofHolds(c, tx, tx.batch[i]) /\ StepIsNew(c, tx.batch, i)
    /\ Deliverable(c, tx.batch) /\ GasSuffices(tx.batch)

EventAt(c, k, f) == [kind |-> k, flow |-> f, height |-> height[c] + 1]

(* The events of the users' own transactions and of the relayer's.         *)
UserEvents(c, fs) == [i \in 1..Len(fs) |-> EventAt(c, Starts[fs[i]], fs[i])]

TxEvents(c, tx) ==
    [i \in 1..Len(tx.batch) |->
        LET m == tx.batch[i]
            noop == m.msg \in PacketMsg /\ (Redundant(c, m) \/ Repeated(tx.batch, i))
        IN EventAt(c, IF noop THEN "NoOp" ELSE Effect[m.msg], m.flow)]

(* The users of c start the flows fs, each for the first time: not over a  *)
(* closed channel, packets of an ordered channel in their order, and no    *)
(* packet that c's client knows to be late.                                *)
Users(c, fs) ==
    /\ \A i \in 1..Len(fs) :
          /\ Origin[fs[i]] = c /\ ~Started(fs[i])
          /\ \A g \in ClosedBy[fs[i]] : ~Closed(c, g) /\ \A j \in 1..(i - 1) : fs[j] # g
          /\ \A g \in Before[fs[i]] : Started(g) \/ \E j \in 1..(i - 1) : fs[j] = g
          /\ Timeout[fs[i]] = 0 \/ client[c] < Timeout[fs[i]]
    /\ \A i, j \in 1..Len(fs) : fs[i] = fs[j] => i = j

(***************************************************************************)
(* Chain c commits a block: without the relayer's transaction, with it, or *)
(* with it but failed.                                                     *)
(***************************************************************************)
Commit(c, evs) ==
    /\ height' = [height EXCEPT ![c] = height[c] + 1]
    /\ log' = [log EXCEPT ![c] = log[c] \o evs]

CommitUsers(c, fs) ==
    /\ Users(c, fs)
    /\ Commit(c, UserEvents(c, fs))
    /\ UNCHANGED <<client, consensus, pool>>

CommitTx(c, tx) ==
    /\ tx \in pool[c]
    /\ Accepts(c, tx)
    /\ Commit(c, TxEvents(c, tx))
    /\ client' = [client EXCEPT ![c] = IF tx.header > client[c] THEN tx.header ELSE client[c]]
    /\ consensus' = [consensus EXCEPT ![c] = consensus[c] \cup {tx.header}]
    /\ pool' = [pool EXCEPT ![c] = pool[c] \ {tx}]

CommitFailedTx(c, tx) ==
    /\ tx \in pool[c]
    /\ ~Accepts(c, tx)
    /\ Commit(c, <<>>)
    /\ pool' = [pool EXCEPT ![c] = pool[c] \ {tx}]
    /\ UNCHANGED <<client, consensus>>
===============================================================================
