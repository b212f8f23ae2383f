----------------------------- MODULE ReadyPackets -----------------------------
(***************************************************************************)
(* One call of query_ready_and_timed_out_packets (core/packets.rs) for a   *)
(* channel of the whitelist, query by query.  The heights of both chains   *)
(* are read first and used to the end; everything else is read from the    *)
(* nodes' latest states, while the chains, their clients and the other     *)
(* relayers move on.                                                       *)
(*                                                                         *)
(* The chains are external.  So are the three queries CosmosClient leaves  *)
(* to be written: query_send_packets, query_recv_packets and               *)
(* query_client_update_time_and_height answer what the trait says.         *)
(***************************************************************************)
EXTENDS Integers

CONSTANTS
    Packet,          \* sequences of the packets source sends to sink
    Early,           \* the ones of them sent in the first block
    Returning,       \* sequences of those sink has sent to source
    TimeoutHeight,   \* TimeoutHeight[p], 0 for TimeoutHeight::Never
    TimeoutTime,     \* TimeoutTime[p], 0 for none
    Genesis,         \* Genesis[c]: time of c before its first block
    Delay,           \* the connection's delay period
    BlockTime        \* expected_block_time

Chain == {"source", "sink"}
Peer(c) == IF c = "source" THEN "sink" ELSE "source"

ASSUME ReadyAssumption ==
    /\ Packet \subseteq Nat \ {0} /\ Returning \subseteq Nat \ {0}
    /\ \A p \in Packet : 1..p \subseteq Packet
    /\ Early \subseteq Packet /\ \A p \in Early : 1..p \subseteq Early
    /\ TimeoutHeight \in [Packet -> Nat] /\ TimeoutTime \in [Packet -> Nat]
    /\ Genesis \in [Chain -> Nat]
    /\ Delay \in Nat /\ BlockTime \in Nat

VARIABLES
    height,       \* height[c]: latest block of c
    ordered,      \* the channel is ordered
    opening,      \* source's end is not open yet
    sentAt,       \* sentAt[p]: block of source with p's SendPacket, or 0
    receivedAt,   \* receivedAt[p]: block of sink with p's receipt, or 0
    settled,      \* packets acknowledged or timed out on source
    ackAt,        \* ackAt[q]: block of source with q's acknowledgement, or 0
    ackSettled,   \* packets of sink whose acknowledgement sink has got
    updates,      \* updates[c]: the client on c of the other chain, see Update
    closedAt      \* closedAt[c]: block of c in which its end was closed, or 0

VARIABLES
    pc,           \* the query the call makes next
    readAt,       \* readAt[c]: height of c when the call began
    endState,     \* endState[c]: state of c's channel end
    next_sequence_recv,   \* the sequence sink will receive next, 1 on an unordered channel
    latestOnSink,     \* latest_source_height_on_sink
    latestOnSource,   \* latest_sink_height_on_source
    seqs, acks,   \* undelivered sequences and acknowledgements left to handle
    messages, timeouts,   \* the two lists of the result
    missed        \* a query whose failure skips a packet has failed

chainVars ==
    <<height, ordered, opening, sentAt, receivedAt, settled, ackAt, ackSettled, updates, closedAt>>
results == <<messages, timeouts, missed>>
reads == <<readAt, endState, next_sequence_recv, latestOnSink, latestOnSource>>
callVars == <<pc, reads, seqs, acks, results>>
vars == <<chainVars, callVars>>

Time(c, h) == Genesis[c] + h

Steps == {"source", "sink", "channel", "counterparty", "client", "again", "commitments",
          "unreceived", "packets", "acks", "unreceived_acks", "ack_packets"}

(* The client was brought to a height of the other chain in a block.       *)
Update == [of : Nat, block : Nat]

(* A message, with the height its proof was queried at and the one it      *)
(* declares for it.                                                        *)
RelayMsg ==
    [kind : {"MsgRecvPacket", "MsgAcknowledgement"}, seq : Nat, at : Nat, proof : Nat]
TimeoutMsg ==
    [kind : {"MsgTimeout", "MsgTimeoutOnClose"}, seq : Nat, at : Nat, proof : Nat, next : Nat]

TypeOK ==
    /\ height \in [Chain -> Nat] /\ closedAt \in [Chain -> Nat] /\ {ordered, opening} \subseteq BOOLEAN
    /\ sentAt \in [Packet -> Nat] /\ receivedAt \in [Packet -> Nat] /\ settled \subseteq Packet
    /\ ackAt \in [Returning -> Nat] /\ ackSettled \subseteq Returning
    /\ updates \in [Chain -> SUBSET Update]
    /\ pc \in Steps \cup {"done", "failed"}
    /\ readAt \in [Chain -> Nat]
    /\ endState \in [Chain -> {"Open", "Closed"}]
    /\ next_sequence_recv \in Nat /\ latestOnSink \in Nat /\ latestOnSource \in Nat
    /\ seqs \subseteq Packet /\ acks \subseteq Returning
    /\ messages \subseteq RelayMsg /\ timeouts \subseteq TimeoutMsg
    /\ missed \in BOOLEAN

(* The clients begin at the other chain's first block; packets may have    *)
(* been sent by then.                                                      *)
Init ==
    /\ height = [c \in Chain |-> 1] /\ closedAt = [c \in Chain |-> 0]
    /\ ordered \in BOOLEAN /\ opening \in BOOLEAN
    /\ sentAt = [p \in Packet |-> IF p \in Early /\ ~opening THEN 1 ELSE 0]
    /\ receivedAt = [p \in Packet |-> 0] /\ settled = {}
    /\ ackAt = [q \in Returning |-> 0] /\ ackSettled = {}
    /\ updates = [c \in Chain |-> {[of |-> 1, block |-> 1]}]
    /\ pc = "source"
    /\ readAt = [c \in Chain |-> 0] /\ endState = [c \in Chain |-> "Open"]
    /\ next_sequence_recv = 0 /\ latestOnSink = 0 /\ latestOnSource = 0
    /\ seqs = {} /\ acks = {}
    /\ messages = {} /\ timeouts = {} /\ missed = FALSE

Known(c) == {u.of : u \in updates[c]}
Latest(c) == CHOOSE h \in Known(c) : \A g \in Known(c) : g <= h

EndOf(c) == IF closedAt[c] = 0 THEN "Open" ELSE "Closed"

-------------------------------------------------------------------------------
(* The chains: a block, with one step of IBC or none.                      *)
Extend(c) == height' = [height EXCEPT ![c] = height[c] + 1]

EmptyBlock(c) ==
    /\ Extend(c)
    /\ UNCHANGED <<ordered, opening, sentAt, receivedAt, settled, ackAt, ackSettled, updates, closedAt,
                   callVars>>

Open ==
    /\ opening
    /\ Extend("source") /\ opening' = FALSE
    /\ UNCHANGED <<ordered, sentAt, receivedAt, settled, ackAt, ackSettled, updates, closedAt,
                   callVars>>

Send(p) ==
    /\ sentAt[p] = 0 /\ ~opening /\ closedAt["source"] = 0 /\ \A o \in Packet : o < p => sentAt[o] # 0
    /\ Extend("source") /\ sentAt' = [sentAt EXCEPT ![p] = height["source"] + 1]
    /\ UNCHANGED <<ordered, opening, receivedAt, settled, ackAt, ackSettled, updates, closedAt, callVars>>

(* A block of the sink at height h is too late for p.                      *)
Expired(p, h) ==
    \/ TimeoutHeight[p] # 0 /\ h >= TimeoutHeight[p]
    \/ TimeoutTime[p] # 0 /\ Time("sink", h) >= TimeoutTime[p]

Receive(p) ==
    /\ receivedAt[p] = 0 /\ closedAt["sink"] = 0
    /\ \E h \in Known("sink") : sentAt[p] \in 1..h
    /\ ~Expired(p, height["sink"] + 1)
    /\ ordered => \A o \in Packet : o < p => receivedAt[o] # 0
    /\ Extend("sink") /\ receivedAt' = [receivedAt EXCEPT ![p] = height["sink"] + 1]
    /\ UNCHANGED <<ordered, opening, sentAt, settled, ackAt, ackSettled, updates, closedAt, callVars>>

(* Source gets the acknowledgement of p, or a timeout another relayer has  *)
(* proved; a timeout closes an ordered channel.                            *)
Settle(p) ==
    /\ sentAt[p] # 0 /\ p \notin settled /\ closedAt["source"] = 0
    /\ \E h \in Known("source") :
          \/ receivedAt[p] \in 1..h /\ UNCHANGED closedAt
          \/ /\ Expired(p, h) /\ receivedAt[p] = 0
             /\ closedAt' = IF ordered THEN [closedAt EXCEPT !["source"] = height["source"] + 1]
                            ELSE closedAt
    /\ Extend("source") /\ settled' = settled \cup {p}
    /\ UNCHANGED <<ordered, opening, sentAt, receivedAt, ackAt, ackSettled, updates, callVars>>

WriteAck(q) ==
    /\ ackAt[q] = 0 /\ ~opening /\ closedAt["source"] = 0
    /\ Extend("source") /\ ackAt' = [ackAt EXCEPT ![q] = height["source"] + 1]
    /\ UNCHANGED <<ordered, opening, sentAt, receivedAt, settled, ackSettled, updates, closedAt, callVars>>

SettleAck(q) ==
    /\ \E h \in Known("sink") : ackAt[q] \in 1..h
    /\ q \notin ackSettled /\ closedAt["sink"] = 0
    /\ Extend("sink") /\ ackSettled' = ackSettled \cup {q}
    /\ UNCHANGED <<ordered, opening, sentAt, receivedAt, settled, ackAt, updates, closedAt, callVars>>

(* A client takes any header it does not have yet, an older one included.  *)
UpdateClient(c, h) ==
    /\ h \in 1..height[Peer(c)] \ Known(c)
    /\ Extend(c)
    /\ updates' = [updates EXCEPT ![c] = updates[c] \cup {[of |-> h, block |-> height[c] + 1]}]
    /\ UNCHANGED <<ordered, opening, sentAt, receivedAt, settled, ackAt, ackSettled, closedAt, callVars>>

Close(c) ==
    /\ closedAt[c] = 0 /\ ~opening
    /\ Extend(c) /\ closedAt' = [closedAt EXCEPT ![c] = height[c] + 1]
    /\ UNCHANGED <<ordered, opening, sentAt, receivedAt, settled, ackAt, ackSettled, updates, callVars>>

ChainStep ==
    \/ Open
    \/ \E c \in Chain :
          EmptyBlock(c) \/ Close(c) \/ \E h \in 1..height[Peer(c)] : UpdateClient(c, h)
    \/ \E p \in Packet : Send(p) \/ Receive(p) \/ Settle(p)
    \/ \E q \in Returning : WriteAck(q) \/ SettleAck(q)

-------------------------------------------------------------------------------
(* The call.                                                               *)
ReadHeight(c, next) ==
    /\ pc = c
    /\ readAt' = [readAt EXCEPT ![c] = height[c]] /\ pc' = next
    /\ UNCHANGED <<chainVars, endState, next_sequence_recv, latestOnSink, latestOnSource, seqs, acks,
                   results>>

(* Only an open or closed channel is looked at.                            *)
ReadChannel_variant ==   \* any channel is
    /\ pc = "channel"
    /\ endState' = [endState EXCEPT !["source"] = IF opening THEN "TryOpen" ELSE EndOf("source")]
    /\ pc' = "counterparty"
    /\ UNCHANGED <<chainVars, readAt, next_sequence_recv, latestOnSink, latestOnSource, seqs, acks,
                   results>>

ReadChannel ==
    /\ pc = "channel"
    /\ endState' = [endState EXCEPT !["source"] = EndOf("source")]
    /\ pc' = IF opening THEN "done" ELSE "counterparty"
    /\ UNCHANGED <<chainVars, readAt, next_sequence_recv, latestOnSink, latestOnSource, seqs, acks,
                   results>>

(* The channel end on the sink, and the number it will receive next.       *)
ReadCounterparty ==
    /\ pc = "counterparty"
    /\ endState' = [endState EXCEPT !["sink"] = EndOf("sink")] /\ pc' = "client"
    /\ \E n \in {1} \cup {p + 1 : p \in Packet} :
          /\ IF ordered THEN \A p \in Packet : p < n <=> receivedAt[p] # 0 ELSE n = 1
          /\ next_sequence_recv' = n
    /\ UNCHANGED <<chainVars, readAt, latestOnSink, latestOnSource, seqs, acks, results>>

ReadClient ==
    /\ pc = "client"
    /\ latestOnSink' = Latest("sink") /\ pc' = "again"
    /\ UNCHANGED <<chainVars, readAt, endState, next_sequence_recv, latestOnSource, seqs, acks, results>>

(* The client of sink on source is meant; the same one is asked for again. *)
ReadOtherClient ==
    /\ pc = "again"
    /\ latestOnSource' = Latest("sink") /\ pc' = "commitments"
    /\ UNCHANGED <<chainVars, readAt, endState, next_sequence_recv, latestOnSink, seqs, acks, results>>

(* query_undelivered_sequences: the commitments on source, then of those   *)
(* the ones sink has no receipt of or, on an ordered channel, the ones     *)
(* after the number it will receive next.                                  *)
ReadCommitments ==
    /\ pc = "commitments"
    /\ seqs' = {p \in Packet : sentAt[p] # 0 /\ p \notin settled} /\ pc' = "unreceived"
    /\ UNCHANGED <<chainVars, reads, acks, results>>

AfterNext(p) == \E o \in Packet : o < p /\ receivedAt[o] = 0

ReadUnreceived_variant ==   \* the commitments are not filtered on an unordered channel
    /\ pc = "unreceived"
    /\ seqs' = {p \in seqs : ordered => AfterNext(p)} /\ pc' = "packets"
    /\ UNCHANGED <<chainVars, reads, acks, results>>

ReadUnreceived ==
    /\ pc = "unreceived"
    /\ seqs' = {p \in seqs : IF ordered THEN AfterNext(p) ELSE receivedAt[p] = 0}
    /\ pc' = "packets"
    /\ UNCHANGED <<chainVars, reads, acks, results>>

-------------------------------------------------------------------------------
BlockDelay(d) == IF BlockTime = 0 THEN 0 ELSE (d + BlockTime - 1) \div BlockTime

(* has_delay_elapsed, at height h of c, since the update u of its client.  *)
DelayElapsed(c, u, h) ==
    /\ Time(c, h) >= Time(c, u.block) + Delay
    /\ h >= u.block + BlockDelay(Delay)

verify_delay_passed_variant(c, h) ==   \* the chains confused
    \E u \in updates[c] : u.of = h /\ DelayElapsed(c, u, readAt[Peer(c)])

verify_delay_passed(c, h) == \E u \in updates[c] : u.of = h /\ DelayElapsed(c, u, readAt[c])

(* packet.timed_out: strictly after, by the heights read at the beginning. *)
timed_out(p) ==
    \/ TimeoutHeight[p] # 0 /\ readAt["sink"] > TimeoutHeight[p]
    \/ TimeoutTime[p] # 0 /\ Time("sink", readAt["sink"]) > TimeoutTime[p]

(* find_suitable_proof_height_for_client: without a timestamp the first    *)
(* height, 0 for None; with one the halving of the range start..start + n. *)
FirstKnown(c, lo, hi) ==
    LET hits == Known(c) \cap (lo..hi)
    IN IF hits = {} THEN 0 ELSE CHOOSE h \in hits : \A g \in hits : h <= g

Suitable(c, time, h) == h \in Known(c) /\ Time(Peer(c), h) >= time

Halve(c, time, find, n, start, last) ==
    LET mid == start + n \div 2 IN
    IF n <= 1 THEN IF Suitable(c, time, start) THEN start ELSE last
    ELSE IF mid \notin Known(c) THEN find[n - 1][start + 1][last]
    ELSE IF ~Suitable(c, time, mid) THEN find[n - n \div 2 - 1][mid + 1][last]
    ELSE find[n \div 2][start][mid]

Halving(c, time, lo, hi) ==
    LET find[n \in 0..(hi - lo)] ==
            [start \in Nat |-> [last \in Nat |-> Halve(c, time, find, n, start, last)]]
    IN IF lo > hi THEN 0 ELSE find[hi - lo][lo][0]

(* get_timeout_proof_height: the client state asked for at the packet's    *)
(* height is the latest one.  `period' is an unsigned difference.          *)
LatestTime == Time("sink", Latest("source"))
PeriodUnderflows(p) == TimeoutHeight[p] # 0 /\ TimeoutTime[p] < LatestTime

StartHeight(p) ==
    LET blocks == BlockDelay(TimeoutTime[p] - LatestTime)
        start == Latest("source") + (IF blocks = 0 THEN 0 ELSE blocks - 1)
    IN IF start < TimeoutHeight[p] THEN TimeoutHeight[p] ELSE start

get_timeout_proof_height_variant(p) ==   \* any height, from the first on
    IF TimeoutHeight[p] = 0 THEN 0 ELSE FirstKnown("source", 1, latestOnSource)

get_timeout_proof_height(p) ==
    IF TimeoutHeight[p] = 0 THEN 0
    ELSE Halving("source", TimeoutTime[p], StartHeight(p), latestOnSource)

TimeoutReady(p) ==
    LET h == get_timeout_proof_height(p) IN h # 0 /\ verify_delay_passed("source", h)

(* A proof height for something source committed in block `at', on which   *)
(* the delay has passed.  The search without failing queries finds the     *)
(* first one.                                                              *)
RelayHeights(at) ==
    {h \in Known("sink") : h \in at..latestOnSink /\ verify_delay_passed("sink", h)}

FirstReady(at) == FirstKnown("sink", at, latestOnSink) \in RelayHeights(at)

Sendable_variant(p) ==   \* the latest height itself left out
    ~timed_out(p) /\ endState["sink"] = "Open" /\ sentAt[p] < latestOnSink

Sendable(p) == ~timed_out(p) /\ endState["sink"] = "Open" /\ sentAt[p] <= latestOnSink

-------------------------------------------------------------------------------
AtPacket(p) == pc = "packets" /\ p \in seqs /\ \A o \in seqs : p <= o

(* The call returns an Err, or panics.  Both lists are dropped.            *)
Fail == pc' = "failed" /\ messages' = {} /\ timeouts' = {}

(* construct_timeout_message, and the other two like it, query the proof   *)
(* at proof_height and declare proof_height for it.                        *)
AddTimeout(p) ==
    /\ AtPacket(p) /\ timed_out(p) /\ ~PeriodUnderflows(p) /\ TimeoutReady(p)
    /\ timeouts' = timeouts \cup
          {[kind |-> IF endState["sink"] = "Closed" THEN "MsgTimeoutOnClose" ELSE "MsgTimeout",
            seq |-> p, at |-> get_timeout_proof_height(p), proof |-> get_timeout_proof_height(p),
            next |-> next_sequence_recv]}
    /\ seqs' = seqs \ {p}
    /\ UNCHANGED <<chainVars, pc, reads, acks, messages, missed>>

(* An overflow is a panic in a debug build; in a release build it wraps    *)
(* and the search starts far above every height.                           *)
PeriodOverflow(p) ==
    /\ AtPacket(p) /\ timed_out(p) /\ PeriodUnderflows(p)
    /\ \/ pc' = pc /\ UNCHANGED <<messages, timeouts>>
       \/ Fail
    /\ seqs' = seqs \ {p}
    /\ UNCHANGED <<chainVars, reads, acks, missed>>

(* construct_recv_message                                                  *)
AddRecv(p, h) ==
    /\ AtPacket(p) /\ Sendable(p) /\ h \in RelayHeights(sentAt[p])
    /\ messages' = messages \cup {[kind |-> "MsgRecvPacket", seq |-> p, at |-> h, proof |-> h]}
    /\ missed' = (missed \/ h # FirstKnown("sink", sentAt[p], latestOnSink))
    /\ seqs' = seqs \ {p}
    /\ UNCHANGED <<chainVars, pc, reads, acks, timeouts>>

(* One of the `continue's.                                                 *)
PassOver(p) ==
    /\ AtPacket(p)
    /\ IF timed_out(p) THEN ~PeriodUnderflows(p) /\ ~TimeoutReady(p)
       ELSE ~(Sendable(p) /\ FirstReady(sentAt[p]))
    /\ seqs' = seqs \ {p}
    /\ UNCHANGED <<chainVars, pc, reads, acks, results>>

PacketsHandled ==
    /\ pc = "packets" /\ seqs = {}
    /\ pc' = "acks"
    /\ UNCHANGED <<chainVars, reads, seqs, acks, results>>

(* query_undelivered_acks, and no messages from a closed end.              *)
ReadAcks ==
    /\ pc = "acks"
    /\ acks' = {q \in Returning : ackAt[q] # 0} /\ pc' = "unreceived_acks"
    /\ UNCHANGED <<chainVars, reads, seqs, results>>

ReadUnreceivedAcks ==
    /\ pc = "unreceived_acks"
    /\ IF endState["source"] = "Closed" THEN acks' = {} /\ pc' = "done"
       ELSE acks' = acks \ ackSettled /\ pc' = "ack_packets"
    /\ UNCHANGED <<chainVars, reads, seqs, results>>

AtAck(q) == pc = "ack_packets" /\ q \in acks /\ \A o \in acks : q <= o

(* construct_ack_message                                                   *)
AddAck(q, h) ==
    /\ AtAck(q) /\ h \in RelayHeights(ackAt[q])
    /\ messages' = messages \cup
          {[kind |-> "MsgAcknowledgement", seq |-> q, at |-> h, proof |-> h]}
    /\ missed' = (missed \/ h # FirstKnown("sink", ackAt[q], latestOnSink))
    /\ acks' = acks \ {q}
    /\ UNCHANGED <<chainVars, pc, reads, seqs, timeouts>>

PassOverAck(q) ==
    /\ AtAck(q) /\ ~FirstReady(ackAt[q])
    /\ acks' = acks \ {q}
    /\ UNCHANGED <<chainVars, pc, reads, seqs, results>>

AcksHandled ==
    /\ pc = "ack_packets" /\ acks = {}
    /\ pc' = "done"
    /\ UNCHANGED <<chainVars, reads, seqs, acks, results>>

(* A query of the search or of the update's time fails, or a packet found  *)
(* has no acknowledgement: what is handled is passed over.                 *)
LookupFails ==
    /\ \/ \E p \in seqs : AtPacket(p) /\ seqs' = seqs \ {p} /\ UNCHANGED acks
       \/ \E q \in acks : AtAck(q) /\ acks' = acks \ {q} /\ UNCHANGED seqs
    /\ missed' = TRUE
    /\ UNCHANGED <<chainVars, pc, reads, messages, timeouts>>

(* Any other query: an Err by `?' or an unwrap.                            *)
QueryFails ==
    /\ pc \in Steps /\ Fail
    /\ UNCHANGED <<chainVars, reads, seqs, acks, missed>>

CallStep ==
    \/ ReadHeight("source", "sink") \/ ReadHeight("sink", "channel")
    \/ ReadChannel \/ ReadCounterparty \/ ReadClient \/ ReadOtherClient
    \/ ReadCommitments \/ ReadUnreceived
    \/ \E p \in Packet :
          \/ AddTimeout(p) \/ PeriodOverflow(p) \/ PassOver(p)
          \/ \E h \in Known("sink") : AddRecv(p, h)
    \/ PacketsHandled \/ ReadAcks \/ ReadUnreceivedAcks
    \/ \E q \in Returning : PassOverAck(q) \/ \E h \in Known("sink") : AddAck(q, h)
    \/ AcksHandled

Next == CallStep \/ ChainStep \/ LookupFails \/ QueryFails

Spec == Init /\ [][Next]_vars

-------------------------------------------------------------------------------
(* The heights a message for the sink was made with fit, then and later:   *)
(* source had committed the packet or acknowledgement by the height the    *)
(* proof was queried at, and the declared height is one the client has,    *)
(* updated to it at least the delay ago (packets.rs:234, packets.rs:264,   *)
(* packets.rs:312).  That the proof belongs to the declared height is not  *)
(* said here: see MessagesProvable.                                        *)
CommittedAt(m) == IF m.kind = "MsgRecvPacket" THEN sentAt[m.seq] ELSE ackAt[m.seq]

Usable(c, h) == \E u \in updates[c] : u.of = h /\ DelayElapsed(c, u, height[c])

MessageHeightsFit ==
    \A m \in messages : CommittedAt(m) \in 1..m.at /\ Usable("sink", m.proof)

(* So do those of a timeout: the block of sink it declares is at or after  *)
(* both of the packet's timeouts.  And the number it gives as the next to  *)
(* be received on an ordered channel is not beyond the packet, as source   *)
(* requires (packets.rs:104, packets.rs:165-202).                          *)
TimeoutHeightsFit ==
    \A m \in timeouts :
        /\ Expired(m.seq, m.proof) /\ TimeoutHeight[m.seq] <= m.proof
        /\ TimeoutTime[m.seq] <= Time("sink", m.proof)
        /\ ordered => m.next <= m.seq
        /\ Usable("source", m.proof)

(* "packets that are ready to be sent to the sink chain" (packets.rs:41):  *)
(* sink accepts their proofs.  The state after a block is committed to by  *)
(* the next block's header, so a proof queried at a height must be         *)
(* declared for the next one, as the queries by CosmosClient do            *)
(* (cosmos/utils.rs:3).  Here both are proof_height (utils.rs:222-226).    *)
MessagesProvable ==
    \A m \in messages :
        CommittedAt(m) \in 1..m.at /\ m.proof = m.at + 1 /\ Usable("sink", m.proof)

(* A packet returned as timed out is never received, neither before the    *)
(* call nor after it: sink's height is read before its receipts            *)
(* (packets.rs:50, packets.rs:149, packets.rs:165).                        *)
TimeoutsFinal ==
    \A m \in timeouts :
        /\ receivedAt[m.seq] = 0
        /\ \A n \in messages : n.kind = "MsgRecvPacket" => n.seq # m.seq

(* Only packets are returned that sink had not received when the call      *)
(* began (funcs.rs:49).                                                    *)
NothingRepeated ==
    \A m \in messages :
        m.kind = "MsgRecvPacket" => ~(receivedAt[m.seq] \in 1..readAt["sink"])

(* A call that returns, without a lookup failing, has returned every       *)
(* packet that was ready when it began and still is, if the client was     *)
(* updated in the order of its heights.  On an ordered channel that is for *)
(* the packets after the next one (packets.rs:41, funcs.rs:63).            *)
UpdatedInOrder(c) ==
    \A u, v \in updates[c] : u.of <= v.of => u.block <= v.block

ReadyWhenRead(c, at) ==
    /\ at \in 1..readAt[Peer(c)]
    /\ \E u \in updates[c] : at <= u.of /\ DelayElapsed(c, u, readAt[c])

Returned(kind, seq) == \E m \in messages : m.kind = kind /\ m.seq = seq

Undelivered(p) == p \notin settled /\ receivedAt[p] = 0

AllReadyReturned ==
    (pc = "done" /\ ~missed /\ UpdatedInOrder("sink")) =>
        /\ \A p \in Packet :
              (/\ Undelivered(p) /\ ~timed_out(p) /\ (ordered => AfterNext(p))
               /\ ReadyWhenRead("sink", sentAt[p]) /\ closedAt["sink"] = 0)
              => Returned("MsgRecvPacket", p)
        /\ \A q \in Returning :
              (/\ q \notin ackSettled /\ closedAt["source"] = 0
               /\ ReadyWhenRead("sink", ackAt[q]))
              => Returned("MsgAcknowledgement", q)

(* "the second item being packet timeouts that should be sent to the       *)
(* source" (packets.rs:42): also every packet that can be timed out.       *)
AllTimeoutsReturned ==
    (pc = "done" /\ ~missed /\ UpdatedInOrder("source")) =>
        \A p \in Packet :
            (/\ Undelivered(p) /\ timed_out(p) /\ ~ordered /\ closedAt["source"] = 0
             /\ sentAt[p] \in 1..readAt["source"]
             /\ \E u \in updates["source"] :
                   /\ TimeoutHeight[p] <= u.of /\ TimeoutTime[p] <= Time("sink", u.of)
                   /\ DelayElapsed("source", u, readAt["source"]))
            => \E m \in timeouts : m.seq = p
===============================================================================
