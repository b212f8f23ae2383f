-------------------------------- MODULE Relay --------------------------------
(***************************************************************************)
(* The relayer task: relay() of core/relay.rs with the body of the macro   *)
(* process_finality_event, one step per point at which the code awaits.    *)
(* The task is sequential; the chains move on between any two of its       *)
(* steps.                                                                  *)
(*                                                                         *)
(* A definition whose name has _variant in it is how the one below would   *)
(* read after a plausible mistake in the code; nothing uses it, and the    *)
(* README says which property notices it.                                  *)
(***************************************************************************)
EXTENDS IbcChain

CONSTANTS
    ChanId,      \* ChanId[c][f]: the id chain c gave its end of the channel of f
    Delayed,     \* packet flows over a connection with a delay period
    MaxMsgs,     \* messages estimate_weight lets into one transaction
    MaxUserTx    \* flows the users of a chain may start in one block

ASSUME RelayAssumption ==
    /\ Delayed \subseteq Flow
    /\ ChanId \in [Chain -> [Flow -> STRING]]
    /\ MaxMsgs \in Nat /\ MaxUserTx \in Nat

VARIABLES
    pc,        \* where the task is; "stopped" once relay() has returned
    notifs,    \* notifs[c]: finality events of c not yet taken from its stream
    src,       \* $source of the pass; $sink is Peer(src)
    from, to,  \* the pass handles the events of the blocks in (from, to]
    cursor,    \* position in log[src] of the next event to translate
    batch,     \* the messages translated so far
    ref,       \* proof_height_ref
    trusted,   \* client height read by the second query_latest_ibc_events
    header,    \* height of the header put in MsgUpdateClient, 0 before
    sent,      \* what became of the transaction the pass broadcast
    restarts   \* how often relay() has been called again

pass == <<src, from, to, cursor, batch, ref, trusted, header, sent>>
relayVars == <<pc, notifs, restarts, pass>>
vars == <<chainVars, relayVars>>

PC == {"select", "scan", "blocks", "parse", "await", "rescan", "header", "flush",
       "broadcast", "confirm", "stopped"}

TypeOK ==
    /\ ChainTypeOK
    /\ pc \in PC
    /\ notifs \in [Chain -> Nat]
    /\ src \in Chain
    /\ from \in Nat /\ to \in Nat /\ cursor \in Nat \ {0}
    /\ batch \in Seq(Message)
    /\ ref \in Nat /\ trusted \in Nat /\ header \in Nat
    /\ sent \in {"none", "pooled", "lost", "ok", "failed"}
    /\ restarts \in Nat

Init ==
    /\ ChainInit
    /\ pc = "select" /\ notifs = [c \in Chain |-> 0] /\ restarts = 0
    /\ src = ChainA /\ from = 0 /\ to = 0 /\ cursor = 1 /\ batch = <<>>
    /\ ref = 1 /\ trusted = 0 /\ header = 0 /\ sent = "none"

sink == Peer(src)

-------------------------------------------------------------------------------
(* The message parse_events makes of an event, by family of arms.          *)
ConnectionMsg ==
    [ OpenInitConnection |-> "MsgConnectionOpenTry",
      OpenTryConnection  |-> "MsgConnectionOpenAck",
      OpenAckConnection  |-> "MsgConnectionOpenConfirm" ]

ChannelMsg_variant ==   \* OpenTry and OpenAck confused
    [ OpenInitChannel  |-> "MsgChannelOpenAck",
      OpenTryChannel   |-> "MsgChannelOpenTry",
      OpenAckChannel   |-> "MsgChannelOpenConfirm",
      CloseInitChannel |-> "MsgChannelCloseConfirm" ]

ChannelMsg ==
    [ OpenInitChannel  |-> "MsgChannelOpenTry",
      OpenTryChannel   |-> "MsgChannelOpenAck",
      OpenAckChannel   |-> "MsgChannelOpenConfirm",
      CloseInitChannel |-> "MsgChannelCloseConfirm" ]

PacketKind_variant == {"SendPacket"}   \* no arm for WriteAcknowledgement
PacketKind == {"SendPacket", "WriteAcknowledgement"}

MsgOfPacket_variant ==   \* the two packet messages confused
    [ SendPacket           |-> "MsgAcknowledgement",
      WriteAcknowledgement |-> "MsgRecvPacket" ]

MsgOfPacket ==
    [ SendPacket           |-> "MsgRecvPacket",
      WriteAcknowledgement |-> "MsgAcknowledgement" ]

RelayedKind == DOMAIN ConnectionMsg \cup DOMAIN ChannelMsg \cup PacketKind

MsgFor(k) ==
    IF k \in DOMAIN ConnectionMsg THEN ConnectionMsg[k]
    ELSE IF k \in DOMAIN ChannelMsg THEN ChannelMsg[k]
    ELSE MsgOfPacket[k]

(* The events that become a message; the others are passed over: kinds no  *)
(* arm names, and packets over a connection with a delay period.           *)
Relayable(e) == e.kind \in RelayedKind /\ ~(e.kind \in PacketKind /\ e.flow \in Delayed)

(* The channel end a packet event is looked up by: the packet's source     *)
(* channel, also for an acknowledgement, which the other end wrote.        *)
QueriedChannel(e) == ChanId[Origin[e.flow]][e.flow]
QueriedChannelExists(e) == QueriedChannel(e) = ChanId[src][e.flow]

has_packet_events_variant == FALSE   \* only the messages are looked at

(* has_packet_events over the types of all the scanned events.             *)
has_packet_events ==
    \E i \in DOMAIN log[src] :
        /\ from < log[src][i].height /\ log[src][i].height <= to
        /\ log[src][i].kind \in PacketKind

-------------------------------------------------------------------------------
(* The pass ends, with its locals, in `continue', or relay() returns and   *)
(* drops its subscriptions.                                                *)
EndPass(label) ==
    /\ pc' = label
    /\ src' = ChainA /\ from' = 0 /\ to' = 0 /\ cursor' = 1 /\ batch' = <<>>
    /\ ref' = 1 /\ trusted' = 0 /\ header' = 0 /\ sent' = "none"

Continue == EndPass("select") /\ UNCHANGED <<chainVars, notifs, restarts>>
Stop ==
    /\ EndPass("stopped") /\ notifs' = [c \in Chain |-> 0]
    /\ UNCHANGED <<chainVars, restarts>>

(* tokio::select! takes a finality event from a stream that has one.       *)
Select(c) ==
    /\ pc = "select" /\ notifs[c] > 0
    /\ pc' = "scan" /\ src' = c
    /\ notifs' = [notifs EXCEPT ![c] = notifs[c] - 1]
    /\ UNCHANGED <<chainVars, restarts, from, to, cursor, batch, ref, trusted, header, sent>>

(* First query_latest_ibc_events: the client state on the sink ...         *)
ScanClient ==
    /\ pc = "scan"
    /\ pc' = "blocks" /\ from' = client[sink]
    /\ UNCHANGED <<chainVars, notifs, restarts, src, to, cursor, batch, ref, trusted, header, sent>>

ScanBlocks_variant ==   \* the first block of the range is left out
    /\ pc = "blocks" /\ height[src] > from
    /\ pc' = "parse" /\ to' = height[src]
    /\ \E n \in 1..(Len(log[src]) + 1) :
          /\ \A i \in DOMAIN log[src] : i < n <=> log[src][i].height <= from + 1
          /\ cursor' = n
    /\ UNCHANGED <<chainVars, notifs, restarts, src, from, batch, ref, trusted, header, sent>>

(* ... then the blocks after it, up to the latest.                         *)
ScanBlocks ==
    /\ pc = "blocks" /\ height[src] > from
    /\ pc' = "parse" /\ to' = height[src]
    /\ \E n \in 1..(Len(log[src]) + 1) :
          /\ \A i \in DOMAIN log[src] : i < n <=> log[src][i].height <= from
          /\ cursor' = n
    /\ UNCHANGED <<chainVars, notifs, restarts, src, from, batch, ref, trusted, header, sent>>

(* The trusted validators are those of the block after the client's        *)
(* height; until that block exists the query is an Err, which is logged.   *)
NothingNew ==
    /\ \/ pc = "blocks" /\ height[src] <= from
       \/ pc = "header" /\ height[src] <= trusted
    /\ Continue

HasNext == cursor <= Len(log[src]) /\ log[src][cursor].height <= to
NextEvent == log[src][cursor]

Translate_variant_height ==   \* proof_height is not incremented
    /\ pc = "parse" /\ HasNext
    /\ IF ~Relayable(NextEvent) THEN UNCHANGED <<batch, ref>>
       ELSE /\ NextEvent.kind \in PacketKind => QueriedChannelExists(NextEvent)
            /\ batch' = Append(batch, [msg |-> MsgFor(NextEvent.kind), flow |-> NextEvent.flow,
                                       at |-> NextEvent.height, proof |-> height[src]])
            /\ ref' = IF ref >= height[src] THEN ref ELSE height[src]
    /\ cursor' = cursor + 1
    /\ UNCHANGED <<chainVars, pc, notifs, restarts, src, from, to, trusted, header, sent>>

Translate_variant_twice ==   \* an event found in two results of a block counts twice
    LET m == [msg |-> MsgFor(NextEvent.kind), flow |-> NextEvent.flow,
              at |-> NextEvent.height, proof |-> height[src] + 1]
    IN /\ pc = "parse" /\ HasNext
       /\ IF ~Relayable(NextEvent) THEN UNCHANGED <<batch, ref>>
          ELSE /\ batch' = batch \o <<m, m>>
               /\ ref' = IF ref >= height[src] + 1 THEN ref ELSE height[src] + 1
       /\ cursor' = cursor + 1
       /\ UNCHANGED <<chainVars, pc, notifs, restarts, src, from, to, trusted, header, sent>>

(* One iteration of parse_events.  The proof is of the state at the        *)
(* event's height, and is declared for one above the chain's height now.   *)
Translate ==
    /\ pc = "parse" /\ HasNext
    /\ IF ~Relayable(NextEvent) THEN UNCHANGED <<batch, ref>>
       ELSE /\ NextEvent.kind \in PacketKind => QueriedChannelExists(NextEvent)
            /\ batch' = Append(batch, [msg |-> MsgFor(NextEvent.kind), flow |-> NextEvent.flow,
                                       at |-> NextEvent.height, proof |-> height[src] + 1])
            /\ ref' = IF ref >= height[src] + 1 THEN ref ELSE height[src] + 1
    /\ cursor' = cursor + 1
    /\ UNCHANGED <<chainVars, pc, notifs, restarts, src, from, to, trusted, header, sent>>

ChannelNotFound_variant ==   \* the event is passed over instead
    /\ pc = "parse" /\ HasNext
    /\ NextEvent.kind \in PacketKind /\ ~QueriedChannelExists(NextEvent)
    /\ cursor' = cursor + 1
    /\ UNCHANGED <<chainVars, pc, notifs, restarts, src, from, to, batch, ref, trusted, header,
                   sent>>

(* A query for an unknown channel is an Err that leaves relay() by `?'.    *)
ChannelNotFound ==
    /\ pc = "parse" /\ HasNext
    /\ NextEvent.kind \in PacketKind /\ ~QueriedChannelExists(NextEvent)
    /\ Stop

Parsed ==
    /\ pc = "parse" /\ ~HasNext
    /\ pc' = "await"
    /\ UNCHANGED <<chainVars, notifs, restarts, pass>>

ProofHeightReached_variant ==   \* no loop on proof_height_ref
    /\ pc = "await"
    /\ pc' = "rescan"
    /\ UNCHANGED <<chainVars, notifs, restarts, pass>>

(* while source.latest < proof_height_ref { sleep }                        *)
ProofHeightReached ==
    /\ pc = "await" /\ height[src] >= ref
    /\ pc' = "rescan"
    /\ UNCHANGED <<chainVars, notifs, restarts, pass>>

RescanClient_variant ==   \* the last block scanned taken for the client's height
    /\ pc = "rescan"
    /\ pc' = "header" /\ trusted' = to
    /\ UNCHANGED <<chainVars, notifs, restarts, src, from, to, cursor, batch, ref, header, sent>>

(* Second query_latest_ibc_events, of which only the update is kept.       *)
RescanClient ==
    /\ pc = "rescan"
    /\ pc' = "header" /\ trusted' = client[sink]
    /\ UNCHANGED <<chainVars, notifs, restarts, src, from, to, cursor, batch, ref, header, sent>>

(* msg_update_client_header answers UpdateType::Optional, whichever way     *)
(* the comparison of the validator sets goes.                              *)
NothingToSend == ~has_packet_events /\ batch = <<>>

FetchHeader ==
    /\ pc = "header" /\ height[src] > trusted /\ ~NothingToSend
    /\ pc' = "flush" /\ header' = height[src]
    /\ UNCHANGED <<chainVars, notifs, restarts, src, from, to, cursor, batch, ref, trusted, sent>>

SkipUpdate ==
    /\ pc = "header" /\ height[src] > trusted /\ NothingToSend
    /\ Continue

(* flush_message_batch: for Cosmos, estimate_weight either fails or stays  *)
(* below block_max_weight, so the batch is submitted whole.                *)
FitsInTx == Len(batch) + 1 <= MaxMsgs

Flush ==
    /\ pc = "flush" /\ FitsInTx
    /\ pc' = "broadcast"
    /\ UNCHANGED <<chainVars, notifs, restarts, pass>>

TooManyMessages ==
    /\ pc = "flush" /\ ~FitsInTx
    /\ Stop

(* submit_call: sign with the account's sequence number and broadcast.     *)
(* With an earlier transaction of the account in the mempool the number is *)
(* taken, CheckTx refuses the new one, and broadcast_tx does not notice.   *)
Broadcast ==
    /\ pc = "broadcast"
    /\ pc' = "confirm"
    /\ IF pool[sink] = {}
         THEN /\ sent' = "pooled"
              /\ pool' = [pool EXCEPT ![sink] =
                            {[header |-> header, trusted |-> trusted, batch |-> batch,
                              from |-> from, to |-> to]}]
         ELSE sent' = "lost" /\ UNCHANGED pool
    /\ UNCHANGED <<height, log, client, consensus, notifs, restarts,
                   src, from, to, cursor, batch, ref, trusted, header>>

Confirmed_variant ==   \* Ok as soon as the transaction is broadcast
    pc = "confirm" /\ sent \in {"pooled", "ok"} /\ Continue

(* confirm_tx: found with code 0, found with an error code, not found.     *)
Confirmed == pc = "confirm" /\ sent = "ok" /\ Continue
ConfirmFailed == pc = "confirm" /\ sent = "failed" /\ Stop
ConfirmTimeout == pc = "confirm" /\ sent = "lost" /\ Stop

-------------------------------------------------------------------------------
(* What the chains do, and what the task learns of it.                     *)
Notify(c) == notifs' = IF pc = "stopped" THEN notifs ELSE [notifs EXCEPT ![c] = notifs[c] + 1]

Awaiting(c) == pc = "confirm" /\ sent = "pooled" /\ c = sink

Outcome(c, result) == sent' = IF Awaiting(c) THEN result ELSE sent

NewBlock(c, fs) ==
    /\ CommitUsers(c, fs) /\ Notify(c)
    /\ UNCHANGED <<pc, restarts, pass>>

AcceptTx(c) ==
    /\ \E tx \in pool[c] : CommitTx(c, tx)
    /\ Notify(c) /\ Outcome(c, "ok")
    /\ UNCHANGED <<pc, restarts, src, from, to, cursor, batch, ref, trusted, header>>

RejectTx(c) ==
    /\ \E tx \in pool[c] : CommitFailedTx(c, tx)
    /\ Notify(c) /\ Outcome(c, "failed")
    /\ UNCHANGED <<pc, restarts, src, from, to, cursor, batch, ref, trusted, header>>

-------------------------------------------------------------------------------
(* Failures of the world around the task.                                  *)
DropTx(c) ==
    /\ pool[c] # {}
    /\ pool' = [pool EXCEPT ![c] = {}] /\ Outcome(c, "lost")
    /\ UNCHANGED <<height, log, client, consensus, pc, notifs, restarts,
                   src, from, to, cursor, batch, ref, trusted, header>>

(* A failed query inside query_latest_ibc_events is logged; one anywhere   *)
(* else is returned, as is a chain that takes over 30 s to confirm.        *)
QueryLatestFails == pc \in {"scan", "blocks", "rescan", "header"} /\ Continue
QueryFails == pc \in {"parse", "await", "flush", "broadcast"} /\ Stop
ConfirmTooSlow == pc = "confirm" /\ sent = "pooled" /\ Stop

(* None => break: a stream that has ended ends relay().                    *)
StreamClosed(c) == pc = "select" /\ notifs[c] = 0 /\ Stop

(* handle.abort(), and relay() called again with fresh subscriptions.      *)
Abort == pc # "stopped" /\ Stop

Start ==
    /\ pc = "stopped"
    /\ pc' = "select" /\ restarts' = restarts + 1
    /\ UNCHANGED <<chainVars, notifs, pass>>

-------------------------------------------------------------------------------
RelayStep ==
    \/ \E c \in Chain : Select(c)
    \/ ScanClient \/ ScanBlocks \/ NothingNew
    \/ Translate \/ ChannelNotFound \/ Parsed \/ ProofHeightReached
    \/ RescanClient \/ FetchHeader \/ SkipUpdate
    \/ Flush \/ TooManyMessages \/ Broadcast
    \/ Confirmed \/ ConfirmFailed \/ ConfirmTimeout

ChainStep ==
    \E c \in Chain :
        \/ \E n \in 0..MaxUserTx : \E fs \in [1..n -> Flow] : NewBlock(c, fs)
        \/ AcceptTx(c)
        \/ RejectTx(c)

Fault ==
    \/ \E c \in Chain : DropTx(c) \/ StreamClosed(c)
    \/ QueryLatestFails \/ QueryFails \/ ConfirmTooSlow
    \/ Abort \/ Start

Next == RelayStep \/ ChainStep \/ Fault

Spec == Init /\ [][Next]_vars
===============================================================================
