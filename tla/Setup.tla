-------------------------------- MODULE Setup --------------------------------
(***************************************************************************)
(* The test of the repository, once both clients are connected: each chain *)
(* is waited for to make a block, clients are looked for or created, a     *)
(* relayer is spawned, an open channel is looked for or opened while the   *)
(* relayer carries the handshakes, the relayer is aborted and spawned      *)
(* again, and a transfer is sent each way.                                 *)
(*                                                                         *)
(* The chains are external, with whatever others do on them, and a relayer *)
(* is what Relay shows of it: it carries any step it can across, or it is  *)
(* lost.  Client n is the n-th of a chain, and so is channel n.            *)
(***************************************************************************)
EXTENDS Naturals, Sequences

CONSTANTS
    OldClients,         \* OldClients[c]: chains the clients on c may track at first
    OldChannels,        \* sets of open transfer channels there may be at first
    OtherConnections,   \* connections of chain a that others may open
    Numbers,            \* numbers the chains may give to their next channels
    Balances            \* what an account may hold of the token that is sent

Chain == {"a", "b"}
Peer(c) == IF c = "a" THEN "b" ELSE "a"
Relayer == {"first", "second"}

(* The clients on a and b that it rests on, 0 for the one of its ends that *)
(* is on a third chain, and whether it has the delay the test asks for,    *)
(* which is none.  A channel has also the numbers of its ends.             *)
Connection == [client : [Chain -> Nat], delay_fits : BOOLEAN]
Channel == [on : [Chain -> Nat], client : [Chain -> Nat], delay_fits : BOOLEAN]

ASSUME SetupAssumption ==
    /\ OldClients \in [Chain -> SUBSET Seq(Chain \cup {"other"})]
    /\ OldChannels \subseteq SUBSET Channel
    /\ OtherConnections \subseteq Connection
    /\ Numbers \subseteq Nat \ {0} /\ Balances \subseteq Nat

VARIABLES
    clients,     \* clients[c]: the chains that the clients on c track
    channels,    \* open transfer channels of a or b
    number,      \* number[c]: the number of c's next channel
    balance,     \* balance[c]: what the account on c holds
    flow, step,  \* the test's handshake or packet under way, and its last step
    acked,       \* chains whose packet has been acknowledged
    relayer,     \* relayer[r]: "none", "starting", "running", "aborting", "ended"
    pc,          \* the next step of the test
    client_id,   \* client_id[c]: the id set on c's CosmosClient, 0 for none
    found,       \* clients were found on a
    connection,  \* what connection_id names on a: a set of one or none
    channel_id,  \* the number on a of the test's channel, 0 for none
    listening,   \* the test has subscribed to the events
    seen,        \* the event that has come since: "no", its "own", an "other"
    amount,      \* the amount sent last
    waived,      \* a wait has ended without the event of the test's own flow
    disturbed    \* something failed, or was there or happened from outside

world == <<clients, channels, number, balance, acked>>
run == <<client_id, found, connection, channel_id, amount, waived>>
quiet == <<flow, step, relayer, listening, seen, disturbed>>
vars == <<world, flow, step, relayer, pc, run, listening, seen, disturbed>>

Flow == {"none", "connection", "channel", "a", "b"}
LastStep == IF flow \in Chain THEN 3 ELSE 4

TypeOK ==
    /\ clients \in [Chain -> Seq(Chain \cup {"other"})]
    /\ channels \subseteq Channel /\ connection \subseteq Connection
    /\ \A k, other \in connection : k = other
    /\ number \in [Chain -> Nat] /\ channel_id \in Nat
    /\ balance \in [Chain -> Nat] /\ amount \in Nat
    /\ flow \in Flow /\ step \in 0..LastStep /\ acked \subseteq Chain
    /\ relayer \in [Relayer -> {"none", "starting", "running", "aborting", "ended"}]
    /\ pc \in {"block_a", "block_b", "clients_a", "clients_b", "create_a", "create_b", "spawn",
               "connections", "connection", "channel", "confirm", "wait", "restart", "a", "b",
               "done", "panicked"}
    /\ client_id \in [Chain -> Nat]
    /\ seen \in {"no", "own", "other"}
    /\ {found, listening, waived, disturbed} \subseteq BOOLEAN

(* The client with this id on c, and the chain it tracks.                  *)
Tracks(c, id, chain) == id \in 1..Len(clients[c]) /\ clients[c][id] = chain

Joins(ch) == \A c \in Chain : ch.on[c] # 0

Init ==
    /\ \E old \in OldClients["a"], others \in OldClients["b"] :
          clients = [c \in Chain |-> IF c = "a" THEN old ELSE others]
    /\ channels \in OldChannels /\ number \in [Chain -> Numbers]
    /\ \A ch \in channels : \A c \in Chain : ch.on[c] # 0 =>
          /\ ch.on[c] < number[c]
          /\ Tracks(c, ch.client[c], IF Joins(ch) THEN Peer(c) ELSE "other")
          /\ \A o \in channels : o.on[c] = ch.on[c] => o = ch
    /\ balance \in [Chain -> Balances]
    /\ flow = "none" /\ step = 0 /\ acked = {}
    /\ relayer = [r \in Relayer |-> "none"]
    /\ pc = "block_a" /\ client_id = [c \in Chain |-> 0] /\ found = FALSE
    /\ listening = FALSE /\ seen = "no" /\ connection = {} /\ channel_id = 0
    /\ amount = 0 /\ waived = FALSE /\ disturbed = FALSE

(* A relayer takes the id for the chain's client on the other chain, which *)
(* it brings up to date there.  What rests on those clients it can serve.  *)
NamedForRelayer == \A c \in Chain : Tracks(Peer(c), client_id[c], c)
Served(k) == NamedForRelayer /\ \A c \in Chain : k.client[Peer(c)] = client_id[c]

-------------------------------------------------------------------------------
(* The chains have started: a block of each, however long that takes.      *)
FirstBlock(c) ==
    /\ pc = IF c = "a" THEN "block_a" ELSE "block_b"
    /\ pc' = IF c = "a" THEN "block_b" ELSE "clients_a"
    /\ UNCHANGED <<world, quiet, run>>

-------------------------------------------------------------------------------
(* setup_clients and create_clients.                                       *)
query_clients_on_a ==
    /\ pc = "clients_a"
    /\ found' = (clients["a"] # <<>>) /\ pc' = "clients_b"
    /\ UNCHANGED <<world, quiet, client_id, connection, channel_id, amount, waived>>

(* Both ids are those of the first client listed, of whatever chain.       *)
query_clients_on_b ==
    /\ pc = "clients_b"
    /\ IF found /\ clients["b"] # <<>>
       THEN client_id' = [c \in Chain |-> 1] /\ pc' = "spawn"
       ELSE pc' = "create_a" /\ UNCHANGED client_id
    /\ UNCHANGED <<world, quiet, found, connection, channel_id, amount, waived>>

(* submit and query_client_id_from_tx_hash; the id becomes the other       *)
(* chain's.                                                                *)
create_client_variant(c) ==   \* the id becomes the chain's own
    /\ pc = IF c = "a" THEN "create_a" ELSE "create_b"
    /\ pc' = IF c = "a" THEN "create_b" ELSE "spawn"
    /\ clients' = [clients EXCEPT ![c] = Append(clients[c], Peer(c))]
    /\ client_id' = [client_id EXCEPT ![c] = Len(clients[c]) + 1]
    /\ UNCHANGED <<channels, number, balance, acked, quiet, found, connection, channel_id, amount,
                   waived>>

create_client(c) ==
    /\ pc = IF c = "a" THEN "create_a" ELSE "create_b"
    /\ pc' = IF c = "a" THEN "create_b" ELSE "spawn"
    /\ clients' = [clients EXCEPT ![c] = Append(clients[c], Peer(c))]
    /\ client_id' = [client_id EXCEPT ![Peer(c)] = Len(clients[c]) + 1]
    /\ UNCHANGED <<channels, number, balance, acked, quiet, found, connection, channel_id, amount,
                   waived>>

-------------------------------------------------------------------------------
(* setup_connection_and_channel.                                           *)
SpawnRelayer ==
    /\ pc = "spawn"
    /\ relayer' = [relayer EXCEPT !["first"] = "starting"] /\ pc' = "connections"
    /\ UNCHANGED <<world, flow, step, run, listening, seen, disturbed>>

(* query_connection_using_client answers every connection of the chain.    *)
Usable == {ch \in channels : ch.on["a"] # 0 /\ ch.delay_fits}

FindChannel ==
    /\ pc = "connections"
    /\ \E ch \in Usable : channel_id' = ch.on["a"]
    /\ pc' = "restart"
    /\ UNCHANGED <<world, quiet, client_id, found, connection, amount, waived>>

NoChannel ==
    /\ pc = "connections" /\ Usable = {}
    /\ pc' = "connection"
    /\ UNCHANGED <<world, quiet, run>>

(* The first half of create_connection and create_channel: the OpenInit is *)
(* submitted.  It names each chain's id for the client on the chain itself,*)
(* and the connection the event named.                                     *)
CanOpen ==
    \/ pc = "connection" /\ client_id["a"] \in 1..Len(clients["a"])
    \/ pc = "channel" /\ connection # {}

SubmitOpenInit ==
    /\ CanOpen
    /\ flow' = pc /\ step' = 1 /\ pc' = "confirm"
    /\ connection' = IF pc = "channel" THEN connection
                     ELSE {[client |-> client_id, delay_fits |-> TRUE]}
    /\ UNCHANGED <<world, relayer, client_id, found, channel_id, amount, waived, listening, seen,
                   disturbed>>

(* Without such a client or connection the transaction fails.              *)
OpenInitFails ==
    /\ pc \in {"connection", "channel"} /\ ~CanOpen
    /\ pc' = "panicked"
    /\ UNCHANGED <<world, quiet, run>>

(* Only when the transaction is confirmed are the events subscribed to:    *)
(* the one waited for may be over.                                         *)
Subscribe ==
    /\ pc = "confirm"
    /\ listening' = TRUE /\ pc' = "wait"
    /\ disturbed' = (disturbed \/ step = LastStep)
    /\ UNCHANGED <<world, flow, step, relayer, run, seen>>

(* The first event of its kind ends the wait, whoever's it is.             *)
WaitEnds ==
    /\ pc = "wait" /\ seen # "no"
    /\ listening' = FALSE /\ seen' = "no"
    /\ waived' = (waived \/ seen = "other")

(* The ids of the connection and the channel are taken from the event: the *)
(* ones of somebody else's may name anything on a, or nothing.             *)
ConnectionOpened ==
    /\ WaitEnds /\ flow = "connection" /\ pc' = "channel"
    /\ IF seen = "own" THEN UNCHANGED connection
       ELSE \/ connection' = {}
            \/ \E k \in OtherConnections : connection' = {k}
    /\ UNCHANGED <<world, flow, step, relayer, client_id, found, channel_id, amount, disturbed>>

ChannelOpened ==
    /\ WaitEnds /\ flow = "channel" /\ pc' = "restart"
    /\ IF seen = "own"
       THEN \E ch \in channels : ch.on["a"] + 1 = number["a"] /\ channel_id' = ch.on["a"]
       ELSE channel_id' \in Numbers \cup {ch.on["a"] : ch \in channels}
    /\ UNCHANGED <<world, flow, step, relayer, client_id, found, connection, amount, disturbed>>

-------------------------------------------------------------------------------
(* ibc_messaging_with_connection_delay.                                    *)
RestartRelayer ==
    /\ pc = "restart"
    /\ relayer' = [first |-> IF relayer["first"] = "ended" THEN "ended" ELSE "aborting",
                   second |-> "starting"]
    /\ pc' = "a"
    /\ UNCHANGED <<world, flow, step, run, listening, seen, disturbed>>

(* A tenth is sent, over the end that has the channel's number on a: also  *)
(* from b, whose end of that number may be another channel's (tests.rs:60).*)
NamedEnd(c) == {ch \in channels : ch.on[c] = channel_id}
CanSend(c) == channel_id # 0 /\ balance[c] \div 10 > 0 /\ NamedEnd(c) # {}

SendTransfer(c) ==
    /\ pc = c /\ CanSend(c)
    /\ amount' = balance[c] \div 10
    /\ balance' = [balance EXCEPT ![c] = balance[c] - balance[c] \div 10]
    /\ flow' = c /\ step' = 1 /\ pc' = "confirm"
    /\ UNCHANGED <<clients, channels, number, acked, relayer, client_id, found, connection, channel_id,
                   waived, listening, seen, disturbed>>

CannotSend(c) ==
    /\ pc = c /\ ~CanSend(c)
    /\ pc' = "panicked"
    /\ UNCHANGED <<world, quiet, run>>

(* assert_send_transfer: the event comes, and the balance is compared with *)
(* nine times the amount sent.                                             *)
Compare_variant(next) ==   \* a balance of nine tenths is not accepted
    pc' = IF balance[flow] >= (amount * 90) \div 10 THEN "panicked" ELSE next

Compare(next) == pc' = IF balance[flow] > (amount * 90) \div 10 THEN "panicked" ELSE next

Acknowledged_variant ==   \* the transfer back is left out
    /\ WaitEnds /\ flow \in Chain
    /\ Compare("done")
    /\ UNCHANGED <<world, flow, step, relayer, client_id, found, connection, channel_id, amount,
                   disturbed>>

Acknowledged ==
    /\ WaitEnds /\ flow \in Chain
    /\ Compare(IF flow = "a" THEN "b" ELSE "done")
    /\ UNCHANGED <<world, flow, step, relayer, client_id, found, connection, channel_id, amount,
                   disturbed>>

(* The websocket is closed.  A handshake's wait panics without an event, a *)
(* transfer's is content.                                                  *)
StreamEnds ==
    /\ pc = "wait" /\ seen = "no"
    /\ IF flow \in Chain
       THEN Compare(IF flow = "a" THEN "b" ELSE "done") /\ waived' = TRUE
       ELSE pc' = "panicked" /\ UNCHANGED waived
    /\ listening' = FALSE /\ disturbed' = TRUE
    /\ UNCHANGED <<world, flow, step, relayer, client_id, found, connection, channel_id, amount, seen>>

-------------------------------------------------------------------------------
(* The relayers.                                                           *)
RelayerStarts(r) ==
    /\ relayer[r] = "starting"
    /\ relayer' = [relayer EXCEPT ![r] = "running"]
    /\ UNCHANGED <<world, flow, step, pc, run, listening, seen, disturbed>>

(* The aborted task ends where it waits next.                              *)
RelayerAborted ==
    /\ relayer["first"] = "aborting"
    /\ relayer' = [relayer EXCEPT !["first"] = "ended"]
    /\ UNCHANGED <<world, flow, step, pc, run, listening, seen, disturbed>>

(* relay() returns, or loses an event; the test does not notice.           *)
RelayerLost(r) ==
    /\ relayer[r] = "running"
    /\ relayer' = [relayer EXCEPT ![r] = "ended"]
    /\ disturbed' = TRUE
    /\ UNCHANGED <<world, flow, step, pc, run, listening, seen>>

(* What the flow goes over.                                                *)
Way == IF flow \in Chain THEN NamedEnd(flow) ELSE connection

(* A step that this relayer can carry to the other chain.  A packet goes   *)
(* over a channel without delay; its acknowledgement is looked up by the   *)
(* number of the packet's end on the chain that wrote it.                  *)
Crosses(k) ==
    /\ Served(k)
    /\ flow \in Chain => k.delay_fits /\ (step = 2 => k.on["a"] = k.on["b"])

CanRelay_variant(r) ==   \* also when it was the last step
    relayer[r] \in {"running", "aborting"} /\ step \in 1..LastStep /\ \E k \in Way : Crosses(k)

CanRelay(r) ==
    relayer[r] \in {"running", "aborting"} /\ step \in 1..(LastStep - 1) /\ \E k \in Way : Crosses(k)

Opened(k) == [on |-> number, client |-> k.client, delay_fits |-> k.delay_fits]

Relay(r) ==
    /\ CanRelay(r)
    /\ step' = step + 1
    /\ seen' = IF listening /\ seen = "no" /\ step' = LastStep THEN "own" ELSE seen
    /\ acked' = IF step' = LastStep /\ flow \in Chain THEN acked \cup {flow} ELSE acked
    /\ IF step' = LastStep /\ flow = "channel"
       THEN /\ channels' = channels \cup {Opened(k) : k \in connection}
            /\ number' = [c \in Chain |-> number[c] + 1]
       ELSE UNCHANGED <<channels, number>>
    /\ UNCHANGED <<clients, balance, flow, relayer, pc, run, listening, disturbed>>

(* Under that number there is no such acknowledgement: relay() returns. It *)
(* passes over it if there is a channel with a delay.                      *)
AckNotFound(r) ==
    /\ relayer[r] \in {"running", "aborting"} /\ flow \in Chain /\ step = 2
    /\ \E ch \in NamedEnd(flow) : ch.on["a"] # ch.on["b"]
    /\ \A ch \in NamedEnd(Peer(flow)) : ch.delay_fits
    /\ relayer' = [relayer EXCEPT ![r] = "ended"]
    /\ UNCHANGED <<world, flow, step, pc, run, listening, seen, disturbed>>

-------------------------------------------------------------------------------
(* timeout_future panics.  15 minutes, or 120 seconds, are taken to be     *)
(* longer than a relayer needs that can do something about it.             *)
WaitTimesOut_variant ==   \* the wait goes on
    /\ pc = "wait" /\ seen = "no"
    /\ \A r \in Relayer : relayer[r] # "starting" /\ ~CanRelay(r)
    /\ UNCHANGED vars

WaitTimesOut ==
    /\ pc = "wait" /\ seen = "no"
    /\ \A r \in Relayer : relayer[r] # "starting" /\ ~CanRelay(r)
    /\ pc' = "panicked"
    /\ UNCHANGED <<world, quiet, run>>

(* A query, subscription or transaction of the test fails, or a stream has *)
(* no first block; all are unwrapped.                                      *)
CallFails ==
    /\ pc \notin {"spawn", "wait", "restart", "done", "panicked"}
    /\ pc' = "panicked" /\ disturbed' = TRUE
    /\ UNCHANGED <<world, flow, step, relayer, run, listening, seen>>

(* Somebody else creates a client, or does what the test waits for.        *)
OtherClient(c) ==
    /\ clients' = [clients EXCEPT ![c] = Append(clients[c], "other")]
    /\ disturbed' = TRUE
    /\ UNCHANGED <<channels, number, balance, acked, flow, step, relayer, pc, run, listening, seen>>

OtherEvent ==
    /\ listening /\ seen = "no"
    /\ seen' = "other" /\ disturbed' = TRUE
    /\ UNCHANGED <<world, flow, step, relayer, pc, run, listening>>

Test ==
    \/ query_clients_on_a \/ query_clients_on_b \/ \E c \in Chain : create_client(c)
    \/ SpawnRelayer \/ FindChannel \/ NoChannel \/ SubmitOpenInit \/ OpenInitFails \/ Subscribe
    \/ ConnectionOpened \/ ChannelOpened \/ RestartRelayer
    \/ \E c \in Chain : SendTransfer(c) \/ CannotSend(c)
    \/ Acknowledged \/ WaitTimesOut

Next ==
    \/ Test \/ CallFails \/ StreamEnds \/ RelayerAborted \/ OtherEvent
    \/ \E r \in Relayer : RelayerStarts(r) \/ Relay(r) \/ AckNotFound(r) \/ RelayerLost(r)
    \/ \E c \in Chain : FirstBlock(c) \/ OtherClient(c)

(* The test and the relayers get on; an aborted task ends.                 *)
Fairness ==
    /\ WF_vars(Test) /\ WF_vars(RelayerAborted)
    /\ \A r \in Relayer : WF_vars(RelayerStarts(r)) /\ WF_vars(Relay(r))

Spec == Init /\ [][Next]_vars /\ Fairness

-------------------------------------------------------------------------------
(* "Return the host chain's light client id on counterparty chain"         *)
(* (traits.rs:246): what create_clients answers is the two ids in the      *)
(* order in which they are set (create.rs:72, setup.rs:99-104).            *)
CreatedIdsNamed ==
    pc \in {"connections", "connection", "channel", "confirm", "wait", "restart", "a", "b"} =>
        NamedForRelayer \/ \A c \in Chain : client_id[c] = 1 /\ clients[c] # <<>>

(* If every wait ended with the event of the test's own flow, a pass was   *)
(* earned: both packets were acknowledged, which takes that the ids name   *)
(* each chain's client on the other, and that a channel between the two,   *)
(* resting on those clients, has the number in use on both (setup.rs:92,   *)
(* events.rs:613, tests.rs:60).                                            *)
PassIsEarned ==
    pc = "done" /\ ~waived =>
        /\ acked = Chain
        /\ \E ch \in channels : Served(ch) /\ \A c \in Chain : ch.on[c] = channel_id

(* Once both chains have made a block every wait is limited, so that the   *)
(* test ends, if its calls return (create.rs:25-31, setup.rs:64-81).       *)
TestEnds == (pc = "clients_a") ~> (pc \in {"done", "panicked"})

(* On chains without clients or channels that do make a block each, and if *)
(* nothing is disturbed, the test passes: its calls and the relayer agree  *)
(* on ids and channels, whatever their order (setup.rs, create.rs,         *)
(* tests.rs:22-65).                                                        *)
Fresh ==
    /\ \A c \in Chain : clients[c] = <<>> /\ balance[c] > 0 /\ balance[c] % 10 = 0
    /\ channels = {} /\ number["a"] = number["b"]

FreshTestPasses ==
    Fresh /\ []~disturbed => ((pc = "clients_a") ~> (pc = "done"))
===============================================================================
