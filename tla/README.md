# Hyperspace Light in TLA+

Hyperspace Light relays IBC datagrams between two Cosmos chains. These modules
model what it does between the chains, check it with TLC on small instances, and
prove the main safety properties with TLAPS for any number of flows, any heights
and any interleaving.

## The system

| part | source | state | operations | talks to |
|---|---|---|---|---|
| relayer loop | `core/relay.rs`, `core/macros.rs` | locals of one pass, two block subscriptions | select a finality event, scan, translate, wait, update, send | both chains, by queries and transactions |
| event translation | `core/events.rs` | messages so far, `proof_height_ref` | one arm per IBC event | proof queries of the source chain |
| batch submission | `core/queue.rs`, `cosmos/chain.rs` | none | estimate the weight, submit whole or in chunks | transactions |
| queries | `cosmos/provider.rs`, `cosmos/utils.rs` | none | client state, blocks, ends, commitments, with proofs | a node |
| client update | `cosmos/client.rs` | none | header of the latest block, update type | a node |
| transactions | `cosmos/tx.rs`, `cosmos/client.rs` | none (the account's sequence number is on the chain) | sign, broadcast, poll for 30 s | a node's mempool |
| connection delay | `core/packets.rs`, `core/packets/*` | two lists of messages | packets ready or timed out | both nodes; its call in the loop is commented out |
| proof height search | `primitives/funcs.rs` | none | consensus height by linear or binary search, undelivered packets and acknowledgements | connection delay |
| interfaces | `primitives/traits.rs` | none | `Chain`, `IbcProvider`, `UpdateType` | |
| event decoding | `cosmos/events.rs` | none | ABCI attributes to IBC events | queries |
| set-up and tests | `testsuite/*` | client ids, the task's handle | create clients, start, abort and restart the relayer, open a connection and a channel, send packets | both chains, with the relayer's own account |
| keys, encoding, light client, logging, errors | `cosmos/encode.rs`, `cosmos/key_provider.rs`, `cosmos/light_client.rs`, `core/logging.rs`, `core/error.rs` | none | data conversion | |

The relayer is one sequential task. A block of either chain wakes it; it scans
the other blocks since the height of the light client the counterparty hosts,
makes one message of each IBC event, waits until the chain has reached the
heights the proofs are declared for, and sends one transaction: a client update,
then the messages. It keeps nothing on disk: what is left to do is recomputed
from the client's height. What makes it hard:

- the chains go on between any two awaits, so that each query of a pass sees a
  different state, and the pass mixes four of them (the blocks, the proofs, the
  wait, the header);
- a pass fails as a whole, most errors end the task, and its last transaction may
  be in the mempool when the task is started again;
- nothing is persisted, so the client's height is the only record of progress:
  moving it past an event without the event's message loses the event;
- the relayer and the test suite sign with one account.

What makes each part correct: the loop never moves a client past an event it
scanned without the event's message, sends nothing twice, is not refused for
reasons of its own, and brings every flow to its last step; the translation
follows the IBC protocol; a submission reports what happened to its transaction;
a split batch keeps the order of its messages and the weight limit; a proof height
search finds a height when there is one; the packets reported as ready have fitting
proof heights and those reported as timed out can never arrive; the set-up ends, and
passes only with clients and a channel that are what it takes them for.

## The modules

| module | what it is |
|---|---|
| `IbcChain` | the two chains, external to the repository: committed heights, IBC event logs, hosted clients, the relayer's transaction in the mempool |
| `Relay` | the relayer task, EXTENDS `IbcChain` |
| `FlowProtocol` | abstract specification: each flow goes through its steps in order, on alternating chains |
| `RelayProperties` | properties, the refinement mapping to `FlowProtocol`, the inductive invariant |
| `RelayProofs` | theorems about `Relay`, with any failures and restarts |
| `RelaySessionProofs` | theorems about one uninterrupted call of `relay()` |
| `RelayPace` | chains whose blocks come only while the task waits (`PacedSpec`), the same with quiet users (`QuietSpec`), and the invariant of the first |
| `RelayPaceProofs` | the theorem about `PacedSpec` |
| `MCRelay` | instances for TLC: flows and bounds |
| `ProofSearch` | `find_suitable_proof_height_for_client`, query by query |
| `ProofSearchProofs` | theorems about `ProofSearch` |
| `Queue` | `flush_message_batch` for any sink, by the lengths of the messages |
| `Delivery` | abstract specification: a list delivered in order, each message at most once |
| `QueueProofs` | theorems about `Queue` |
| `MCQueue` | instances for TLC: the lists |
| `TxSubmit` | `submit_call` for several calls on one account |
| `Submission` | abstract specification: what a submission promises its caller |
| `TxSubmitProofs` | theorems about `TxSubmit` |
| `ReadyPackets` | `query_ready_and_timed_out_packets`, query by query, beside moving chains |
| `ReadyPacketsProofs` | theorems about `ReadyPackets` |
| `MCReady` | instances for TLC: timeouts, clocks and bounds |
| `Setup` | the test suite's set-up and transfer test beside its relayers |
| `SetupProofs` | theorems about `Setup` |
| `MCSetup` | instances for TLC: the clients and channels the chains begin with |

`Relay` composes the chains with the task. It takes from the others what they show:
`Queue` that a batch goes in one transaction or not at all, `TxSubmit` that a
submission is taken, refused or lost. `ReadyPackets` takes from `ProofSearch` that
the linear search finds the first height; its binary search is written out as a
recursive function of the heights left (`Halve`). `Setup` takes from `Relay` that a
relayer carries a step or is lost.

### IbcChain

A *flow* is a connection handshake, a channel handshake, a channel closing or a
packet transfer; a chain's user starts it (`Origin`, `Starts`). `log[c]` holds the
IBC events of `c` with their heights. `client[c]` and `consensus[c]` are the light
client of the other chain that `c` hosts. A chain executes a transaction whole or
not at all (`Accepts`). It refuses one

- whose header does not extend a trusted height (`HeaderExtends`);
- with a proof that is not declared for a height the client knows after the update,
  or not made from the state that this header commits to, which is the state one
  block below (`ProofHolds`);
- with a handshake acknowledgement or confirmation for the second time (`StepIsNew`;
  a repeated Try opens a second end, a repeated packet message changes nothing);
- with a packet in or after the block it times out at (`Timely`; the relayer does not
  look at the timeout, `events.rs:539`), with a message over a closed channel
  (`ChannelOpen`), with a packet or acknowledgement out of the order of its channel
  (`InSequence`);
- that costs more gas than it pays for, which is the same for every batch
  (`GasSuffices`, `client.rs:201`).

`Timeout`, `ClosedBy`, `Before`, `Gas` and `GasLimit` are constants: which packets time
out and when, which closings close a packet's channel, which packets come before it
on an ordered one. These are the facts about IBC on Cosmos that the code meets. A block
holds users' messages or the relayer's transaction; users start no flow that their own
chain would refuse (`Users`).

### Relay

| action | code |
|---|---|
| `Select` | `tokio::select!` takes a block of one chain (`relay.rs:18-29`) |
| `ScanClient`, `ScanBlocks` | first `query_latest_ibc_events`: client height on the sink, then the blocks above it (`provider.rs:99-150`) |
| `NothingNew` | the trusted header `client + 1` does not exist yet: an error that is logged (`client.rs:239`, `macros.rs:14`) |
| `Translate`, `ChannelNotFound`, `Parsed` | `parse_events`, event by event (`events.rs:43-702`) |
| `ProofHeightReached` | the wait for `proof_height_ref` (`macros.rs:40-42`) |
| `RescanClient`, `FetchHeader` | second `query_latest_ibc_events`, whose events are dropped (`macros.rs:43-56`) |
| `SkipUpdate` | an optional update without packet events and messages (`macros.rs:57-69`) |
| `Flush`, `TooManyMessages` | `flush_message_batch` and `estimate_weight` |
| `Broadcast` | `submit_call` up to the broadcast |
| `Confirmed`, `ConfirmFailed`, `ConfirmTimeout` | the ways out of `confirm_tx` |
| `NewBlock`, `AcceptTx`, `RejectTx` | blocks; each wakes the task through its subscription |
| `DropTx`, `QueryLatestFails`, `QueryFails`, `ConfirmTooSlow`, `StreamClosed`, `Abort`, `Start` | what may fail, and the restart of `tests.rs:33-42` |

At the end of a pass its locals go out of scope: `EndPass` resets them.
`at` and `proof` of a message are the two heights the code confuses: the state a
proof is made from is the one of the event's height, the height it is declared for
is one above the node's latest height at the time of the answer.

Abstractions. Client ids are identified with their chain, revision numbers are
left out, contents of ends, packets, proofs and headers are left out. The empty
scan and the header fetch of the first query are one step: a header found where
the scan found nothing leads to a pass without effect. The account is read and
the transaction broadcast in one step: an account read that is out of date at the
broadcast has the effect of `Broadcast` followed by `DropTx`. A panic of the task
counts as a return. Every confirmation of a pending transaction may come too late,
so time itself is not modelled.

### Queue

One call of `flush_message_batch` (`queue.rs:19-52`), which `Relay` has as `Flush`
and `TooManyMessages` only. A list is given by the lengths of its prefixes, which
is all the code looks at. `EstimateFails` and `Estimate` are `estimate_weight` and
the choice by `ratio`; `SubmitWhole`, `SubmitChunk`, `AllChunksSent` and
`SubmitFails` are the submissions. A failed submission may still be executed: the
poll for it can give up first (`tx.rs:103`). `cosmos` says whether the sink is the
repository's `CosmosClient`, whose `estimate_weight` refuses lists
(`chain.rs:65-80`), or another `Chain`, for which the function is written too.
The few bytes of the body's length delimiter are counted in `Envelope`.

### ProofSearch

One call of `find_suitable_proof_height_for_client` (`funcs.rs:135-229`): without
a timestamp `LinearMiss`, `LinearHit`, `LinearEnd`; with one `EmptyRange`, the
loop `SkipMissing`, `TooEarly`, `LateEnough`, and `LastHit`, `LastMiss` after it.
Each looks one height up. A query that fails looks like a missing height;
`failed` remembers that there was one, since nothing exact can be said then. The
client may be updated between two queries, to a height above those it has: the
query reads the node's latest state, not the state at `at` (`provider.rs:281`).
The range ends at a height the client has, which the parameter's name promises;
`packets.rs:127` passes another chain's height, see `ReadyPackets`.
Block times grow with the height, so that a timestamp is the first height that
reaches it.

### TxSubmit

`Call` is any number of callers that share a key: the relayer's two directions and
the test suite. A call goes through `query_account` (the committed sequence number),
`sign_tx`, `broadcast_tx` and the searches of `confirm_tx` (`Found`, `NotFound`;
`Patience` is how often it searches in its 30 seconds); `BroadcastFails` and
`QueryFails` are its other ways out. A request that fails may still have reached the
node. The node is external: `CheckTx` takes a transaction only with the number it
expects next, and its refusal reaches nobody, because `broadcast_tx` returns the hash
without a look at the code (`tx.rs:81-87`). `Execute` is a block, `Forget` a node that
restarts.

### ReadyPackets

One call for one channel, an action per query: the two heights (`ReadHeight`), the
channel ends (`ReadChannel`, `ReadCounterparty`), the two client states (`ReadClient`,
`ReadOtherClient`, which asks the same chain twice as the code does), commitments and
receipts (`ReadCommitments`, `ReadUnreceived`), then packet by packet `AddTimeout`,
`PeriodOverflow`, `AddRecv` or `PassOver`, then the acknowledgements in the same way.
Between any two of them a chain may add a block in which a packet is sent, received,
acknowledged or timed out, a client is updated, or a channel end is closed. `readAt`
holds the heights the call takes as "now". `LookupFails` is a failure that passes one
packet over, `QueryFails` any other. The queries of a packet's loop body are one
step: what they read does not change in a way that matters to the packet (a client
keeps its heights, a packet its block). Three queries that `CosmosClient` leaves
unimplemented answer what their trait says.

A message has two heights: `at`, at which `query_proof` is asked, and `proof`, which the
message declares. The constructors give both the same one (`packets/utils.rs:168,198`,
`222-226`, `249-253`), which `MessagesProvable` finds. A timeout also carries
`next_sequence_recv`, read once before the packets (`packets.rs:104`) and possibly
behind by the time it is used, and is a `MsgTimeoutOnClose` by the channel end read as
early (`packets.rs:93`). What a proof is of is left out: the key that `get_key_path`
makes (for an acknowledgement of the packet's source ids, `utils.rs:307`) and
`proof_closed`.

### Setup

`setup_clients` after the two clients are connected, `create_clients`,
`setup_connection_and_channel`, `create_connection`, `create_channel` and the transfers
of `ibc_messaging_with_connection_delay`, as one task, beside the two relayers it spawns
and other people. `FirstBlock` is the wait for a block of each chain, which has no limit
(`setup.rs:65-81`). `clients[c]` says which chain each client on `c` tracks,
`client_id[c]` what `set_client_id` stored, `channels` the open channels with the number
and the client at each end, 0 for an end on a third chain. `flow` and `step` are the
handshake or packet under way; `Relay` carries it a step further if the relayer can find
its client, and `AckNotFound` ends a relayer that looks an acknowledgement up under the
other end's number, as finding 3 says. `Subscribe` comes after the transaction that
starts a handshake is confirmed. A wait ends with the first event of its kind, whoever's
it is (`create.rs:94`, `create.rs:150`, `tests.rs:126`): `seen` tells the test's own from
another's (`OtherEvent`), whose ids may be of anything. A transfer goes over the end with
the channel's number on A, from B too (`NamedEnd`, `tests.rs:60`), where that number may
be of another channel or of none (`CannotSend`). `disturbed` remembers that something
failed or came from outside, `waived` that a wait ended without the event of the test's
own flow.

### Variants

Definitions with `_variant` in their names are used by nothing. They are what the
definition after them would be after a plausible mistake, and show that the
properties notice it.

| module | variant | breaks |
|---|---|---|
| `Relay` | `ScanBlocks` | `UpdateForwardsWindow` |
| | `Translate_variant_twice` | `AtMostOnce` |
| | `Translate_variant_height` | `RelayLoopsForever` |
| | `ProofHeightReached` | `UpdateCoversProofs`, `IInv` |
| | `RescanClient` | `NeverObsolete` |
| | `MsgOfPacket`, `ChannelMsg` | `ImplementsFlows` |
| | `PacketKind` | `FlowsComplete` |
| | `Confirmed` | `NoSequenceConflict` |
| | `ChannelNotFound` | `UpdateForwardsWindow` |
| | `has_packet_events` | `DelayedStillUpdates` |
| `ProofSearch` | `LinearHit` | `TypeOK`, `LinearFindsFirst` |
| | `TooEarly` | `NoUnderflow`, `GaplessFindsFirst` |
| | `LastHit`, `SkipMissing` | `ResultSuitable`, `Terminates` |
| `Queue` | `Refused`, `ChunkEnd` | `AllOrNothing`, `TypeOK` |
| | `AllChunksSent` | `Consecutive`, `ImplementsDelivery` |
| `TxSubmit` | `query_account`, `query_account_next` | `AtMostOnePending`, `RefusedOnlyByCollision` |
| | `NotFound_retry` | `NumbersUsedOnce` |
| | `NotFound_once_more`, `NotFound_endless` | `TypeOK`, `EveryCallReturns` |
| | `Found` | `KeepsPromise` |
| `ReadyPackets` | `ReadUnreceived` | `TimeoutsFinal`, `NothingRepeated` |
| | `verify_delay_passed`, `get_timeout_proof_height` | `MessageHeightsFit`, `TimeoutHeightsFit` |
| | `Sendable`, `ReadChannel` | `AllReadyReturned`, `TypeOK` |
| `Setup` | `create_client`, `Acknowledged` | `CreatedIdsNamed`, `PassIsEarned` |
| | `WaitTimesOut`, `Compare` | `TestEnds`, `FreshTestPasses` |
| | `CanRelay` | `TypeOK` |

## The runs

Bounds: `MaxHeight` is the height up to which a chain commits blocks on its own;
beyond it, up to `CapHeight`, it commits only what the task waits for.
`MaxRestarts` bounds the calls of `relay()`, `MaxUserTx` the flows started in a
block, `MaxMsgs` the messages of a transaction (30 in the code).

| run | what it shows |
|---|---|
| `relay_faults` | chains and task at any pace, all failures, one restart; an ordered channel with two ids and two packets from A, the first of which goes late, a closing of that channel from B, a channel handshake from B, a gas limit below the cost of two packets; heights to 3 (4): `IInv`, `UpdateCoversProofs`, `AtMostOnce`, `NeverObsolete`, `NoSequenceConflict`, `UpdateForwardsWindow`, `ImplementsFlows` hold |
| `relay_calm` | `QuietSpec`: one flow of each of the four families and a packet over a connection with a delay, started on both chains, never late, over channels that stay open, within the gas limit: every other flow is completed (`FlowsComplete`), the client is updated for the block of the delayed packet (`DelayedStillUpdates`), `relay()` does not return (`RelayLoopsForever`) |
| `relay_skips` (violation) | `NoEventSkipped` fails without failures, with blocks only while the task waits: what users do in the block it waits for is lost |
| `relay_stops` (violation) | `RelayLoopsForever` fails without failures, with blocks only while the task waits: blocks during a confirmation make a proof stale |
| `relay_ack_lookup` (violation) | with different channel ids no acknowledgement is relayed, on quiet chains too: `FlowsComplete` fails |
| `proof_search` | on every client of up to six heights, with updates and failing queries in between: the search ends (`Terminates`), never underflows, returns only heights that serve the proof (`ResultSuitable`), and is exact without a timestamp (`LinearFindsFirst`) and, but for the latest height, on a client without gaps (`GaplessFindsFirst`) |
| `queue` | a `CosmosClient` gets a list in one transaction within its limits, or not at all (`AllOrNothing`, the ground of `Flush` in `Relay`); another `Chain` gets consecutive runs of it, and all of it on Ok (`Consecutive`, `ImplementsDelivery`) |
| `submit` | three calls on one account: at most one transaction is pending, a refusal is another call's doing, no number is executed twice, Ok means executed (`KeepsPromise`), every call returns |
| `ready_packets` | the heights of what a call returns fit, then and later (`MessageHeightsFit`, `TimeoutHeightsFit`), a packet that counts as timed out never arrives (`TimeoutsFinal`), what the sink had is not returned again (`NothingRepeated`), and what was ready is not missed (`AllReadyReturned`) |
| `ready_timeouts` (violation) | `AllTimeoutsReturned` fails: a packet that can be timed out is passed over |
| `ready_proofs` (violation) | `MessagesProvable` fails: a message declares the height its proof was queried at, and is refused |
| `setup` | created clients' ids name each chain's client on the other (`CreatedIdsNamed`), a pass whose waits the test's own events ended was earned: both packets acknowledged, over a channel between the two chains with one number on both and resting on the clients the ids name (`PassIsEarned`), the test ends once both chains have made a block (`TestEnds`), and on fresh chains it passes (`FreshTestPasses`) |

Why the bounds are enough. Four flows and three heights hold what the safety
properties of `Relay` speak of: a scanned and an unscanned event, a stale and a fresh
proof, a transaction of an earlier call, a batch that fits and one that does not, a
channel that is found and one that is not, transactions refused because a packet is
late, its channel closed, or their gas used up. A transaction refused for the order of
an ordered channel needs a packet lost before it and more blocks than these; there the
proofs, which do not depend on the bounds, are all there is. `proof_search` takes
every client, range and timestamp within six heights: the halving runs up to three
rounds, over gaps at each place. `queue` takes every list of one to five messages of
three sizes, and limits in their middle: lists on both sides of each limit, ratios
from 0 to 3, whole and shorter last chunks. `submit` has three calls, so that two may
collide while a third is late. `ready_packets` has a packet with both timeouts, one
without, and a returning one; three blocks of the source and four of the sink
(`MaxSource`, `MaxSink`) are one more than the height timeout needs on each side of
it, two heights per client (`MaxUpdates`) a suitable and an unsuitable one, and either
chain adds one block during the call (`MaxMeanwhile`), which may fall between any two
queries. `setup` begins with no client, the right one, or a foreign one before it,
with channels that fit, do not fit or lead elsewhere from either chain, with equal and
different channel numbers, and with balances that are and are not multiples of ten;
others create clients up to three a chain (`MaxClients`).

Pace. In `PacedSpec` a chain commits a block only while the task waits (`Waits`): for a
finality event, for the height of its proofs, for its transaction, or to be called
again. That is what "a pass, apart from its waits, takes less than a block" says: blocks
with any events come during the waits, and anything may fail. `relay_skips` and
`relay_stops` are at this pace, without the failures (`SoundSpec`): the two defects need
no fast chain. `QuietSpec` assumes much more, and the code guarantees none of it: nothing
fails; a block that comes while the task waits for anything but a finality event is empty
or holds the relayer's transaction; users start flows only while the task is idle. What
`relay_calm` shows is that the relayer finishes what it has begun when nobody interferes.
`relay_ack_lookup` uses it so that only the reason named is left.

Fairness. `QuietSpec` has weak fairness of the task's steps (tokio polls a ready
task), of the block the task waits for and of the block that holds its transaction (a
live chain goes on committing). Nothing is assumed of users. `ProofSearch` is fair to
its look-ups, which are answered or fail; that an answer is undecodable is never
assumed. `TxSubmit` is fair to the steps of a call that is running, not to blocks or
to callers: a call returns even if the chain stands still. `Setup` is fair to the test
after the first blocks, to its relayers and to the end of an aborted task; a wait
times out only when no relayer can do anything for it, which says that 15 minutes, or
120 seconds, are longer than a relayer needs. That a relayer is lost, a stream ends or
a call fails is never assumed, and `FreshTestPasses` speaks of runs in which nothing
of that happens.

`CHECK_DEADLOCK` is off in all runs: the bounded chains stop, and so does a task
without further blocks; a flush, a search, a call and a test return.

## The proofs

`RelayProofs` proves for all values of the constants that satisfy the named
assumptions `FlowAssumption`, `GasAssumption`, `RelayAssumption` and `ChainsDistinct`,
with all failures and any number of restarts:

- `Invariant`: `Spec => []IInv`. `IInv` says that logs are in block order, what a
  pass knows at each of its awaits (`PassInv`: every relayable event of the window
  up to the cursor has its message in the batch; every message was made of an
  event; `ref` bounds the proofs; from the wait on `ref` is reached) and the same
  of each transaction in a mempool (`PoolInv`), whoever sent it. The properties are
  not inductive by themselves: what a transaction forwards is decided passes
  before it is executed, possibly by an earlier call of `relay()`.
- `TypeCorrect`: `Spec => []TypeOK`.
- `HeaderCoversProofs`: `Spec => []UpdateCoversProofs`.
- `WindowsForwarded`: `Spec => UpdateForwardsWindow`. When a transaction is
  executed the client moves over part of the window it was scanned from, since the
  client was at least at `from` then and only moves up; each event in that part has
  its message in the batch by `PoolInv`, and execution leaves its effect in the log.
- `Refinement`: `Spec => ImplementsFlows`. Initially nothing is done; a block of
  users adds first steps; an executed batch adds steps whose predecessors are in
  the other log by `MadeFrom`; everything else stutters.

`RelaySessionProofs` proves what holds until `relay()` is called a second time, with
all failures: `ExecutedOnce` (`AtMostOnce`), `SentNeverObsolete` (`NeverObsolete`)
and `NumberIsFree` (`NoSequenceConflict`). The three hold each other up, so the
invariant `SessionInv` says all at once: the mempool holds nothing but the
transaction the pass waits for, hence no client moves between scan and broadcast;
the batch has one message for each event above the client's height (`MadeWithin`,
`NoneRepeated`); every relayed step on a chain was caused by an event at or below
its client's height (`Caused`). A message is therefore never redundant when it is
executed and its transaction's trusted height is always known. The other reasons for a
refusal are not excluded, and not all of them could be: the height of a proof (finding
2), a packet's timeout, a closed channel, the order of packets, gas. `SessionInv` uses
`IInv`. After a second call the first call's transaction may still be pending, and none
of the three holds.

`RelayPaceProofs` proves `PacedSkipsOnlyHeaders` for `PacedSpec`, with any flows, heights,
failures and restarts: what is left of `NoEventSkipped` (finding 1) if blocks come only
while the task waits. `OnlyHeaderBlocksSkipped` says that an event below the client that
was not forwarded is in a block whose own header an update carried. The invariant
`PacedInv` says why: between the scan and the header fetch the task waits once, for one
height (`PacedPass`), so that the header is at most one block above the window, and what
lies in the window is forwarded by `PoolInv`. It uses `IInv`;
that `PacedSpec` is a case of `Spec` is a lemma (`PacedIsNext`). The property is in no
run.

`ProofSearchProofs` proves for any heights, clients and failing queries
`TypeCorrect`, `NeverUnderflows`, `ReturnsSuitable`, `LinearIsExact` and
`HalvingIsExactButForLatest`. The invariant `SInv` adds that the window stays in
the range, that its end is the latest height or the last one found, and that no
height below it serves the proof (`Passed`), unless a query failed or the client
has gaps. Of `Terminates` it proves what needs no fairness, `LookupsShrink`: each
look-up ends the search or leaves fewer heights to look at, and no update adds any.

`QueueProofs` proves for lists of any length and messages and blocks of any size
(`QueueAssumption`: lists are not empty, messages have a length):

- `CosmosNeverSplits`: `Spec => []AllOrNothing`. A list that is not refused has a
  transaction within `max_tx_size`, so that its body is shorter and `ratio` is 0.
- `SendsInOrder`: `Spec => []Consecutive`, and `TypeCorrect`. The invariant adds
  that the iterator stands right after what was delivered.
- `FlushDelivers`: `Spec => ImplementsDelivery`.

`TxSubmitProofs` proves for any number of calls and any patience `TypeCorrect`,
`OnePending`, `RefusalIsCollision`, `EachNumberOnce` and `PromiseKept` (the refinement
of `Submission`). The invariant adds that what is pending has the committed number
(`Due`), that a call's number is never above it (`ReadNumbers`), and that every number
below the expected one was taken by somebody (`NumbersTaken`).

`ReadyPacketsProofs` proves for any packets, timeouts, clocks and delays, and any
number of steps of the chains during a call, `TypeCorrect`, `MessageHeights`
(`MessageHeightsFit`), `TimeoutIsFinal` (`TimeoutsFinal`) and `ReturnsUnreceived`
(`NothingRepeated`). The invariant says that the heights read are behind the chains
(`Behind`), that an ordered channel receives in order, and of each packet still to
handle that it was not received by the height read and, once it counts as timed out,
is not received at all (`Handled`). `OnwardKeeps` is the core: whatever the chains do
is later than the heights read, a receipt is only given to a packet that has not
expired, and an elapsed delay stays elapsed. `TypeCorrect` needs that a client has a
greatest height (`GreatestOf`, from the well-foundedness of the natural numbers).

Two more of its theorems need more than that:

- `TimeoutHeights` (`TimeoutHeightsFit`) needs what `Halving` finds, for every
  client: a height the client has, whose block reaches the time, or none (`HalvingFinds`).
  Its recursion goes to fewer heights at each call (`HalvesSmaller`), so that the
  function is defined (`HalvesDefined`), and a least number of heights for which it
  finds something else leads to a smaller one (`HalvesFind`). That the sequence a
  timeout gives as the next to be received is not beyond the packet comes from the order
  of the reads: it is read first, and only grows.
- `NothingReadyLeftOut` (`AllReadyReturned`) looks backward: what is ready now and was
  there when the call began was ready at each query in between (`BackwardKeeps`), so
  that it is in the answer of that query, in the list of packets still to handle, and
  then in the messages. This is the invariant `CInv`, which adds to `RInv` what each
  query read (`ReadsInv`) and where each due message is (`DueInv`).

`SetupProofs` proves for any clients and channels on the chains, numbers, balances and
whatever other people do `TypeCorrect`, `CreatedIdsRight` (`CreatedIdsNamed`) and
`PassWasEarned` (`PassIsEarned`). The invariant adds what is under way at each step of the
test (`PhaseInv`), and that a packet that was acknowledged went over a channel with the
test's number at both ends whose clients the ids name (`CarriedInv`): if the numbers
differ no relayer carries the acknowledgement, and if the ids are of other clients none
carries the packet. `FreshNeverPanics` is what
`FreshTestPasses` says without fairness: on fresh chains the test panics only after a
failure or a step of somebody else. Its invariant `FreshInv` says that the test's clients
and channel are the only ones, that whole tenths are left to send, and that a relayer is
there to carry what is waited for and has not carried it to its end unheard.

The assumptions are the named ones of the modules: `ChainsDistinct`, `FlowAssumption`,
`GasAssumption`, `RelayAssumption`, `HeightAssumption`, `QueueAssumption`, `TxAssumption`,
`ReadyAssumption`, `SetupAssumption`. TLC evaluates each of them in the runs.

All action properties of the passing runs are proved, and all their invariants but
`RelayLoopsForever`, which holds at the pace and bounds of `relay_calm`. Model-checked
only are besides it the liveness properties (`FlowsComplete`, `DelayedStillUpdates`,
`Terminates`, `EveryCallReturns`, `TestEnds`, `FreshTestPasses`), which with fairness
and ENABLED are beyond the prover; `LookupsShrink` and `FreshNeverPanics` are the
parts of two of them that are not. The library's induction theorems cannot be used
either, which is why what `Halving` computes is proved from a least counterexample.

## Findings

Shown by a run:

1. Events of the blocks between the first scan and the header of the update are
   never relayed (`provider.rs:118`, `macros.rs:43`; `relay_skips`).
2. A block during a pass makes proofs stale and ends the relayer (`events.rs:539`,
   `utils.rs:3`, `macros.rs:86`; `relay_stops`).
3. Acknowledgements are looked up by the other chain's channel id (`events.rs:613`;
   `relay_ack_lookup`).
4. The search for the proof height of a timeout is bounded by a height of the wrong
   chain (`packets.rs:127`; `ready_timeouts`).
5. The messages for packets ready after a connection delay declare the height their
   proof was queried at, one below the one whose header commits to it (`utils.rs:168`,
   `utils.rs:226`, `utils.rs:253` of `core/packets`; `ready_proofs`).

Read while modelling; the models have the behaviour, no run is about it alone:

- Packets over connections with a delay are never relayed, the code that would send
  them later is commented out (`events.rs:697`; `FlowsComplete` excepts them).
- Updates are never mandatory (`client.rs:248`).
- A batch too large for one transaction ends the relayer (`chain.rs:74`;
  `TooManyMessages`).
- The search for a proof height with a timestamp overlooks the latest height and
  heights below a gap (`funcs.rs:173`, `funcs.rs:189`; `GaplessFindsFirst` excepts
  them).
- `chunk`, logged as the number of chunks (`queue.rs:41`), is used as their size
  (`queue.rs:44`). A `CosmosClient` never gets that far (`AllOrNothing`), another
  `Chain` could be sent two messages in one chunk after all.
- On an ordered channel the next packet to receive counts as delivered
  (`funcs.rs:63`; `AllReadyReturned` excepts it).
- The difference `period` is unsigned and may be below zero (`utils.rs:64` of
  `core/packets`; `PeriodOverflow`).
- The channel that the set-up finds may lead to a third chain: the query for a client's
  connections answers all of them (`provider.rs:963`; `Usable`), although `setup.rs:109`
  says "in-between the two chains". The test then waits in vain for an acknowledgement.
- The transfer back from chain B names the channel by chain A's id (`tests.rs:60`;
  `NamedEnd`), and a stream that ends, or anybody's acknowledgement, counts as the one
  waited for (`tests.rs:122`, `tests.rs:126`; `waived`).
- A chain that makes no block hangs the set-up (`setup.rs:65-81`; `FirstBlock`).
- A packet is relayed without a look at its timeout (`events.rs:539`), and every
  transaction pays for the same gas (`client.rs:201`); a refusal ends the relayer
  (`Timely`, `GasSuffices`).
- The key of an acknowledgement's proof is made of the packet's source ids
  (`utils.rs:307` of `core/packets`), though the chain that wrote it has it under the
  destination's.

## Not modelled

- Event decoding (`cosmos/events.rs`), encoding, signatures and keys
  (`cosmos/encode.rs`, `cosmos/key_provider.rs`), errors and log set-up: conversions of
  data without state. `Relay` starts from decoded events; that an undecodable one is
  dropped (`provider.rs:138`) is a hazard no property covers.
- The light client (`cosmos/light_client.rs`): a wrapper around a library. Headers
  are heights; validator sets, and with them the rule for mandatory updates, are left
  out.
- Gas is a cost for each message against a limit; fees and the gas of the client update
  are left out.
- Proofs and commitments themselves: a proof is the height it was queried at and the one
  it is declared for. That an end is proved closed at a height before its closing
  (`utils.rs:172` of `core/packets`) is not seen.
- The listings of `provider.rs` that page through clients, connections and packets,
  and the initial states it builds: data. The event subscription of the test suite is
  the arrival of the event waited for.
- `traits.rs` has signatures only; what their comments promise is quoted where a
  property states it.
- Threads: a poll that blocks its thread (`provider.rs:1061`) is an ordinary wait.
- Tests of the suite that the repository calls nowhere.
