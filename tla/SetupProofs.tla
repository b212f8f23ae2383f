----------------------------- MODULE SetupProofs -----------------------------
(***************************************************************************)
(* Proofs about Setup: for any clients and channels the chains begin with, *)
(* any numbers and balances, and whatever the relayers and others do.      *)
(***************************************************************************)
EXTENDS Setup, SequenceTheorems, TLAPS

(* The steps at which the ids are set, and those at which no handshake or  *)
(* packet has been begun.                                                  *)
Named == {"spawn", "connections", "connection", "channel", "confirm", "wait", "restart", "a", "b"}
Early == {"block_a", "block_b", "clients_a", "clients_b", "create_a", "create_b", "spawn",
          "connections", "connection"}

FirstClients == \A c \in Chain : client_id[c] = 1 /\ clients[c] # <<>>

(* Ids: those that were found, or those of the clients created.            *)
IdsInv ==
    /\ found => clients["a"] # <<>>
    /\ pc = "create_b" => Tracks("a", client_id["b"], "b")
    /\ pc \in Named => NamedForRelayer \/ FirstClients

(* What is under way, by the step of the test.                             *)
PhaseInv ==
    /\ pc \in Early => flow = "none"
    /\ flow = "none" => step = 0
    /\ pc = "channel" => flow = "connection"
    /\ pc \in {"restart", "a"} => flow \in {"none", "channel"}
    /\ pc = "b" => flow = "a"
    /\ pc = "done" => flow = "b"
    /\ pc \notin {"wait", "panicked"} => ~listening /\ seen = "no"
    /\ flow \notin Chain => acked = {}

(* What was acknowledged went over a channel of the relayer's clients that *)
(* has the test's number on both chains.                                   *)
Meant(ch) == Served(ch) /\ \A c \in Chain : ch.on[c] = channel_id

CarriedInv ==
    /\ seen = "own" => step = LastStep
    /\ step = 3 /\ flow \in Chain => flow \in acked
    /\ (pc = "b" \/ flow = "b") /\ ~waived => "a" \in acked
    /\ pc = "done" /\ ~waived => acked = Chain
    /\ acked # {} => \E ch \in channels : Meant(ch)

SetupInv == TypeOK /\ IdsInv /\ PhaseInv /\ CarriedInv

LEMMA InitInv == Init => SetupInv
<1> SUFFICES ASSUME Init PROVE SetupInv
  OBVIOUS
<1>1. TypeOK
  <2>1. clients \in [Chain -> Seq(Chain \cup {"other"})]
    <3>1. PICK old \in OldClients["a"], others \in OldClients["b"] :
             clients = [c \in Chain |-> IF c = "a" THEN old ELSE others]
      BY DEF Init
    <3>2. /\ OldClients["a"] \subseteq Seq(Chain \cup {"other"})
          /\ OldClients["b"] \subseteq Seq(Chain \cup {"other"})
      BY SetupAssumption DEF Chain
    <3> QED
      BY <3>1, <3>2
  <2>2. channels \subseteq Channel
    <3>1. OldChannels \subseteq SUBSET Channel /\ channels \in OldChannels
      BY SetupAssumption DEF Init
    <3> QED
      BY <3>1
  <2>3. number \in [Chain -> Nat] /\ balance \in [Chain -> Nat]
    <3>1. /\ Numbers \subseteq Nat /\ number \in [Chain -> Numbers]
          /\ Balances \subseteq Nat /\ balance \in [Chain -> Balances]
      BY SetupAssumption DEF Init
    <3> QED
      BY <3>1
  <2>4. step \in 0..LastStep
    BY DEF Init, LastStep
  <2>5. relayer \in [Relayer -> {"none", "starting", "running", "aborting", "ended"}]
    BY DEF Init
  <2>6. client_id \in [Chain -> Nat]
    BY DEF Init
  <2> QED
    BY <2>1, <2>2, <2>3, <2>4, <2>5, <2>6 DEF Init, TypeOK, Flow
<1>2. IdsInv /\ PhaseInv /\ CarriedInv
  BY DEF Init, IdsInv, PhaseInv, CarriedInv, Named, Early, Chain
<1> QED
  BY <1>1, <1>2 DEF SetupInv

-------------------------------------------------------------------------------
(* Steps that leave the clients, their ids and the channels alone.         *)
LEMMA SteadyKeeps ==
    ASSUME SetupInv, UNCHANGED <<clients, channels, client_id, channel_id, found, acked>>,
           TypeOK', PhaseInv',
           pc' # "create_b" \/ pc = "create_b", pc' \in Named => pc \in Named,
           waived => waived',
           \/ UNCHANGED <<flow, step>> /\ (seen' = "own" => seen = "own")
           \/ step' = 1 /\ seen' # "own" /\ (flow' = "b" /\ ~waived' => "a" \in acked),
           pc' = "b" /\ ~waived' => "a" \in acked,
           pc' = "done" /\ ~waived' => acked = Chain
    PROVE  SetupInv'
<1>1. IdsInv'
  BY DEF SetupInv, IdsInv, Tracks, NamedForRelayer, FirstClients
<1>2. ASSUME NEW ch, Meant(ch) PROVE Meant(ch)'
  BY <1>2 DEF Meant, Served, NamedForRelayer, Tracks
<1>3. acked' # {} => \E ch \in channels' : Meant(ch)'
  BY <1>2 DEF SetupInv, CarriedInv
<1>4. seen' = "own" => step' = LastStep'
  BY DEF SetupInv, CarriedInv, LastStep
<1>5. step' = 3 /\ flow' \in Chain => flow' \in acked'
  BY DEF SetupInv, CarriedInv
<1>6. (pc' = "b" \/ flow' = "b") /\ ~waived' => "a" \in acked'
  BY DEF SetupInv, CarriedInv
<1>7. pc' = "done" /\ ~waived' => acked' = Chain
  OBVIOUS
<1>8. CarriedInv'
  BY <1>3, <1>4, <1>5, <1>6, <1>7 DEF CarriedInv, Chain
<1> QED
  BY <1>1, <1>8 DEF SetupInv

(* The test's own steps.                                                   *)
LEMMA TestStepsInv ==
    ASSUME SetupInv,
           \/ SpawnRelayer \/ NoChannel \/ SubmitOpenInit \/ OpenInitFails \/ Subscribe
           \/ RestartRelayer \/ WaitTimesOut \/ CallFails \/ OtherEvent
           \/ \E c \in Chain : FirstBlock(c)
    PROVE  SetupInv'
<1>1. TypeOK /\ PhaseInv /\ CarriedInv
  BY DEF SetupInv
<1>2. CASE SpawnRelayer
  <2>1. TypeOK' /\ PhaseInv'
    BY <1>1, <1>2
       DEF SpawnRelayer, TypeOK, PhaseInv, Early, world, run, LastStep, Relayer
  <2> QED
    BY <1>2, <2>1, SteadyKeeps DEF SpawnRelayer, world, run, Named
<1>3. CASE NoChannel
  <2>1. TypeOK' /\ PhaseInv'
    BY <1>1, <1>3 DEF NoChannel, TypeOK, PhaseInv, Early, world, run, quiet, LastStep
  <2> QED
    BY <1>3, <2>1, SteadyKeeps DEF NoChannel, world, run, quiet, Named
<1>4. CASE SubmitOpenInit
  <2>1. /\ pc \in {"connection", "channel"} /\ flow' = pc /\ step' = 1 /\ pc' = "confirm"
        /\ connection' = connection \/ connection' = {[client |-> client_id, delay_fits |-> TRUE]}
        /\ UNCHANGED <<world, relayer, client_id, found, channel_id, amount, waived, listening, seen,
                       disturbed>>
    BY <1>4 DEF SubmitOpenInit, CanOpen
  <2>2. [client |-> client_id, delay_fits |-> TRUE] \in Connection
    BY <1>1 DEF TypeOK, Connection
  <2>3. connection' \subseteq Connection /\ \A k, other \in connection' : k = other
    BY <1>1, <2>1, <2>2 DEF TypeOK
  <2>4. TypeOK'
    BY <1>1, <2>1, <2>3 DEF TypeOK, world, Flow, LastStep, Chain
  <2>5. flow \notin Chain /\ flow' \notin Chain /\ seen' = "no"
    BY <1>1, <2>1 DEF PhaseInv, Early, Chain
  <2>6. PhaseInv'
    BY <1>1, <2>1, <2>5 DEF PhaseInv, Early, world
  <2> QED
    BY <2>1, <2>4, <2>5, <2>6, SteadyKeeps DEF world, Named, Chain
<1>5. CASE OpenInitFails
  <2>1. TypeOK' /\ PhaseInv'
    BY <1>1, <1>5 DEF OpenInitFails, TypeOK, PhaseInv, Early, world, run, quiet, LastStep
  <2> QED
    BY <1>5, <2>1, SteadyKeeps DEF OpenInitFails, world, run, quiet, Named
<1>6. CASE Subscribe
  <2>1. TypeOK' /\ PhaseInv'
    BY <1>1, <1>6 DEF Subscribe, TypeOK, PhaseInv, Early, world, run, LastStep
  <2> QED
    BY <1>6, <2>1, SteadyKeeps DEF Subscribe, world, run, Named
<1>7. CASE OtherEvent
  <2>1. pc \in {"wait", "panicked"}
    BY <1>1, <1>7 DEF OtherEvent, PhaseInv
  <2>2. TypeOK' /\ PhaseInv'
    BY <1>1, <1>7, <2>1 DEF OtherEvent, TypeOK, PhaseInv, Early, world, run, LastStep
  <2> QED
    BY <1>7, <2>1, <2>2, SteadyKeeps DEF OtherEvent, world, run, Named
<1>8. CASE RestartRelayer
  <2>1. relayer' \in [Relayer -> {"none", "starting", "running", "aborting", "ended"}]
    BY <1>8 DEF RestartRelayer, Relayer
  <2>2. TypeOK' /\ PhaseInv'
    BY <1>1, <1>8, <2>1 DEF RestartRelayer, TypeOK, PhaseInv, Early, world, run, LastStep
  <2> QED
    BY <1>8, <2>2, SteadyKeeps DEF RestartRelayer, world, run, Named
<1>9. CASE WaitTimesOut
  <2>1. TypeOK' /\ PhaseInv'
    BY <1>1, <1>9 DEF WaitTimesOut, TypeOK, PhaseInv, Early, world, run, quiet, LastStep
  <2> QED
    BY <1>9, <2>1, SteadyKeeps DEF WaitTimesOut, world, run, quiet, Named
<1>10. CASE CallFails
  <2>1. TypeOK' /\ PhaseInv'
    BY <1>1, <1>10 DEF CallFails, TypeOK, PhaseInv, Early, world, run, LastStep
  <2> QED
    BY <1>10, <2>1, SteadyKeeps DEF CallFails, world, run, Named
<1>11. ASSUME NEW c \in Chain, FirstBlock(c) PROVE SetupInv'
  <2>1. /\ pc \in {"block_a", "block_b"} /\ pc' \in {"block_b", "clients_a"}
        /\ UNCHANGED <<world, quiet, run>>
    BY <1>11 DEF FirstBlock
  <2>2. TypeOK' /\ PhaseInv'
    BY <1>1, <2>1 DEF TypeOK, PhaseInv, Early, world, run, quiet, LastStep
  <2> QED
    BY <2>1, <2>2, SteadyKeeps DEF world, run, quiet, Named
<1> QED
  BY <1>2, <1>3, <1>4, <1>5, <1>6, <1>7, <1>8, <1>9, <1>10, <1>11

(* The connection is the one of the event.                                 *)
LEMMA ConnectionInv == ASSUME SetupInv, ConnectionOpened PROVE SetupInv'
<1>1. TypeOK /\ PhaseInv /\ CarriedInv
  BY DEF SetupInv
<1>2. /\ pc = "wait" /\ flow = "connection" /\ pc' = "channel"
      /\ listening' = FALSE /\ seen' = "no" /\ waived' = (waived \/ seen = "other")
      /\ connection' = connection \/ connection' = {}
         \/ \E k \in OtherConnections : connection' = {k}
      /\ UNCHANGED <<world, flow, step, relayer, client_id, found, channel_id, amount, disturbed>>
  BY DEF ConnectionOpened, WaitEnds
<1>3. connection' \subseteq Connection /\ \A k, other \in connection' : k = other
  BY <1>1, <1>2, SetupAssumption DEF TypeOK
<1>4. waived' \in BOOLEAN
  BY <1>2
<1>5. TypeOK'
  BY <1>1, <1>2, <1>3, <1>4 DEF TypeOK, world, LastStep
<1>6. PhaseInv'
  BY <1>1, <1>2 DEF PhaseInv, Early, world
<1> QED
  BY <1>2, <1>5, <1>6, SteadyKeeps DEF world, Named

(* The transfers.                                                          *)
LEMMA SendInv == ASSUME SetupInv, NEW c \in Chain, SendTransfer(c) PROVE SetupInv'
<1>1. /\ TypeOK /\ PhaseInv /\ CarriedInv /\ balance[c] \in Nat /\ c \in {"a", "b"}
      /\ UNCHANGED <<clients, channels, number, acked, relayer, client_id, found, connection,
                     channel_id, waived, listening, seen, disturbed>>
      /\ pc = c /\ flow' = c /\ step' = 1 /\ pc' = "confirm"
      /\ amount' = balance[c] \div 10
      /\ balance' = [balance EXCEPT ![c] = balance[c] - balance[c] \div 10]
  BY DEF SetupInv, SendTransfer, TypeOK, Chain
<1>2. amount' \in Nat /\ balance' \in [Chain -> Nat]
  BY <1>1 DEF TypeOK
<1>3. TypeOK'
  BY <1>1, <1>2 DEF TypeOK, Flow, LastStep, Chain
<1>4. PhaseInv'
  BY <1>1 DEF PhaseInv, Early
<1>5. seen = "no"
  BY <1>1 DEF PhaseInv
<1>6. flow' = "b" /\ ~waived' => "a" \in acked
  BY <1>1 DEF CarriedInv
<1> QED
  BY <1>1, <1>3, <1>4, <1>5, <1>6, SteadyKeeps DEF Named

LEMMA TransferStepsInv ==
    ASSUME SetupInv,
           (\E c \in Chain : CannotSend(c)) \/ Acknowledged \/ StreamEnds
    PROVE  SetupInv'
<1>1. TypeOK /\ PhaseInv /\ CarriedInv
  BY DEF SetupInv
<1>2. ASSUME NEW c \in Chain, CannotSend(c) PROVE SetupInv'
  <2>1. TypeOK' /\ PhaseInv'
    BY <1>1, <1>2 DEF CannotSend, TypeOK, PhaseInv, Early, world, run, quiet, LastStep, Chain
  <2> QED
    BY <1>2, <2>1, SteadyKeeps DEF CannotSend, world, run, quiet, Named, Chain
<1>3. CASE Acknowledged
  <2>1. /\ pc = "wait" /\ seen # "no" /\ flow \in {"a", "b"}
        /\ pc' \in {"panicked", IF flow = "a" THEN "b" ELSE "done"}
        /\ UNCHANGED <<world, flow, step, relayer, client_id, found, connection, channel_id, amount,
                       disturbed>>
        /\ listening' = FALSE /\ seen' = "no" /\ waived' = (waived \/ seen = "other")
    BY <1>3 DEF Acknowledged, WaitEnds, Compare, Chain
  <2>2. waived' \in BOOLEAN
    BY <2>1
  <2>3. ~waived' => flow \in acked /\ ~waived
    <3>1. seen = "own" => step = 3
      BY <1>1, <2>1 DEF CarriedInv, LastStep, Chain
    <3>2. ~waived' => seen = "own" /\ ~waived
      BY <1>1, <2>1 DEF TypeOK
    <3> QED
      BY <1>1, <2>1, <3>1, <3>2 DEF CarriedInv, Chain
  <2>4. flow = "b" /\ ~waived' => acked = Chain
    BY <1>1, <2>3 DEF CarriedInv, TypeOK, Chain
  <2>5. TypeOK'
    BY <1>1, <2>1, <2>2 DEF TypeOK, world, LastStep
  <2>6. PhaseInv'
    BY <1>1, <2>1 DEF PhaseInv, Early, world, Chain
  <2>7. (pc' = "b" /\ ~waived' => "a" \in acked) /\ (pc' = "done" /\ ~waived' => acked = Chain)
    BY <2>1, <2>3, <2>4
  <2> QED
    BY <2>1, <2>5, <2>6, <2>7, SteadyKeeps DEF world, Named
<1>4. CASE StreamEnds
  <2>1. /\ pc = "wait" /\ seen = "no"
        /\ \/ flow \in {"a", "b"} /\ waived' = TRUE
              /\ pc' \in {"panicked", IF flow = "a" THEN "b" ELSE "done"}
           \/ pc' = "panicked" /\ UNCHANGED waived
        /\ UNCHANGED <<world, flow, step, relayer, client_id, found, connection, channel_id, amount,
                       seen>>
        /\ listening' = FALSE /\ disturbed' = TRUE
    BY <1>4 DEF StreamEnds, Compare, Chain
  <2>2. TypeOK'
    BY <1>1, <2>1 DEF TypeOK, world, LastStep
  <2>3. PhaseInv'
    BY <1>1, <2>1 DEF PhaseInv, Early, world, Chain
  <2> QED
    BY <2>1, <2>2, <2>3, SteadyKeeps DEF world, Named
<1> QED
  BY <1>2, <1>3, <1>4

(* The relayers.                                                           *)
LEMMA RelayerStepsInv ==
    ASSUME SetupInv,
           RelayerAborted \/ \E r \in Relayer : RelayerStarts(r) \/ AckNotFound(r) \/ RelayerLost(r)
    PROVE  SetupInv'
<1>1. TypeOK /\ PhaseInv /\ CarriedInv
  BY DEF SetupInv
<1>2. /\ UNCHANGED <<world, flow, step, pc, run, listening, seen>>
      /\ relayer' \in [Relayer -> {"none", "starting", "running", "aborting", "ended"}]
      /\ disturbed' \in BOOLEAN
  BY <1>1 DEF RelayerAborted, RelayerStarts, AckNotFound, RelayerLost, TypeOK, Relayer
<1>3. TypeOK' /\ PhaseInv'
  BY <1>1, <1>2 DEF TypeOK, PhaseInv, world, run, LastStep
<1>4. (pc' = "b" /\ ~waived' => "a" \in acked) /\ (pc' = "done" /\ ~waived' => acked = Chain)
  BY <1>1, <1>2 DEF CarriedInv, run
<1> QED
  BY <1>2, <1>3, <1>4, SteadyKeeps DEF world, run

LEMMA RelayInv == ASSUME SetupInv, NEW r \in Relayer, Relay(r) PROVE SetupInv'
<1>1. /\ TypeOK /\ PhaseInv /\ CarriedInv /\ IdsInv
      /\ UNCHANGED <<clients, balance, flow, relayer, pc, run, listening, disturbed>>
      /\ step \in 1..(LastStep - 1) /\ step' = step + 1
      /\ seen' = IF listening /\ seen = "no" /\ step' = LastStep THEN "own" ELSE seen
      /\ acked' = IF step' = LastStep /\ flow \in Chain THEN acked \cup {flow} ELSE acked
  BY DEF SetupInv, Relay, CanRelay
<1>2. LastStep \in Nat /\ LastStep' = LastStep
  BY <1>1 DEF LastStep
<1>3. step \in Nat /\ step' \in 1..LastStep /\ step # LastStep
  BY <1>1, <1>2
<1>4. channels \subseteq channels' /\ channels' \subseteq Channel /\ number' \in [Chain -> Nat]
  <2>1. CASE step' = LastStep /\ flow = "channel"
    <3>1. /\ channels' = channels \cup {Opened(k) : k \in connection}
          /\ number' = [c \in Chain |-> number[c] + 1]
      BY <2>1 DEF Relay
    <3>2. ASSUME NEW k \in connection PROVE Opened(k) \in Channel
      <4>1. k \in Connection /\ number \in [Chain -> Nat]
        BY <1>1 DEF TypeOK
      <4>2. k.client \in [Chain -> Nat] /\ k.delay_fits \in BOOLEAN
        BY <4>1 DEF Connection
      <4> QED
        BY <4>1, <4>2 DEF Opened, Channel
    <3>3. channels \subseteq channels' /\ channels' \subseteq Channel
      BY <1>1, <3>1, <3>2 DEF TypeOK
    <3>4. \A c \in Chain : number[c] + 1 \in Nat
      BY <1>1 DEF TypeOK
    <3> QED
      BY <3>1, <3>3, <3>4
  <2>2. CASE ~(step' = LastStep /\ flow = "channel")
    <3>1. UNCHANGED <<channels, number>>
      BY <2>2 DEF Relay
    <3> QED
      BY <1>1, <3>1 DEF TypeOK
  <2> QED
    BY <2>1, <2>2
<1>5. seen' \in {"no", "own", "other"} /\ (seen' # seen => listening)
  BY <1>1 DEF TypeOK
<1>6. seen' = "own" => step' = LastStep
  BY <1>1, <1>3 DEF CarriedInv
<1>7. acked' \subseteq Chain /\ acked \subseteq acked' /\ (flow \notin Chain => acked' = acked)
  BY <1>1 DEF TypeOK
<1>8. TypeOK'
  <2>1. step' \in 0..LastStep'
    BY <1>2, <1>3
  <2> HIDE DEF LastStep
  <2> QED
    BY <1>1, <1>4, <1>5, <1>7, <2>1 DEF TypeOK, run
<1>9. PhaseInv'
  BY <1>1, <1>3, <1>5, <1>7 DEF PhaseInv
<1>10. IdsInv'
  BY <1>1 DEF IdsInv, Tracks, NamedForRelayer, FirstClients, run
<1>11. ASSUME NEW ch, Meant(ch) PROVE Meant(ch)'
  BY <1>1, <1>11 DEF Meant, Served, NamedForRelayer, Tracks, run
<1>12. acked' # {} => \E ch \in channels' : Meant(ch)'
  <2>1. CASE step' = LastStep /\ flow \in Chain
    <3>1. PICK ch \in NamedEnd(flow) : Crosses(ch)
      BY <2>1 DEF Relay, CanRelay, Way
    <3>2. step = 2
      BY <1>1, <1>3, <2>1 DEF LastStep
    <3>3. ch \in channels /\ ch.on[flow] = channel_id /\ Served(ch) /\ ch.on["a"] = ch.on["b"]
      BY <2>1, <3>1, <3>2 DEF NamedEnd, Crosses
    <3>4. Meant(ch)
      BY <2>1, <3>3 DEF Meant, Chain
    <3> QED
      BY <1>4, <1>11, <3>3, <3>4
  <2>2. CASE ~(step' = LastStep /\ flow \in Chain)
    <3>1. acked' = acked
      BY <1>1, <2>2
    <3> QED
      BY <1>1, <1>4, <1>11, <3>1 DEF CarriedInv
  <2> QED
    BY <2>1, <2>2
<1>13. step' = 3 /\ flow' \in Chain => flow' \in acked'
  BY <1>1 DEF LastStep
<1>14. (pc' = "b" \/ flow' = "b") /\ ~waived' => "a" \in acked'
  BY <1>1, <1>7 DEF CarriedInv, run
<1>15. pc' = "done" /\ ~waived' => acked' = Chain
  BY <1>1, <1>7 DEF CarriedInv, run
<1>16. CarriedInv'
  <2> HIDE DEF LastStep
  <2> QED
    BY <1>2, <1>6, <1>12, <1>13, <1>14, <1>15 DEF CarriedInv, Chain
<1> QED
  BY <1>8, <1>9, <1>10, <1>16 DEF SetupInv

-------------------------------------------------------------------------------
(* A client more leaves the others where they are.                         *)
LEMMA ClientAdded ==
    ASSUME TypeOK, NEW c \in Chain, NEW chain \in Chain \cup {"other"},
           clients' = [clients EXCEPT ![c] = Append(clients[c], chain)]
    PROVE  /\ clients' \in [Chain -> Seq(Chain \cup {"other"})]
           /\ \A d \in Chain : \A id, x : Tracks(d, id, x) => Tracks(d, id, x)'
           /\ \A n : n = Len(clients[c]) + 1 => Tracks(c, n, chain)'
           /\ \A d \in Chain : clients[d] # <<>> => clients'[d] # <<>>
<1> DEFINE S == Chain \cup {"other"}
           new == Append(clients[c], chain)
<1>1. clients \in [Chain -> Seq(S)] /\ clients[c] \in Seq(S)
  BY DEF TypeOK
<1>2. /\ new \in Seq(S) /\ Len(new) = Len(clients[c]) + 1
      /\ new[Len(clients[c]) + 1] = chain
      /\ \A i \in 1..Len(clients[c]) : new[i] = clients[c][i]
      /\ Len(clients[c]) \in Nat
  BY <1>1, AppendProperties, LenProperties
<1> HIDE DEF S, new
<1>3. clients'[c] = new /\ \A d \in Chain : d # c => clients'[d] = clients[d]
  BY <1>1 DEF new
<1>4. clients' \in [Chain -> Seq(S)]
  BY <1>1, <1>2 DEF new
<1>5. \A d \in Chain : \A id, x : Tracks(d, id, x) => Tracks(d, id, x)'
  BY <1>2, <1>3 DEF Tracks
<1>6. \A n : n = Len(clients[c]) + 1 => Tracks(c, n, chain)'
  BY <1>2, <1>3 DEF Tracks
<1>7. \A d \in Chain : clients[d] # <<>> => clients'[d] # <<>>
  <2>1. new # <<>>
    BY <1>2
  <2> QED
    BY <1>3, <2>1
<1> QED
  BY <1>4, <1>5, <1>6, <1>7 DEF S

LEMMA OtherClientInv == ASSUME SetupInv, NEW c \in Chain, OtherClient(c) PROVE SetupInv'
<1>1. /\ TypeOK /\ IdsInv /\ PhaseInv /\ CarriedInv
      /\ clients' = [clients EXCEPT ![c] = Append(clients[c], "other")]
      /\ UNCHANGED <<channels, number, balance, acked, flow, step, relayer, pc, run, listening, seen>>
      /\ disturbed' = TRUE
  BY DEF SetupInv, OtherClient
<1>2. /\ clients' \in [Chain -> Seq(Chain \cup {"other"})]
      /\ \A d \in Chain : \A id, x : Tracks(d, id, x) => Tracks(d, id, x)'
      /\ \A d \in Chain : clients[d] # <<>> => clients'[d] # <<>>
  BY <1>1, ClientAdded
<1>3. TypeOK'
  BY <1>1, <1>2 DEF TypeOK, run, LastStep
<1>4. client_id' = client_id /\ \A d \in Chain : Peer(d) \in Chain
  BY <1>1 DEF run, Peer, Chain
<1>5. NamedForRelayer => NamedForRelayer'
  BY <1>2, <1>4 DEF NamedForRelayer
<1>6. Tracks("a", client_id["b"], "b") => Tracks("a", client_id["b"], "b")'
  BY <1>2, <1>4 DEF Chain
<1>7. FirstClients => FirstClients'
  BY <1>2, <1>4 DEF FirstClients
<1>8. IdsInv'
  BY <1>1, <1>2, <1>5, <1>6, <1>7 DEF IdsInv, run, Chain
<1>9. ASSUME NEW ch, Meant(ch) PROVE Meant(ch)'
  BY <1>1, <1>5, <1>9 DEF Meant, Served, run
<1>10. PhaseInv' /\ CarriedInv'
  BY <1>1, <1>9 DEF PhaseInv, CarriedInv, run, LastStep
<1> QED
  BY <1>3, <1>8, <1>10 DEF SetupInv

(* While nothing is acknowledged the ids may be set.                       *)
LEMMA EarlyCarried ==
    ASSUME PhaseInv, PhaseInv', CarriedInv, pc \in Early, pc' \in Early, UNCHANGED <<flow, step, acked>>
    PROVE  CarriedInv'
<1>1. flow = "none" /\ acked = {} /\ seen' = "no"
  BY DEF PhaseInv, Early, Chain
<1> QED
  BY <1>1 DEF CarriedInv, Early, Chain

(* The id of a client that is created is set for the other chain.          *)
LEMMA CreateInv == ASSUME SetupInv, NEW c \in Chain, create_client(c) PROVE SetupInv'
<1>1. /\ TypeOK /\ IdsInv /\ PhaseInv /\ CarriedInv /\ client_id \in [Chain -> Nat]
      /\ pc = IF c = "a" THEN "create_a" ELSE "create_b"
      /\ pc' = IF c = "a" THEN "create_b" ELSE "spawn"
      /\ clients' = [clients EXCEPT ![c] = Append(clients[c], Peer(c))]
      /\ client_id' = [client_id EXCEPT ![Peer(c)] = Len(clients[c]) + 1]
      /\ UNCHANGED <<channels, number, balance, acked, quiet, found, connection, channel_id, amount,
                     waived>>
      /\ c \in {"a", "b"} /\ Peer(c) \in Chain
  BY DEF SetupInv, create_client, TypeOK, Chain, Peer
<1>2. /\ clients' \in [Chain -> Seq(Chain \cup {"other"})]
      /\ \A d \in Chain : \A id, x : Tracks(d, id, x) => Tracks(d, id, x)'
      /\ \A n : n = Len(clients[c]) + 1 => Tracks(c, n, Peer(c))'
      /\ \A d \in Chain : clients[d] # <<>> => clients'[d] # <<>>
  BY <1>1, ClientAdded
<1>3. Len(clients[c]) + 1 \in Nat
  <2>1. clients[c] \in Seq(Chain \cup {"other"})
    BY <1>1 DEF TypeOK
  <2> QED
    BY <2>1, LenProperties
<1>4. /\ client_id' \in [Chain -> Nat] /\ client_id'[Peer(c)] = Len(clients[c]) + 1
      /\ client_id'[c] = client_id[c]
  BY <1>1, <1>3 DEF Peer, Chain
<1>5. TypeOK'
  BY <1>1, <1>2, <1>4 DEF TypeOK, quiet, LastStep
<1>6. Tracks(c, client_id[Peer(c)], Peer(c))'
  BY <1>2, <1>4
<1>7. IdsInv'
  <2>1. found' => clients'["a"] # <<>>
    BY <1>1, <1>2 DEF IdsInv, Chain
  <2>2. CASE c = "a"
    BY <1>1, <1>6, <2>1, <2>2 DEF IdsInv, Named, Peer
  <2>3. CASE c = "b"
    <3>1. Tracks("a", client_id["b"], "b")'
      BY <1>1, <1>2, <1>4, <2>3 DEF IdsInv, Chain
    <3>2. Tracks("b", client_id["a"], "a")'
      BY <1>6, <2>3 DEF Peer
    <3>3. NamedForRelayer'
      BY <3>1, <3>2 DEF NamedForRelayer, Chain, Peer
    <3> QED
      BY <1>1, <2>1, <2>3, <3>3 DEF IdsInv
  <2> QED
    BY <1>1, <2>2, <2>3
<1>8. pc \in Early /\ pc' \in Early /\ PhaseInv'
  BY <1>1 DEF PhaseInv, Early, quiet, Chain
<1>9. CarriedInv'
  BY <1>1, <1>8, EarlyCarried DEF quiet
<1> QED
  BY <1>5, <1>7, <1>8, <1>9 DEF SetupInv

LEMMA FoundClientsInv ==
    ASSUME SetupInv, query_clients_on_a \/ query_clients_on_b
    PROVE  SetupInv'
<1>1. TypeOK /\ IdsInv /\ PhaseInv /\ CarriedInv
  BY DEF SetupInv
<1>2. CASE query_clients_on_a
  <2>1. /\ pc = "clients_a" /\ pc' = "clients_b" /\ found' = (clients["a"] # <<>>)
        /\ UNCHANGED <<world, quiet, client_id, connection, channel_id, amount, waived>>
    BY <1>2 DEF query_clients_on_a
  <2>2. found' \in BOOLEAN
    BY <2>1
  <2>3. TypeOK'
    BY <1>1, <2>1, <2>2 DEF TypeOK, world, quiet, LastStep
  <2>4. IdsInv'
    BY <2>1 DEF IdsInv, Named, world
  <2>5. PhaseInv' /\ pc \in Early /\ pc' \in Early
    BY <1>1, <2>1 DEF PhaseInv, Early, quiet, world, Chain
  <2>6. CarriedInv'
    BY <1>1, <2>1, <2>5, EarlyCarried DEF quiet, world
  <2> QED
    BY <2>3, <2>4, <2>5, <2>6 DEF SetupInv
<1>3. CASE query_clients_on_b
  <2>1. /\ pc = "clients_b" /\ pc' \in {"spawn", "create_a"}
        /\ UNCHANGED <<world, quiet, found, connection, channel_id, amount, waived>>
        /\ pc' = "spawn" => found /\ clients["b"] # <<>> /\ client_id' = [c \in Chain |-> 1]
        /\ client_id' \in [Chain -> Nat]
    BY <1>1, <1>3 DEF query_clients_on_b, TypeOK
  <2>2. TypeOK'
    BY <1>1, <2>1 DEF TypeOK, world, quiet, LastStep
  <2>3. pc' = "spawn" => FirstClients'
    BY <1>1, <2>1 DEF FirstClients, IdsInv, Chain, world
  <2>4. IdsInv'
    BY <1>1, <2>1, <2>3 DEF IdsInv, Named, world
  <2>5. PhaseInv' /\ pc \in Early /\ pc' \in Early
    BY <1>1, <2>1 DEF PhaseInv, Early, quiet, world, Chain
  <2>6. CarriedInv'
    BY <1>1, <2>1, <2>5, EarlyCarried DEF quiet, world
  <2> QED
    BY <2>2, <2>4, <2>5, <2>6 DEF SetupInv
<1> QED
  BY <1>2, <1>3

(* The channel is named before anything was acknowledged.                  *)
LEMMA ChannelInv == ASSUME SetupInv, FindChannel \/ ChannelOpened PROVE SetupInv'
<1>1. TypeOK /\ IdsInv /\ PhaseInv /\ CarriedInv
  BY DEF SetupInv
<1>2. ASSUME NEW ch \in channels, ch.on["a"] = channel_id' PROVE channel_id' \in Nat
  <2>1. ch.on \in [Chain -> Nat]
    BY <1>1, <1>2 DEF TypeOK, Channel
  <2> QED
    BY <1>2, <2>1 DEF Chain
<1>3. CASE FindChannel
  <2>1. /\ pc = "connections" /\ pc' = "restart" /\ channel_id' \in Nat
        /\ UNCHANGED <<world, quiet, client_id, found, connection, amount, waived>>
    BY <1>2, <1>3 DEF FindChannel, Usable
  <2>2. TypeOK'
    BY <1>1, <2>1 DEF TypeOK, world, quiet, LastStep
  <2>3. IdsInv'
    BY <1>1, <2>1 DEF IdsInv, Named, NamedForRelayer, FirstClients, Tracks, world
  <2>4. flow = "none" /\ acked = {} /\ seen = "no"
    BY <1>1, <2>1 DEF PhaseInv, Early, Chain
  <2>5. PhaseInv' /\ CarriedInv'
    BY <1>1, <2>1, <2>4 DEF PhaseInv, CarriedInv, Early, quiet, world, Chain
  <2> QED
    BY <2>2, <2>3, <2>5 DEF SetupInv
<1>4. CASE ChannelOpened
  <2>1. /\ pc = "wait" /\ flow = "channel" /\ pc' = "restart"
        /\ listening' = FALSE /\ seen' = "no" /\ waived' = (waived \/ seen = "other")
        /\ UNCHANGED <<world, flow, step, relayer, client_id, found, connection, amount, disturbed>>
    BY <1>4 DEF ChannelOpened, WaitEnds
  <2>2. channel_id' \in Nat
    BY <1>2, <1>4, SetupAssumption DEF ChannelOpened
  <2>3. waived' \in BOOLEAN
    BY <2>1
  <2>4. TypeOK'
    BY <1>1, <2>1, <2>2, <2>3 DEF TypeOK, world, LastStep
  <2>5. IdsInv'
    BY <1>1, <2>1 DEF IdsInv, Named, NamedForRelayer, FirstClients, Tracks, world
  <2>6. acked = {}
    BY <1>1, <2>1 DEF PhaseInv, Chain
  <2>7. PhaseInv' /\ CarriedInv'
    BY <1>1, <2>1, <2>6 DEF PhaseInv, CarriedInv, Early, world, Chain
  <2> QED
    BY <2>4, <2>5, <2>7 DEF SetupInv
<1> QED
  BY <1>3, <1>4

LEMMA StepInv == SetupInv /\ [Next]_vars => SetupInv'
<1> SUFFICES ASSUME SetupInv, [Next]_vars PROVE SetupInv'
  OBVIOUS
<1>1. CASE UNCHANGED vars
  <2>1. UNCHANGED <<world, flow, step, relayer, pc, run, listening, seen, disturbed>>
    BY <1>1 DEF vars
  <2>2. TypeOK' /\ PhaseInv'
    BY <2>1 DEF SetupInv, TypeOK, PhaseInv, world, run, LastStep
  <2>3. (pc' = "b" /\ ~waived' => "a" \in acked) /\ (pc' = "done" /\ ~waived' => acked = Chain)
    BY <2>1 DEF SetupInv, CarriedInv, run
  <2> QED
    BY <2>1, <2>2, <2>3, SteadyKeeps DEF world, run
<1>2. CASE Test
  <2>1. ASSUME NEW c \in Chain, create_client(c) PROVE SetupInv'
    BY <2>1, CreateInv
  <2>2. ASSUME NEW c \in Chain, SendTransfer(c) PROVE SetupInv'
    BY <2>2, SendInv
  <2> QED
    BY <1>2, <2>1, <2>2, TestStepsInv, TransferStepsInv, FoundClientsInv, ConnectionInv, ChannelInv
       DEF Test
<1>3. CASE CallFails \/ StreamEnds \/ RelayerAborted \/ OtherEvent
  BY <1>3, TestStepsInv, TransferStepsInv, RelayerStepsInv
<1>4. ASSUME NEW r \in Relayer, RelayerStarts(r) \/ Relay(r) \/ AckNotFound(r) \/ RelayerLost(r)
      PROVE  SetupInv'
  BY <1>4, RelayInv, RelayerStepsInv
<1>5. ASSUME NEW c \in Chain, FirstBlock(c) \/ OtherClient(c) PROVE SetupInv'
  BY <1>5, OtherClientInv, TestStepsInv
<1> QED
  BY <1>1, <1>2, <1>3, <1>4, <1>5 DEF Next

LEMMA Invariance == Spec => []SetupInv
BY InitInv, StepInv, PTL DEF Spec

-------------------------------------------------------------------------------
(* Types, and the bounds of the numbers, at every step of the test.        *)
THEOREM TypeCorrect == Spec => []TypeOK
<1> QED
  BY Invariance, PTL DEF SetupInv

(* The ids of created clients name each chain's client on the other        *)
(* (setup.rs:99).                                                          *)
THEOREM CreatedIdsRight == Spec => []CreatedIdsNamed
<1>1. SetupInv => CreatedIdsNamed
  BY DEF SetupInv, IdsInv, Named, FirstClients, CreatedIdsNamed
<1> QED
  BY <1>1, Invariance, PTL

(* A pass of which no wait ended with a foreign event, or with none, was   *)
(* earned over one channel of the relayer's own clients (setup.rs:92,      *)
(* tests.rs:60).                                                           *)
THEOREM PassWasEarned == Spec => []PassIsEarned
<1>1. SetupInv => PassIsEarned
  <2> SUFFICES ASSUME SetupInv, pc = "done", ~waived
               PROVE  /\ acked = Chain
                      /\ \E ch \in channels : Served(ch) /\ \A c \in Chain : ch.on[c] = channel_id
    BY DEF PassIsEarned
  <2>1. acked = Chain
    BY DEF SetupInv, CarriedInv
  <2>2. \E ch \in channels : Meant(ch)
    BY <2>1 DEF SetupInv, CarriedInv, Chain
  <2> QED
    BY <2>1, <2>2 DEF Meant
<1> QED
  BY <1>1, Invariance, PTL

-------------------------------------------------------------------------------
(* On fresh chains (Fresh), by the step of the test: the test's clients    *)
(* are the only ones.                                                      *)
OnlyClients ==
    /\ pc \in {"block_a", "block_b", "clients_a", "clients_b", "create_a"} =>
          \A c \in Chain : clients[c] = <<>>
    /\ pc = "create_b" => clients["a"] = <<"b">> /\ clients["b"] = <<>> /\ client_id["b"] = 1
    /\ pc \in Named => \A c \in Chain : clients[c] = <<Peer(c)>> /\ client_id[c] = 1

(* So are its connection and its channel, which has one number on both     *)
(* chains.                                                                 *)
OnOnlyClients(k) == k.delay_fits /\ \A c \in Chain : k.client[c] = 1

OnlyChannel ==
    /\ pc \in Early => channels = {}
    /\ number["a"] = number["b"] /\ number["a"] > 0
    /\ \A k \in connection : OnOnlyClients(k)
    /\ flow \in {"connection", "channel"} => connection # {}
    /\ \A ch \in channels : OnOnlyClients(ch) /\ ch.on["a"] = ch.on["b"] /\ ch.on["a"] > 0
    /\ pc \in {"restart", "a", "b"} \/ flow \in Chain => \E ch \in channels : ch.on["a"] = channel_id

(* A whole tenth is left to send, or nine tenths of the balance are left.  *)
Sent(c) == flow = "b" \/ flow = c
Tenths ==
    /\ \A c \in Chain : ~Sent(c) => \E k \in Nat \ {0} : balance[c] = 10 * k
    /\ flow \in Chain /\ pc \in {"confirm", "wait"} => balance[flow] = 9 * amount

(* A relayer is there to carry what is waited for, and has not carried it  *)
(* to its end unseen.                                                      *)
Attended ==
    /\ pc \in Named \ {"spawn"} => \E r \in Relayer : relayer[r] \in {"starting", "running"}
    /\ pc \in {"confirm", "wait"} => flow # "none" /\ step >= 1
    /\ pc = "wait" => listening /\ (step = LastStep => seen # "no")
    /\ seen # "other"

FreshInv ==
    disturbed \/ (pc # "panicked" /\ OnlyClients /\ OnlyChannel /\ Tenths /\ Attended)

LEMMA InitFresh == Init /\ Fresh => FreshInv
<1> SUFFICES ASSUME Init, Fresh PROVE FreshInv
  OBVIOUS
<1>1. OnlyClients /\ Attended /\ pc # "panicked"
  BY DEF Init, Fresh, OnlyClients, Attended, Named
<1>2. balance \in [Chain -> Nat] /\ number \in [Chain -> Nat]
  BY InitInv DEF SetupInv, TypeOK
<1>3. \A c \in Chain : \E k \in Nat \ {0} : balance[c] = 10 * k
  <2> TAKE c \in Chain
  <2>1. balance[c] \in Nat /\ balance[c] > 0 /\ balance[c] % 10 = 0
    BY <1>2 DEF Fresh
  <2>2. balance[c] = 10 * (balance[c] \div 10) /\ balance[c] \div 10 \in Nat \ {0}
    BY <2>1
  <2> QED
    BY <2>2
<1>4. number["a"] > 0
  <2>1. number["a"] \in Numbers /\ "a" \in Chain
    BY DEF Init, Chain
  <2>2. number["a"] # 0 /\ number["a"] \in Nat
    BY <2>1, SetupAssumption
  <2> QED
    BY <2>2
<1>5. OnlyChannel
  BY <1>4 DEF Init, Fresh, OnlyChannel, Early, Chain
<1> QED
  BY <1>1, <1>3, <1>5 DEF FreshInv, Tenths, Init, Chain

(* The steps that change what one part speaks of.                          *)
LEMMA ClientsFresh ==
    ASSUME SetupInv, FreshInv, ~disturbed,
           query_clients_on_a \/ query_clients_on_b \/ \E c \in Chain : create_client(c)
    PROVE  FreshInv'
<1>1. /\ OnlyClients /\ OnlyChannel /\ Tenths /\ Attended
      /\ TypeOK /\ IdsInv /\ PhaseInv
  BY DEF FreshInv, SetupInv
<1>2. /\ pc \in {"clients_a", "clients_b", "create_a", "create_b"}
      /\ pc' \in {"clients_b", "create_a", "create_b", "spawn"}
      /\ UNCHANGED <<channels, number, balance, flow, connection, channel_id, seen>>
  BY DEF query_clients_on_a, query_clients_on_b, create_client, world, quiet, Chain
<1>3. flow = "none"
  BY <1>1, <1>2 DEF PhaseInv, Early
<1>4. OnlyChannel'
  BY <1>1, <1>2, <1>3 DEF OnlyChannel, OnOnlyClients, Early, Chain
<1>5. Tenths'
  BY <1>1, <1>2, <1>3 DEF Tenths, Sent, Chain
<1>6. Attended'
  BY <1>1, <1>2 DEF Attended, Named
<1>7. OnlyClients'
  <2>1. CASE query_clients_on_a
    BY <1>1, <2>1 DEF query_clients_on_a, OnlyClients, Named, world
  <2>2. CASE query_clients_on_b
    <3>1. ~found /\ pc = "clients_b" /\ UNCHANGED <<clients, client_id>> /\ pc' = "create_a"
      BY <1>1, <2>2 DEF query_clients_on_b, OnlyClients, IdsInv, world, Chain
    <3> QED
      BY <1>1, <3>1 DEF OnlyClients, Named
  <2>3. ASSUME NEW c \in Chain, create_client(c) PROVE OnlyClients'
    <3>1. /\ pc = IF c = "a" THEN "create_a" ELSE "create_b"
          /\ pc' = IF c = "a" THEN "create_b" ELSE "spawn"
          /\ clients[c] = <<>> /\ Append(<<>>, Peer(c)) = <<Peer(c)>>
      BY <1>1, <2>3 DEF create_client, OnlyClients, Chain
    <3>2. /\ clients' = [clients EXCEPT ![c] = <<Peer(c)>>]
          /\ client_id' = [client_id EXCEPT ![Peer(c)] = 1]
      BY <2>3, <3>1 DEF create_client
    <3>3. clients \in [Chain -> Seq(Chain \cup {"other"})] /\ client_id \in [Chain -> Nat]
      BY <1>1 DEF TypeOK
    <3>4. CASE c = "a"
      BY <1>1, <3>1, <3>2, <3>3, <3>4 DEF OnlyClients, Named, Chain, Peer
    <3>5. CASE c = "b"
      BY <1>1, <3>1, <3>2, <3>3, <3>5 DEF OnlyClients, Named, Chain, Peer
    <3> QED
      BY <3>4, <3>5 DEF Chain
  <2> QED
    BY <2>1, <2>2, <2>3
<1> QED
  BY <1>2, <1>4, <1>5, <1>6, <1>7 DEF FreshInv

LEMMA ChannelFresh ==
    ASSUME SetupInv, FreshInv, ~disturbed,
           SpawnRelayer \/ FindChannel \/ NoChannel \/ ConnectionOpened \/ ChannelOpened
    PROVE  FreshInv'
<1>1. /\ OnlyClients /\ OnlyChannel /\ Tenths /\ Attended
      /\ TypeOK /\ PhaseInv
  BY DEF FreshInv, SetupInv
<1>2. ~FindChannel
  BY <1>1 DEF FindChannel, Usable, OnlyChannel, Early
<1>3. /\ pc \in Named /\ pc' \in Named \ {"spawn", "confirm", "wait"}
      /\ seen \in {"no", "own"} /\ seen' \in {"no", seen}
      /\ UNCHANGED <<clients, client_id, channels, number, balance, flow, connection>>
  BY <1>1, <1>2 DEF SpawnRelayer, NoChannel, ConnectionOpened, ChannelOpened, WaitEnds, Attended,
     TypeOK, world, run, quiet, Named
<1>4. OnlyClients'
  BY <1>1, <1>3 DEF OnlyClients, Named
<1>5. Tenths'
  BY <1>1, <1>3 DEF Tenths, Sent
<1>6. Attended'
  <2>1. CASE SpawnRelayer
    <3>1. "first" \in Relayer /\ relayer'["first"] = "starting"
      BY <1>1, <2>1 DEF SpawnRelayer, TypeOK, Relayer
    <3> QED
      BY <1>3, <3>1 DEF Attended
  <2>2. CASE ~SpawnRelayer
    <3>1. pc # "spawn" /\ relayer' = relayer
      BY <1>2, <2>2 DEF NoChannel, ConnectionOpened, ChannelOpened, WaitEnds, quiet
    <3> QED
      BY <1>1, <1>3, <3>1 DEF Attended
  <2> QED
    BY <2>1, <2>2
<1>7. OnlyChannel'
  <2>1. CASE SpawnRelayer \/ NoChannel
    <3>1. pc \in Early /\ pc' \in Early /\ UNCHANGED channel_id
      BY <2>1 DEF SpawnRelayer, NoChannel, Early, run
    <3>2. flow = "none"
      BY <1>1, <3>1 DEF PhaseInv
    <3> QED
      BY <1>1, <1>3, <3>1, <3>2 DEF OnlyChannel, OnOnlyClients, Early, Chain
  <2>2. CASE ConnectionOpened
    BY <1>1, <1>3, <2>2 DEF ConnectionOpened, OnlyChannel, OnOnlyClients, Early, Chain
  <2>3. CASE ChannelOpened
    <3>1. seen = "own" /\ pc' = "restart"
      BY <1>3, <2>3 DEF ChannelOpened, WaitEnds
    <3>2. \E ch \in channels' : ch.on["a"] = channel_id'
      BY <1>3, <2>3, <3>1 DEF ChannelOpened
    <3> QED
      BY <1>1, <1>3, <3>1, <3>2 DEF OnlyChannel, OnOnlyClients, Early
  <2> QED
    BY <1>2, <2>1, <2>2, <2>3
<1> QED
  BY <1>3, <1>4, <1>5, <1>6, <1>7 DEF FreshInv, Named

(* A handshake is begun, or a tenth sent.                                  *)
LEMMA BegunFresh ==
    ASSUME SetupInv, FreshInv, ~disturbed,
           SubmitOpenInit \/ OpenInitFails \/ \E c \in Chain : SendTransfer(c) \/ CannotSend(c)
    PROVE  FreshInv'
<1>1. /\ OnlyClients /\ OnlyChannel /\ Tenths /\ Attended
      /\ TypeOK /\ PhaseInv
  BY DEF FreshInv, SetupInv
<1>2. ~OpenInitFails
  <2>1. CASE pc = "connection"
    <3>1. clients["a"] = <<"b">> /\ client_id["a"] = 1
      BY <1>1, <2>1 DEF OnlyClients, Named, Chain, Peer
    <3>2. Len(<<"b">>) = 1
      OBVIOUS
    <3> QED
      BY <2>1, <3>1, <3>2 DEF OpenInitFails, CanOpen
  <2>2. CASE pc = "channel"
    BY <1>1, <2>2 DEF OpenInitFails, CanOpen, OnlyChannel, PhaseInv
  <2> QED
    BY <2>1, <2>2 DEF OpenInitFails
<1>3. ASSUME NEW c \in Chain, pc = c
      PROVE  \E k \in Nat \ {0} : balance[c] = 10 * k /\ balance[c] \div 10 = k
  <2>1. ~Sent(c)
    BY <1>1, <1>3 DEF PhaseInv, Sent, Chain
  <2>2. PICK k \in Nat \ {0} : balance[c] = 10 * k
    BY <1>1, <2>1 DEF Tenths
  <2>3. (10 * k) \div 10 = k
    BY <2>2
  <2> QED
    BY <2>2, <2>3
<1>4. ASSUME NEW c \in Chain PROVE ~CannotSend(c)
  <2>1. SUFFICES ASSUME pc = c PROVE CanSend(c)
    BY DEF CannotSend
  <2>2. PICK ch \in channels : ch.on["a"] = channel_id
    BY <1>1, <2>1 DEF OnlyChannel, Chain
  <2>3. ch.on[c] = channel_id /\ channel_id # 0
    <3>1. ch.on["b"] = channel_id /\ channel_id > 0
      BY <1>1, <2>2 DEF OnlyChannel
    <3> QED
      BY <2>2, <3>1 DEF Chain
  <2>4. balance[c] \div 10 > 0
    BY <1>3, <2>1
  <2> QED
    BY <2>2, <2>3, <2>4 DEF CanSend, NamedEnd
<1>5. CASE SubmitOpenInit
  <2>1. /\ pc \in {"connection", "channel"} /\ flow' = pc /\ step' = 1 /\ pc' = "confirm"
        /\ connection' = IF pc = "channel" THEN connection
                         ELSE {[client |-> client_id, delay_fits |-> TRUE]}
        /\ UNCHANGED <<clients, channels, number, balance, relayer, client_id, channel_id, seen>>
    BY <1>5 DEF SubmitOpenInit, CanOpen, world
  <2>2. OnlyClients' /\ Attended'
    BY <1>1, <2>1 DEF OnlyClients, Attended, Named
  <2>3. flow \in {"none", "connection"}
    BY <1>1, <2>1 DEF PhaseInv, Early
  <2>4. Tenths'
    BY <1>1, <2>1, <2>3 DEF Tenths, Sent, Chain
  <2>5. connection' # {} /\ \A k \in connection' : OnOnlyClients(k)
    <3>1. CASE pc = "channel"
      BY <1>1, <2>1, <3>1 DEF OnlyChannel, PhaseInv
    <3>2. CASE pc = "connection"
      BY <1>1, <2>1, <3>2 DEF OnlyClients, Named, OnOnlyClients
    <3> QED
      BY <2>1, <3>1, <3>2
  <2>6. OnlyChannel'
    BY <1>1, <2>1, <2>5 DEF OnlyChannel, OnOnlyClients, Early, Chain
  <2> QED
    BY <2>1, <2>2, <2>4, <2>6 DEF FreshInv
<1>6. ASSUME NEW c \in Chain, SendTransfer(c) PROVE FreshInv'
  <2>1. /\ pc = c /\ flow' = c /\ step' = 1 /\ pc' = "confirm" /\ c \in {"a", "b"}
        /\ amount' = balance[c] \div 10
        /\ balance' = [balance EXCEPT ![c] = balance[c] - balance[c] \div 10]
        /\ UNCHANGED <<clients, channels, number, relayer, client_id, connection, channel_id, seen>>
    BY <1>6 DEF SendTransfer, Chain
  <2>2. OnlyClients' /\ Attended'
    BY <1>1, <2>1 DEF OnlyClients, Attended, Named
  <2>3. OnlyChannel'
    BY <1>1, <2>1 DEF OnlyChannel, OnOnlyClients, Early, Chain
  <2>4. PICK k \in Nat \ {0} : balance[c] = 10 * k /\ balance[c] \div 10 = k
    BY <1>3, <2>1
  <2>5. balance \in [Chain -> Nat]
    BY <1>1 DEF TypeOK
  <2>6. amount' = k /\ balance'[c] = 9 * k
    BY <2>1, <2>4, <2>5
  <2>7. ASSUME NEW d \in Chain, ~Sent(d)' PROVE \E j \in Nat \ {0} : balance'[d] = 10 * j
    <3>1. d # c /\ ~Sent(d)
      BY <1>1, <2>1, <2>7 DEF Sent, PhaseInv, Chain
    <3>2. balance'[d] = balance[d]
      BY <2>1, <2>5, <3>1
    <3> QED
      BY <1>1, <3>1, <3>2 DEF Tenths
  <2>8. Tenths'
    BY <2>1, <2>6, <2>7 DEF Tenths
  <2> QED
    BY <2>1, <2>2, <2>3, <2>8 DEF FreshInv, Chain
<1> QED
  BY <1>2, <1>4, <1>5, <1>6

(* The wait is never in vain: a relayer that runs finds the clients, and   *)
(* what the flow goes over rests on them.                                  *)
LEMMA CanCarry ==
    ASSUME SetupInv, FreshInv, ~disturbed, pc = "wait", step # LastStep,
           NEW r \in Relayer, relayer[r] = "running"
    PROVE  CanRelay(r)
<1>1. OnlyClients /\ OnlyChannel /\ Attended /\ TypeOK
  BY DEF FreshInv, SetupInv
<1>2. \A c \in Chain : Tracks(c, 1, Peer(c)) /\ client_id[c] = 1 /\ Peer(c) \in Chain
                       /\ Peer(Peer(c)) = c
  <2> TAKE c \in Chain
  <2>1. clients[c] = <<Peer(c)>> /\ client_id[c] = 1
    BY <1>1 DEF OnlyClients, Named
  <2>2. Len(<<Peer(c)>>) = 1 /\ <<Peer(c)>>[1] = Peer(c)
    OBVIOUS
  <2>3. Tracks(c, 1, Peer(c))
    BY <2>1, <2>2 DEF Tracks
  <2> QED
    BY <2>1, <2>3 DEF Peer, Chain
<1>3. NamedForRelayer
  BY <1>2 DEF NamedForRelayer
<1>4. ASSUME NEW k, OnOnlyClients(k) PROVE Served(k) /\ k.delay_fits
  BY <1>2, <1>3, <1>4 DEF OnOnlyClients, Served
<1>5. flow \in {"connection", "channel", "a", "b"}
  BY <1>1 DEF Attended, TypeOK, Flow
<1>6. \E k \in Way : Crosses(k)
  <2>1. CASE flow \in Chain
    <3>1. PICK ch \in channels : ch.on["a"] = channel_id
      BY <1>1, <2>1 DEF OnlyChannel
    <3>2. OnOnlyClients(ch) /\ ch.on["a"] = ch.on["b"]
      BY <1>1 DEF OnlyChannel
    <3>3. ch \in Way
      BY <2>1, <3>1, <3>2 DEF Way, NamedEnd, Chain
    <3> QED
      BY <1>4, <3>2, <3>3 DEF Crosses
  <2>2. CASE flow \notin Chain
    <3>1. PICK k \in connection : OnOnlyClients(k)
      BY <1>1, <1>5, <2>2 DEF OnlyChannel, Chain
    <3> QED
      BY <1>4, <2>2, <3>1 DEF Way, Crosses
  <2> QED
    BY <2>1, <2>2
<1>7. step \in 0..LastStep /\ step >= 1 /\ LastStep \in Nat
  BY <1>1 DEF Attended, TypeOK, LastStep
<1>8. step \in 1..(LastStep - 1)
  BY <1>7
<1> QED
  BY <1>6, <1>8 DEF CanRelay

LEMMA WaitFresh ==
    ASSUME SetupInv, FreshInv, ~disturbed, Acknowledged \/ WaitTimesOut
    PROVE  FreshInv'
<1>1. /\ OnlyClients /\ OnlyChannel /\ Tenths /\ Attended
      /\ TypeOK /\ PhaseInv
  BY DEF FreshInv, SetupInv
<1>2. CASE WaitTimesOut
  <2>1. /\ pc = "wait" /\ seen = "no"
        /\ \A r \in Relayer : relayer[r] # "starting" /\ ~CanRelay(r)
    BY <1>2 DEF WaitTimesOut
  <2>2. PICK r \in Relayer : relayer[r] = "running"
    BY <1>1, <2>1 DEF Attended, Named
  <2>3. step # LastStep
    BY <1>1, <2>1 DEF Attended
  <2> QED
    BY <2>1, <2>2, <2>3, CanCarry
<1>3. CASE Acknowledged
  <2>1. /\ pc = "wait" /\ flow \in Chain
        /\ pc' = IF balance[flow] > (amount * 90) \div 10 THEN "panicked"
                 ELSE IF flow = "a" THEN "b" ELSE "done"
        /\ UNCHANGED <<clients, channels, number, balance, flow, relayer, client_id, connection,
                       channel_id>>
        /\ seen' = "no"
    BY <1>3 DEF Acknowledged, WaitEnds, Compare, world
  <2>2. amount \in Nat /\ balance[flow] = 9 * amount
    BY <1>1, <2>1 DEF TypeOK, Tenths
  <2>3. (amount * 90) \div 10 = 9 * amount
    BY <2>2
  <2>4. pc' \in {"b", "done"}
    BY <2>1, <2>2, <2>3
  <2>5. OnlyClients' /\ Attended'
    BY <1>1, <2>1, <2>4 DEF OnlyClients, Attended, Named
  <2>6. OnlyChannel'
    BY <1>1, <2>1, <2>4 DEF OnlyChannel, OnOnlyClients, Early
  <2>7. Tenths'
    BY <1>1, <2>1, <2>4 DEF Tenths, Sent
  <2> QED
    BY <2>4, <2>5, <2>6, <2>7 DEF FreshInv
<1> QED
  BY <1>2, <1>3

(* At its last step a channel is opened, with the next numbers.            *)
LEMMA RelayFresh ==
    ASSUME SetupInv, FreshInv, ~disturbed, NEW r \in Relayer, Relay(r)
    PROVE  FreshInv'
<1>1. /\ OnlyClients /\ OnlyChannel /\ Tenths /\ Attended
      /\ TypeOK /\ PhaseInv /\ pc # "panicked"
  BY DEF FreshInv, SetupInv
<1>2. /\ UNCHANGED <<clients, balance, flow, relayer, pc, run, listening, disturbed>>
      /\ step \in 1..(LastStep - 1) /\ step' = step + 1
      /\ seen' = IF listening /\ seen = "no" /\ step' = LastStep THEN "own" ELSE seen
  BY DEF Relay, CanRelay
<1>3. LastStep' = LastStep /\ LastStep \in Nat
  BY <1>2 DEF LastStep
<1>4. step' >= 1
  BY <1>2, <1>3
<1>5. OnlyClients' /\ Tenths'
  BY <1>1, <1>2 DEF OnlyClients, Tenths, Sent, Named, run
<1>6. Attended'
  BY <1>1, <1>2, <1>3, <1>4 DEF Attended, TypeOK
<1>7. OnlyChannel'
  <2>1. CASE step' = LastStep /\ flow = "channel"
    <3>1. /\ channels' = channels \cup {Opened(k) : k \in connection}
          /\ number' = [c \in Chain |-> number[c] + 1]
      BY <2>1 DEF Relay
    <3>2. number["a"] \in Nat /\ number["a"] = number["b"] /\ number["a"] > 0
      BY <1>1 DEF TypeOK, OnlyChannel, Chain
    <3>3. number'["a"] = number'["b"] /\ number'["a"] > 0
      BY <3>1, <3>2 DEF Chain
    <3>4. ASSUME NEW k \in connection
          PROVE  OnOnlyClients(Opened(k)) /\ Opened(k).on["a"] = Opened(k).on["b"]
                 /\ Opened(k).on["a"] > 0
      BY <1>1, <3>2 DEF Opened, OnOnlyClients, OnlyChannel
    <3>5. \A ch \in channels' : OnOnlyClients(ch) /\ ch.on["a"] = ch.on["b"] /\ ch.on["a"] > 0
      BY <1>1, <3>1, <3>4 DEF OnlyChannel
    <3>6. (pc \notin Early /\ pc \notin {"restart", "a", "b"}) \/ pc \in {"restart", "a"}
      BY <1>1, <2>1 DEF PhaseInv, Early
    <3>7. UNCHANGED <<pc, connection, flow, channel_id>> /\ channels \subseteq channels'
      BY <1>2, <3>1 DEF run
    <3> QED
      BY <1>1, <2>1, <3>3, <3>5, <3>6, <3>7 DEF OnlyChannel, OnOnlyClients, Early
  <2>2. CASE ~(step' = LastStep /\ flow = "channel")
    <3>1. UNCHANGED <<channels, number>>
      BY <2>2 DEF Relay
    <3> QED
      BY <1>1, <1>2, <3>1 DEF OnlyChannel, OnOnlyClients, run
  <2> QED
    BY <2>1, <2>2
<1> QED
  BY <1>1, <1>2, <1>5, <1>6, <1>7 DEF FreshInv

LEMMA CarriedFresh ==
    ASSUME SetupInv, FreshInv, ~disturbed, ~disturbed',
           \/ Subscribe \/ RestartRelayer \/ RelayerAborted \/ \E c \in Chain : FirstBlock(c)
           \/ \E r \in Relayer : RelayerStarts(r)
    PROVE  FreshInv'
<1>1. /\ OnlyClients /\ OnlyChannel /\ Tenths /\ Attended
      /\ TypeOK /\ PhaseInv /\ pc # "panicked"
  BY DEF FreshInv, SetupInv
<1>2. /\ UNCHANGED <<clients, channels, number, balance, flow, client_id, connection, channel_id,
                     amount, seen, step>>
      /\ \/ pc = "confirm" /\ pc' = "wait"
         \/ pc = "restart" /\ pc' = "a"
         \/ pc = "block_a" /\ pc' = "block_b"
         \/ pc = "block_b" /\ pc' = "clients_a"
         \/ pc' = pc
  BY DEF Subscribe, RestartRelayer, RelayerAborted, RelayerStarts, FirstBlock, world, run, quiet
<1>3. OnlyClients'
  BY <1>1, <1>2 DEF OnlyClients, Named
<1>4. OnlyChannel'
  BY <1>1, <1>2 DEF OnlyChannel, OnOnlyClients, Early
<1>5. Tenths'
  <2>1. flow \in Chain /\ pc' \in {"confirm", "wait"} => pc \in {"confirm", "wait"}
    BY <1>2
  <2> QED
    BY <1>1, <1>2, <2>1 DEF Tenths, Sent
<1>6. Attended'
  <2>1. CASE Subscribe
    BY <1>1, <2>1 DEF Subscribe, Attended, Named, LastStep, run
  <2>2. CASE RestartRelayer
    <3>1. "second" \in Relayer /\ relayer'["second"] = "starting" /\ pc' = "a"
      BY <2>2 DEF RestartRelayer, Relayer
    <3> QED
      BY <1>1, <1>2, <3>1 DEF Attended
  <2>3. CASE RelayerAborted \/ \E r \in Relayer : RelayerStarts(r)
    <3>1. /\ UNCHANGED <<pc, flow, step, listening, seen>>
          /\ \A r \in Relayer : relayer[r] \in {"starting", "running"}
                                => relayer'[r] \in {"starting", "running"}
      BY <1>1, <2>3 DEF RelayerAborted, RelayerStarts, TypeOK, Relayer
    <3> QED
      BY <1>1, <3>1 DEF Attended, LastStep
  <2>4. CASE \E c \in Chain : FirstBlock(c)
    <3>1. pc' \in {"block_b", "clients_a"}
      BY <2>4 DEF FirstBlock
    <3> QED
      BY <1>1, <1>2, <3>1 DEF Attended, Named
  <2> QED
    BY <2>1, <2>2, <2>3, <2>4
<1> QED
  BY <1>1, <1>2, <1>3, <1>4, <1>5, <1>6 DEF FreshInv

(* Every acknowledgement is found under the channel's one number.          *)
LEMMA AckIsFound == ASSUME FreshInv, ~disturbed, NEW r \in Relayer PROVE ~AckNotFound(r)
BY DEF FreshInv, OnlyChannel, AckNotFound, NamedEnd

LEMMA StepFresh == SetupInv /\ FreshInv /\ [Next]_vars => FreshInv'
<1> SUFFICES ASSUME SetupInv, FreshInv, [Next]_vars, ~disturbed' PROVE FreshInv'
  BY DEF FreshInv
<1>1. CASE UNCHANGED vars
  BY <1>1 DEF vars, world, run, FreshInv, OnlyClients, OnlyChannel, OnOnlyClients, Tenths, Sent,
     Attended, LastStep
<1>2. CASE Test
  <2>1. ~disturbed
    BY <1>2 DEF Test, query_clients_on_a, query_clients_on_b, create_client, SpawnRelayer,
         FindChannel, NoChannel, SubmitOpenInit, OpenInitFails, Subscribe, ConnectionOpened,
         ChannelOpened, RestartRelayer, SendTransfer, CannotSend, Acknowledged, WaitTimesOut, quiet
  <2> QED
    BY <1>2, <2>1, ClientsFresh, ChannelFresh, BegunFresh, WaitFresh, CarriedFresh DEF Test
<1>3. CASE RelayerAborted \/ \E r \in Relayer : RelayerStarts(r) \/ Relay(r) \/ AckNotFound(r)
  <2>1. ~disturbed
    BY <1>3 DEF RelayerAborted, RelayerStarts, Relay, AckNotFound
  <2> QED
    BY <1>3, <2>1, CarriedFresh, RelayFresh, AckIsFound
<1>4. CASE \E c \in Chain : FirstBlock(c)
  <2>1. ~disturbed
    BY <1>4 DEF FirstBlock, quiet
  <2> QED
    BY <1>4, <2>1, CarriedFresh
<1>5. ~(CallFails \/ StreamEnds \/ OtherEvent \/ (\E r \in Relayer : RelayerLost(r))
        \/ \E c \in Chain : OtherClient(c))
  BY DEF CallFails, StreamEnds, OtherEvent, RelayerLost, OtherClient
<1> QED
  BY <1>1, <1>2, <1>3, <1>4, <1>5 DEF Next

(* On fresh chains the test panics only if something was disturbed: no     *)
(* wait times out, no transfer is refused and no balance differs           *)
(* (create.rs:27, tests.rs:113, tests.rs:145).                             *)
THEOREM FreshNeverPanics == Fresh /\ Spec => [](disturbed \/ pc # "panicked")
<1>1. FreshInv => disturbed \/ pc # "panicked"
  BY DEF FreshInv
<1> QED
  BY <1>1, InitFresh, StepFresh, Invariance, PTL DEF Spec
===============================================================================
