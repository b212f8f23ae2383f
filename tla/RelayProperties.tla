--------------------------- MODULE RelayProperties ---------------------------
(***************************************************************************)
(* What the relayer task and the chains do together, and the inductive     *)
(* invariant behind it.                                                    *)
(***************************************************************************)
EXTENDS Relay

(* The header a transaction carries is at least as high as every proof it  *)
(* carries declares, so that no message waits for a later update: what     *)
(* the loop on proof_height_ref is there for (macros.rs:40).               *)
UpdateCoversProofs ==
    /\ pc \in {"flush", "broadcast", "confirm"} =>
          \A i \in DOMAIN batch : batch[i].proof <= header
    /\ \A c \in Chain : \A tx \in pool[c] :
          \A i \in DOMAIN tx.batch : tx.batch[i].proof <= tx.header

(* When a transaction of the relayer executes, each event the client moves *)
(* past that lies in the window the relayer scanned has its message        *)
(* executed, however stale the scan was and whichever call of relay() sent *)
(* it (macros.rs:9-28 scans, macros.rs:43-86 updates).                     *)
Within(e, lo, hi) == lo < e.height /\ e.height <= hi

WindowForwarded(c) ==
    \A tx \in pool[c] \ pool'[c], f \in Flow, k \in RelayedKind :
        (/\ client'[c] # client[c]
         /\ \E i \in DOMAIN log[Peer(c)] :
               LET e == log[Peer(c)][i] IN
               Relayable(e) /\ e.flow = f /\ e.kind = k /\ Within(e, client[c], tx.to))
            => Reached(c, f, Effect[MsgFor(k)])'

UpdateForwardsWindow == [][\A c \in Chain : WindowForwarded(c)]_vars

(* One uninterrupted run of relay() has no message executed twice: no end  *)
(* is opened by a second Try and no packet message is a no-op              *)
(* (provider.rs:121 scans from the client's height).                       *)
AtMostOnce ==
    restarts = 0 =>
        \A c \in Chain : \A i \in DOMAIN log[c] :
            /\ log[c][i].kind # "NoOp"
            /\ \A j \in 1..(i - 1) :
                  log[c][j].flow = log[c][i].flow => log[c][j].kind # log[c][i].kind

(* In such a run no transaction in a mempool is obsolete: its header       *)
(* extends a height the client trusts, and none of its handshake steps has *)
(* been done.  What is left for the chain to refuse it for are the heights *)
(* of its proofs, packets that are late, out of order or over a closed     *)
(* channel, and gas (client.rs:224, macros.rs:43).                         *)
NeverObsolete ==
    restarts = 0 =>
        \A c \in Chain : \A tx \in pool[c] :
            HeaderExtends(c, tx) /\ \A i \in DOMAIN tx.batch : StepIsNew(c, tx.batch, i)

(* One call of relay() waits for each transaction it sends, whatever       *)
(* becomes of it, so that it never signs with the sequence number of one   *)
(* that is still in the mempool (tx.rs:89).                                *)
NoSequenceConflict == (pc = "broadcast" /\ restarts = 0) => pool[sink] = {}

(* Every event below the height of the counterparty's client of its chain  *)
(* has been forwarded: "scan for new events in between the client state    *)
(* and the new finality event" (traits.rs:65).                             *)
NoEventSkipped ==
    \A c \in Chain : \A i \in DOMAIN log[c] :
        (Relayable(log[c][i]) /\ log[c][i].height <= client[Peer(c)])
            => Reached(Peer(c), log[c][i].flow, Effect[MsgFor(log[c][i].kind)])

(* "loop forever" (relay.rs:17): the task never returns.                   *)
RelayLoopsForever == pc # "stopped"

(* Every handshake, closing or packet that is started is relayed to its    *)
(* last step: "forwards any new IbcEvents to the counter party chain"      *)
(* (relay.rs:5).  Packets over a connection with a delay are apart: they   *)
(* are passed over, and the code that would send them later is commented   *)
(* out (events.rs:569, events.rs:698).                                     *)
LastStep ==
    [ OpenInitConnection |-> "OpenConfirmConnection", OpenInitChannel |-> "OpenConfirmChannel",
      CloseInitChannel |-> "CloseConfirmChannel", SendPacket |-> "AcknowledgePacket" ]

Completed(f) == \E c \in Chain : Reached(c, f, LastStep[Starts[f]])

FlowsComplete == \A f \in Flow \ Delayed : Started(f) ~> Completed(f)

(* "We want to send client update if packet messages exist but where not   *)
(* sent due to a connection delay": the other chain's client passes the    *)
(* block of such a packet (macros.rs:37).                                  *)
ClientPasses(c, f, k) ==
    \E i \in DOMAIN log[c] :
        log[c][i].flow = f /\ log[c][i].kind = k /\ log[c][i].height <= client[Peer(c)]

DelayedStillUpdates ==
    \A f \in Delayed : Started(f) ~> ClientPasses(Origin[f], f, Starts[f])

(* Chains and relayer together implement FlowProtocol: a handshake or      *)
(* packet step happens on a chain only after its predecessor happened on   *)
(* the other (events.rs:56 picks the message, macros.rs:86 the chain).     *)
StepsDone ==
    {s \in Chain \X Flow \X (Kind \ {"NoOp"}) : Reached(s[1], s[2], s[3])}

Flows == INSTANCE FlowProtocol WITH done <- StepsDone

ImplementsFlows == Flows!Spec

-------------------------------------------------------------------------------
(* Events are logged in block order, none above the committed height.      *)
Ordered(evs, h) ==
    \A i \in 1..Len(evs) :
        evs[i].height <= h /\ \A j \in 1..i : evs[j].height <= evs[i].height

LogOrdered == \A c \in Chain : Ordered(log[c], height[c])

(* b has a message for each event of the blocks (lo, hi] in evs before     *)
(* position n.                                                             *)
CoversUpTo(b, evs, lo, hi, n) ==
    \A i \in 1..Len(evs) :
        (i < n /\ Relayable(evs[i]) /\ lo < evs[i].height /\ evs[i].height <= hi)
            => \E j \in 1..Len(b) : b[j].msg = MsgFor(evs[i].kind) /\ b[j].flow = evs[i].flow

Covers(b, evs, lo, hi) == CoversUpTo(b, evs, lo, hi, Len(evs) + 1)

(* Each message of b was made of an event in evs.                          *)
MadeFrom(b, evs) ==
    \A j \in 1..Len(b) : \E i \in 1..Len(evs) :
        /\ evs[i].kind \in RelayedKind
        /\ b[j].msg = MsgFor(evs[i].kind) /\ b[j].flow = evs[i].flow

ProofsUpTo(b, h) == \A j \in 1..Len(b) : b[j].proof <= h

Scanned == {"parse", "await", "rescan", "header", "flush", "broadcast", "confirm"}
Translated == Scanned \ {"parse"}

(* The pass under way.                                                     *)
PassInv ==
    /\ pc \notin Scanned => batch = <<>>
    /\ ProofsUpTo(batch, ref)
    /\ MadeFrom(batch, log[src])
    /\ pc \in Scanned \cup {"blocks"} => from <= client[sink]
    /\ pc \in Scanned => /\ to <= height[src] /\ cursor <= Len(log[src]) + 1
                         /\ CoversUpTo(batch, log[src], from, to, cursor)
    /\ pc \in Translated => Covers(batch, log[src], from, to)
    /\ pc \in {"rescan", "header"} => ref <= height[src]
    /\ pc \in {"flush", "broadcast", "confirm"} => ref <= header

(* A transaction in the mempool, whoever waits for it.                     *)
TxInv(c, tx) ==
    /\ tx.from <= client[c] /\ tx.to <= height[Peer(c)]
    /\ ProofsUpTo(tx.batch, tx.header)
    /\ MadeFrom(tx.batch, log[Peer(c)])
    /\ Covers(tx.batch, log[Peer(c)], tx.from, tx.to)

PoolInv == \A c \in Chain : \A tx \in pool[c] : TxInv(c, tx)

IInv == TypeOK /\ LogOrdered /\ PassInv /\ PoolInv

-------------------------------------------------------------------------------
(* What one uninterrupted call of relay() adds to IInv: no other           *)
(* transaction moves the clients it reads.                                 *)

(* No event is logged twice on a chain.                                    *)
LoggedOnce(evs) ==
    \A i \in 1..Len(evs) :
        /\ evs[i].kind # "NoOp"
        /\ \A j \in 1..(i - 1) : evs[j].flow = evs[i].flow => evs[j].kind # evs[i].kind

(* A relayed step of c was caused by an event of the other chain that c's  *)
(* client has passed.                                                      *)
Caused(c) ==
    \A i \in 1..Len(log[c]) :
        log[c][i].kind \in StartKind \/
        \E k \in 1..Len(log[Peer(c)]) :
            LET e == log[Peer(c)][k] IN
            /\ e.kind \in RelayedKind /\ e.height <= client[c]
            /\ e.flow = log[c][i].flow /\ Effect[MsgFor(e.kind)] = log[c][i].kind

(* The messages of b were made of events of the blocks (lo, hi] in evs     *)
(* before position n, no two of one event.                                 *)
MadeWithin(b, evs, lo, hi, n) ==
    \A j \in 1..Len(b) : \E i \in 1..Len(evs) :
        /\ i < n /\ lo < evs[i].height /\ evs[i].height <= hi
        /\ evs[i].kind \in RelayedKind
        /\ b[j].msg = MsgFor(evs[i].kind) /\ b[j].flow = evs[i].flow

NoneRepeated(b) == \A j \in 1..Len(b) : ~Repeated(b, j)

SessionPass ==
    /\ pc \in Scanned \cup {"blocks"} /\ (pc = "confirm" => sent = "pooled") => from = client[sink]
    /\ pc = "parse" =>
          /\ from < to
          /\ \A i \in 1..Len(log[src]) : cursor <= i => from < log[src][i].height
    /\ pc \in Scanned => /\ MadeWithin(batch, log[src], from, to, cursor)
                         /\ NoneRepeated(batch)
    /\ pc \in {"header", "flush", "broadcast", "confirm"} => trusted \in consensus[sink]
    /\ pc \in {"flush", "broadcast", "confirm"} => trusted < header /\ to <= header

OwnTx == [header |-> header, trusted |-> trusted, batch |-> batch, from |-> from, to |-> to]

SessionTx(c, tx) ==
    /\ tx.from = client[c] /\ tx.to <= tx.header /\ HeaderExtends(c, tx)
    /\ MadeWithin(tx.batch, log[Peer(c)], tx.from, tx.to, Len(log[Peer(c)]) + 1)
    /\ NoneRepeated(tx.batch)

SessionPool ==
    \A c \in Chain :
        /\ pool[c] # {} =>
              \/ pc = "stopped"
              \/ pc = "confirm" /\ sent = "pooled" /\ c = sink /\ pool[c] = {OwnTx}
        /\ \A tx \in pool[c] : SessionTx(c, tx) /\ pool[c] = {tx}

SessionInv ==
    /\ \A c \in Chain : client[c] \in consensus[c]
    /\ restarts = 0 => /\ \A c \in Chain : LoggedOnce(log[c]) /\ Caused(c)
                       /\ SessionPass /\ SessionPool
===============================================================================
