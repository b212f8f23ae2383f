------------------------------ MODULE RelayPace ------------------------------
(***************************************************************************)
(* Chains whose blocks come only while the task waits for something, with  *)
(* users who go on at that pace or who wait for the task to be idle, and   *)
(* what the relayer may pass over then.                                    *)
(***************************************************************************)
EXTENDS RelayProperties

CONSTANT MaxHeight   \* a chain commits beyond this height only for the relayer

AwaitedBlock(c) == pc = "await" /\ src = c /\ height[c] < ref

(* The task waits for a finality event, for the height of its proofs, for  *)
(* its transaction, or to be called again.                                 *)
Idle == pc = "select" /\ \A c \in Chain : notifs[c] = 0
Waits ==
    \/ Idle \/ AwaitedBlock(src) \/ pc = "stopped"
    \/ pc = "confirm" /\ sent \in {"pooled", "lost"}

(* A pass, apart from these waits, takes less than a block of either chain. *)
PacedNext == RelayStep \/ Fault \/ (Waits /\ ChainStep)

PacedSpec == Init /\ [][PacedNext]_vars

(***************************************************************************)
(* The same pace without failures, and with users who start flows only     *)
(* while the task is idle: the blocks it waits for hold nothing to relay   *)
(* but what it does itself.                                                *)
(***************************************************************************)
EmptyBlock(c) == Waits /\ height[c] < MaxHeight /\ NewBlock(c, <<>>)
AwaitedEmptyBlock(c) == AwaitedBlock(c) /\ NewBlock(c, <<>>)
TxBlock(c) == AcceptTx(c) \/ RejectTx(c)
UserBlock(c) ==
    /\ Idle /\ height[c] < MaxHeight
    /\ \E n \in 1..MaxUserTx : \E fs \in [1..n -> Flow] : NewBlock(c, fs)

QuietNext ==
    \/ RelayStep
    \/ \E c \in Chain : EmptyBlock(c) \/ AwaitedEmptyBlock(c) \/ TxBlock(c) \/ UserBlock(c)

Fairness ==
    /\ WF_vars(RelayStep)
    /\ \A c \in Chain : WF_vars(AwaitedEmptyBlock(c)) /\ WF_vars(TxBlock(c))

QuietSpec == Init /\ [][QuietNext]_vars /\ Fairness

-------------------------------------------------------------------------------
(* What PacedSpec keeps.                                                   *)

(* An event below the client's height that was not forwarded is in a block *)
(* whose header an update carried: the one block that may come between the *)
(* scan (macros.rs:9) and the header fetch (macros.rs:43).                 *)
OnlyHeaderBlocksSkipped ==
    \A c \in Chain : \A i \in DOMAIN log[c] :
        (/\ Relayable(log[c][i])
         /\ log[c][i].height <= client[Peer(c)] /\ log[c][i].height \notin consensus[Peer(c)])
            => Reached(Peer(c), log[c][i].flow, Effect[MsgFor(log[c][i].kind)])

(* One block at most comes between the scan of a pass and its header.      *)
PacedPass ==
    /\ pc \notin Scanned => ref = 1
    /\ pc = "parse" => height[src] = to
    /\ pc \in {"parse", "await"} => ref <= to + 1
    /\ pc \in {"await", "rescan", "header"} => height[src] <= to + 1
    /\ pc \in {"flush", "broadcast", "confirm"} => header <= to + 1 /\ header <= height[src]

PacedInv ==
    /\ PacedPass
    /\ \A c \in Chain :
          /\ client[c] <= height[Peer(c)]
          /\ \A tx \in pool[c] : tx.header <= tx.to + 1 /\ tx.header <= height[Peer(c)]
    /\ OnlyHeaderBlocksSkipped
===============================================================================
