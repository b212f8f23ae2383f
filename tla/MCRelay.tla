------------------------------- MODULE MCRelay -------------------------------
(***************************************************************************)
(* Small instances of Relay for TLC: the flows and the bounds.             *)
(***************************************************************************)
EXTENDS RelayPace

CONSTANTS
    CapHeight,     \* a chain never commits beyond this height
    MaxRestarts,   \* calls of relay() after the first
    f1, f2, f3, f4, f5   \* flows

(* The two ends of a channel have one id, or, for the flows fs, two.       *)
Ids(fs) ==
    [c \in Chain |-> [f \in Flow |-> IF c = ChainB /\ f \in fs THEN "channel-1" ELSE "channel-0"]]
SameIds == Ids({})
OtherIds == Ids({f1, f5})

FromBoth == [f \in Flow |-> IF f \in {f1, f2, f5} THEN ChainA ELSE ChainB]
AllFamilies ==
    [f \in Flow |-> CASE f \in {f1, f5} -> "SendPacket" [] f = f2 -> "OpenInitConnection"
                      [] f = f3 -> "OpenInitChannel" [] f = f4 -> "CloseInitChannel"]

(* Nothing is ever late, closed or out of order; or f1 times out, f4 closes  *)
(* the channel of both packets, and f5 comes after f1 on it.                *)
Never == [f \in Flow |-> 0]
Soon == [f \in Flow |-> IF f = f1 THEN 4 ELSE 0]
NoOther == [f \in Flow |-> {}]
Closing == [f \in Flow |-> IF f \in {f1, f5} THEN {f4} \cap Flow ELSE {}]
AfterF1 == [f \in Flow |-> IF f = f5 THEN {f1} ELSE {}]

(* Two packets to receive cost more than a transaction pays for.            *)
Costs == [m \in Msg |-> IF m = "MsgRecvPacket" THEN 2 ELSE 1]

InBounds ==
    /\ \A c \in Chain :
          \/ height'[c] <= MaxHeight
          \/ height'[c] = height[c]
          \/ height'[c] <= CapHeight /\ (pool'[c] # pool[c] \/ AwaitedBlock(c))
    /\ restarts' <= MaxRestarts

(* Blocks only while the task waits, without failures.                     *)
SoundSpec == Init /\ [][RelayStep \/ (Waits /\ ChainStep)]_vars
===============================================================================
