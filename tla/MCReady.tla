------------------------------- MODULE MCReady -------------------------------
(***************************************************************************)
(* Small instances of ReadyPackets for TLC.                                *)
(***************************************************************************)
EXTENDS ReadyPackets, FiniteSets

CONSTANTS
    MaxSource, MaxSink,   \* the last blocks of the chains
    MaxUpdates,           \* no client has more heights than this
    MaxMeanwhile          \* blocks either adds while the call is under way

(* The chains are not followed once the call has returned or a query has   *)
(* failed.                                                                 *)
InBounds ==
    /\ (pc \in {"done", "failed"} \/ missed) => chainVars' = chainVars
    /\ height'["source"] <= MaxSource /\ height'["sink"] <= MaxSink
    /\ \A c \in Chain : Cardinality(updates'[c]) <= MaxUpdates
    /\ \/ pc \in Chain
       \/ \A c \in Chain : height'[c] - readAt[c] <= MaxMeanwhile

(* The last packet has both timeouts, the one before it none.              *)
Heights == [p \in Packet |-> IF p = Cardinality(Packet) THEN 3 ELSE 0]
Times == [p \in Packet |-> IF p = Cardinality(Packet) THEN 3 ELSE 0]
SameClock == [c \in Chain |-> 0]
===============================================================================
