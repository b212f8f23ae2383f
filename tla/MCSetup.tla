------------------------------- MODULE MCSetup -------------------------------
(***************************************************************************)
(* Small instances of Setup for TLC.                                       *)
(***************************************************************************)
EXTENDS Setup

CONSTANT MaxClients   \* no chain has more clients than this

Clients ==
    [c \in Chain |-> {<<>>, <<Peer(c)>>, <<"other", Peer(c)>>}]

(* A number for each chain, or a client.                                   *)
Pair(m, n) == [c \in Chain |-> IF c = "a" THEN m ELSE n]

Old(on, client, fits) == [on |-> on, client |-> client, delay_fits |-> fits]

Channels ==
    {{}} \cup
    UNION {{{Old(Pair(1, 1), k, TRUE)},
            {Old(Pair(1, 1), k, FALSE)},
            {Old(Pair(1, 0), Pair(1, 0), TRUE), Old(Pair(2, 1), k, TRUE)},
            {Old(Pair(1, 2), k, TRUE), Old(Pair(0, 1), Pair(0, 1), TRUE)},
            {Old(Pair(1, 2), k, TRUE), Old(Pair(2, 1), k, FALSE)}}
           : k \in {Pair(1, 1), Pair(1, 2), Pair(2, 1), Pair(2, 2)}}

(* A connection that leads to a third chain, and one to b with a delay.    *)
Connections ==
    {[client |-> Pair(1, 0), delay_fits |-> TRUE],
     [client |-> Pair(1, 1), delay_fits |-> FALSE]}

FewClients == \A c \in Chain : Len(clients'[c]) <= MaxClients
===============================================================================
