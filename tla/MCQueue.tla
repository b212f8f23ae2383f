------------------------------- MODULE MCQueue --------------------------------
(***************************************************************************)
(* Small instances of Queue for TLC: every list of up to MaxMessages       *)
(* messages whose lengths are in Sizes.                                    *)
(***************************************************************************)
EXTENDS Queue, SequencesExt

CONSTANTS MaxMessages, Sizes

Lengths(sizes) ==
    [i \in DOMAIN sizes |-> FoldSeq(+, EmptyBody, SubSeq(sizes, 1, i))]

SmallLists == {Lengths(s) : s \in SeqOf(Sizes, MaxMessages) \ {<<>>}}
===============================================================================
