-------------------------------- MODULE Queue ---------------------------------
(***************************************************************************)
(* flush_message_batch of core/queue.rs: a list of messages goes out as    *)
(* one transaction, or in chunks if it outweighs a block.  Messages are    *)
(* numbered; of a list only the lengths count: lengths[i] is the encoded   *)
(* length of a transaction body that holds the first i messages, the       *)
(* current_len of estimate_weight after i rounds of its loop.              *)
(*                                                                         *)
(* A definition whose name has _variant in it is how the one below would   *)
(* read after a plausible mistake in the code; nothing uses it.            *)
(***************************************************************************)
EXTENDS Integers, Sequences

CONSTANTS
    Lists,       \* the lists of messages to flush, by their lengths
    EmptyBody,   \* body_bytes_len, the length of a body without messages
    Envelope,    \* bytes of a transaction around its body
    BlockMax,    \* block_max_weight; for CosmosClient, max_tx_size
    MaxCount     \* messages that estimate_weight lets pass

ASSUME QueueAssumption ==
    /\ EmptyBody \in Nat /\ Envelope \in Nat \ {0}
    /\ BlockMax \in Nat \ {0} /\ MaxCount \in Nat
    /\ Lists \subseteq Seq(Nat) \ {<<>>}   \* relay! flushes no empty list
    /\ \A l \in Lists : \A i \in 1..Len(l) :
          (IF i = 1 THEN EmptyBody ELSE l[i - 1]) < l[i]

VARIABLES
    lengths,     \* the list
    cosmos,      \* whether the sink is a CosmosClient
    pc,          \* "estimate", "whole", "chunks", then "ok" or "err"
    chunk,       \* messages per chunk
    next,        \* the first message the iterator over the chunks has left
    sent         \* the transactions that reached the sink, as [first, last]

vars == <<lengths, cosmos, pc, chunk, next, sent>>

n == Len(lengths)

Init ==
    /\ lengths \in Lists /\ cosmos \in BOOLEAN
    /\ pc = "estimate" /\ chunk = 0 /\ next = 1 /\ sent = <<>>

(* tx_len, with the length delimiter counted in the envelope.              *)
TxLen(body) == Envelope + body

(* CosmosClient refuses a list with a message at which the transaction is  *)
(* too large, in number or in bytes.                                       *)
Refused_variant == cosmos /\ n > MaxCount   \* no comparison with max_tx_size

Refused ==
    cosmos /\ \E i \in 1..n : i > MaxCount \/ TxLen(lengths[i]) > BlockMax

ratio == lengths[n] \div BlockMax

(* The list is refused, or the account's query fails.                      *)
EstimateFails ==
    /\ pc = "estimate" /\ pc' = "err"
    /\ UNCHANGED <<lengths, cosmos, chunk, next, sent>>

Estimate ==
    /\ pc = "estimate" /\ ~Refused
    /\ \/ ratio = 0 /\ pc' = "whole" /\ UNCHANGED chunk
       \/ ratio = 1 /\ pc' = "chunks" /\ chunk' = ratio * 2
       \/ ratio > 1 /\ pc' = "chunks" /\ chunk' = ratio + 2
    /\ UNCHANGED <<lengths, cosmos, next, sent>>

Tx(first, last) == [first |-> first, last |-> last]

SubmitWhole ==
    /\ pc = "whole" /\ pc' = "ok"
    /\ sent' = <<Tx(1, n)>>
    /\ UNCHANGED <<lengths, cosmos, chunk, next>>

(* The next of msgs.chunks(chunk); the last one may be shorter.            *)
ChunkEnd_variant == next + chunk   \* one message too many, past the end too
ChunkEnd == IF next + chunk - 1 < n THEN next + chunk - 1 ELSE n

SubmitChunk ==
    /\ pc = "chunks" /\ next <= n
    /\ sent' = Append(sent, Tx(next, ChunkEnd))
    /\ next' = ChunkEnd + 1
    /\ UNCHANGED <<lengths, cosmos, pc, chunk>>

AllChunksSent_variant ==   \* chunks_exact: a shorter last chunk is forgotten
    /\ pc = "chunks" /\ next + chunk > n + 1
    /\ pc' = "ok"
    /\ UNCHANGED <<lengths, cosmos, chunk, next, sent>>

AllChunksSent ==
    /\ pc = "chunks" /\ next > n
    /\ pc' = "ok"
    /\ UNCHANGED <<lengths, cosmos, chunk, next, sent>>

(* A failed submit ends the flush.  The chunks before stay sent, and the   *)
(* transaction itself may be executed after the wait for it is over.       *)
SubmitFails ==
    /\ \/ pc = "whole" /\ sent' \in {sent, <<Tx(1, n)>>}
       \/ pc = "chunks" /\ next <= n /\ sent' \in {sent, Append(sent, Tx(next, ChunkEnd))}
    /\ pc' = "err"
    /\ UNCHANGED <<lengths, cosmos, chunk, next>>

Next ==
    \/ EstimateFails \/ Estimate
    \/ SubmitWhole \/ SubmitChunk \/ AllChunksSent \/ SubmitFails

Spec == Init /\ [][Next]_vars

-------------------------------------------------------------------------------
TypeOK ==
    /\ lengths \in Lists /\ cosmos \in BOOLEAN
    /\ pc \in {"estimate", "whole", "chunks", "ok", "err"}
    /\ chunk \in Nat /\ next \in Nat \ {0}
    /\ sent \in Seq([first : 1..n, last : 1..n])

Delivered == IF sent = <<>> THEN 0 ELSE sent[Len(sent)].last

(* The transactions hold consecutive, non-empty runs of the list from its  *)
(* first message on, whatever fails, and all of it after Ok (queue.rs:44). *)
Consecutive ==
    /\ \A i \in 1..Len(sent) :
          /\ sent[i].first <= sent[i].last
          /\ sent[i].first = IF i = 1 THEN 1 ELSE sent[i - 1].last + 1
    /\ pc = "ok" => Delivered = n

(* A flush to a CosmosClient is all or nothing, in one transaction within  *)
(* max_tx_size: what would be split was refused, because estimate_weight   *)
(* compares the whole transaction and the ratio only its body              *)
(* (chain.rs:74, queue.rs:23).                                             *)
AllOrNothing ==
    cosmos => /\ sent \in {<<>>, <<Tx(1, n)>>}
              /\ sent # <<>> => n <= MaxCount /\ TxLen(lengths[n]) <= BlockMax

(* A flush delivers as Delivery promises: in order, nothing twice, all of  *)
(* it when it returns Ok (queue.rs:44-51).                                 *)
Deliveries ==
    INSTANCE Delivery WITH total <- n, delivered <- Delivered,
        result <- IF pc \in {"ok", "err"} THEN pc ELSE "none"

ImplementsDelivery == Deliveries!Spec
===============================================================================
