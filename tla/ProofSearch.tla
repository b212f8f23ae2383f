----------------------------- MODULE ProofSearch ------------------------------
(***************************************************************************)
(* find_suitable_proof_height_for_client of primitives/funcs.rs: which of  *)
(* the heights that a light client knows is the first that serves a proof. *)
(* Heights are looked up one query at a time, on a client that may be      *)
(* updated in between.  Block times grow with the height, so that the      *)
(* comparison with timestamp_to_match is one with the height `reached'.    *)
(*                                                                         *)
(* A definition whose name has _variant in it is how the one below would   *)
(* read after a plausible mistake in the code; nothing uses it.            *)
(***************************************************************************)
EXTENDS Integers

CONSTANT MaxHeight   \* bound on the heights

ASSUME HeightAssumption == MaxHeight \in Nat

Heights == 1..MaxHeight

VARIABLES
    updated,       \* heights with a consensus state
    start_height, latest_client_height,
    reached,       \* first height not before timestamp_to_match, 0 for None
    pc,            \* "search" or "done"
    start, end,    \* start is also the loop variable of the linear search
    last_known_valid_height, result,   \* 0 for None
    failed         \* whether a query has failed (history)

range == <<start_height, latest_client_height, reached>>
vars == <<updated, range, pc, start, end, last_known_valid_height, result, failed>>

timed == reached # 0

Init ==
    /\ updated \in SUBSET Heights
    /\ start_height \in Heights /\ latest_client_height \in updated
    /\ reached \in 0..MaxHeight
    /\ ~timed => start_height <= latest_client_height   \* checked by the callers
    /\ pc = "search" /\ start = start_height /\ end = latest_client_height
    /\ last_known_valid_height = 0 /\ result = 0 /\ failed = FALSE

(* query_client_consensus; an error and a missing height look the same.    *)
Finds(h) == h \in updated /\ UNCHANGED failed
Misses(h) == (h \notin updated /\ UNCHANGED failed) \/ failed' = TRUE

Return(h) ==
    /\ pc' = "done" /\ result' = h
    /\ UNCHANGED <<updated, range, start, end, last_known_valid_height>>

(* An update of the client, to a new height.                               *)
ClientUpdate ==
    /\ pc = "search"
    /\ \E h \in Heights : (\A u \in updated : u < h) /\ updated' = updated \cup {h}
    /\ UNCHANGED <<range, pc, start, end, last_known_valid_height, result, failed>>

-------------------------------------------------------------------------------
(* Without a timestamp, every height in turn.                              *)
LinearMiss ==
    /\ pc = "search" /\ ~timed /\ start <= end /\ Misses(start)
    /\ start' = start + 1
    /\ UNCHANGED <<updated, range, pc, end, last_known_valid_height, result>>

LinearHit_variant ==   \* the height after the one found
    /\ pc = "search" /\ ~timed /\ start <= end /\ Finds(start)
    /\ Return(start + 1)

LinearHit == pc = "search" /\ ~timed /\ start <= end /\ Finds(start) /\ Return(start)

LinearEnd == pc = "search" /\ ~timed /\ start > end /\ Return(0) /\ UNCHANGED failed

-------------------------------------------------------------------------------
(* With a timestamp, by halves.                                            *)
EmptyRange == pc = "search" /\ timed /\ start > end /\ Return(0) /\ UNCHANGED failed

mid == (end + start) \div 2

Looping == pc = "search" /\ timed /\ start <= end /\ end - start > 1

SkipMissing_variant ==   \* without start += 1
    /\ Looping /\ Misses(mid)
    /\ UNCHANGED <<updated, range, pc, start, end, last_known_valid_height, result>>

SkipMissing ==
    /\ Looping /\ Misses(mid)
    /\ start' = start + 1
    /\ UNCHANGED <<updated, range, pc, end, last_known_valid_height, result>>

TooEarly_variant ==   \* mid + 2
    /\ Looping /\ Finds(mid) /\ mid < reached
    /\ start' = mid + 2
    /\ UNCHANGED <<updated, range, pc, end, last_known_valid_height, result>>

TooEarly ==
    /\ Looping /\ Finds(mid) /\ mid < reached
    /\ start' = mid + 1
    /\ UNCHANGED <<updated, range, pc, end, last_known_valid_height, result>>

LateEnough ==
    /\ Looping /\ Finds(mid) /\ mid >= reached
    /\ last_known_valid_height' = mid /\ end' = mid
    /\ UNCHANGED <<updated, range, pc, start, result>>

Narrowed == pc = "search" /\ timed /\ start <= end /\ end - start <= 1

LastHit_variant == Narrowed /\ Finds(start) /\ Return(start)   \* no timestamp compared

LastHit == Narrowed /\ Finds(start) /\ start >= reached /\ Return(start)

LastMiss ==
    /\ Narrowed /\ ((Finds(start) /\ start < reached) \/ Misses(start))
    /\ Return(last_known_valid_height)

Lookup ==
    \/ LinearMiss \/ LinearHit \/ LinearEnd
    \/ EmptyRange \/ SkipMissing \/ TooEarly \/ LateEnough \/ LastHit \/ LastMiss

(* An answer that is no consensus state ends the search.                   *)
Undecodable == (Looping \/ Narrowed) /\ Return(0) /\ failed' = TRUE

Next == Lookup \/ Undecodable \/ ClientUpdate

(* The task is polled, and its queries are answered or fail; no answer is  *)
(* bound to be undecodable.                                                *)
Spec == Init /\ [][Next]_vars /\ WF_vars(Lookup)

-------------------------------------------------------------------------------
TypeOK ==
    /\ updated \subseteq Heights
    /\ start_height \in Heights /\ latest_client_height \in Heights
    /\ reached \in 0..MaxHeight
    /\ pc \in {"search", "done"}
    /\ start \in 1..(MaxHeight + 1) /\ end \in Heights
    /\ last_known_valid_height \in 0..MaxHeight /\ result \in 0..MaxHeight
    /\ failed \in BOOLEAN

Suitable(h) == h \in updated /\ h >= reached

InRange(h) == start_height <= h /\ h <= latest_client_height

IsFirst(h) == Suitable(h) /\ InRange(h) /\ \A g \in start_height..(h - 1) : ~Suitable(g)

(* `end - start' is computed on u64: the halving never takes start beyond  *)
(* end, neither by steps of one nor by jumps (funcs.rs:173).               *)
NoUnderflow ==
    timed => start <= end \/ (start = start_height /\ end = latest_client_height)

(* What is returned serves the proof: a height in the range, whose         *)
(* consensus state exists and is not before the timestamp, whatever        *)
(* queries fail and updates land in between (funcs.rs:133).                *)
ResultSuitable == result # 0 => Suitable(result) /\ InRange(result)

(* The linear search finds the first height there is, if no query fails    *)
(* (funcs.rs:146).                                                         *)
LinearFindsFirst == pc = "done" /\ ~timed /\ ~failed => IsFirst(result)

(* On a client that was updated at every height in the range, the halving  *)
(* finds the first suitable one, except that it may overlook the latest    *)
(* height of all (funcs.rs:173).                                           *)
GaplessFindsFirst ==
    pc = "done" /\ timed /\ ~failed
        /\ start_height..latest_client_height \subseteq updated
            => \/ IsFirst(result)
               \/ result = 0 /\ (\A h \in start_height..(latest_client_height - 1) : ~Suitable(h))

(* The search ends, with missing heights too (funcs.rs:189).               *)
Terminates == <>(pc = "done")
===============================================================================
