-------------------------- MODULE ProofSearchProofs ---------------------------
(***************************************************************************)
(* Proofs about ProofSearch: for heights of any size, any client, and any  *)
(* queries that fail.                                                      *)
(***************************************************************************)
EXTENDS ProofSearch, TLAPS

(* Where the search stands: the window is inside the range, and its end is *)
(* the latest height or the last one found suitable.                       *)
Window ==
    /\ latest_client_height \in updated
    /\ start_height <= start /\ end <= latest_client_height
    /\ ~timed => /\ end = latest_client_height
                 /\ start_height <= end /\ start <= end + 1
    /\ IF last_known_valid_height = 0 THEN end = latest_client_height
       ELSE last_known_valid_height = end /\ Suitable(end) /\ start_height <= end

Gapless == start_height..latest_client_height \subseteq updated

(* Heights below the window do not serve the proof.                        *)
Passed ==
    ~failed /\ (timed => Gapless) => \A h \in start_height..(start - 1) : ~Suitable(h)

SInv ==
    /\ TypeOK /\ Window /\ NoUnderflow /\ Passed
    /\ ResultSuitable /\ LinearFindsFirst /\ GaplessFindsFirst

(* The middle of a window of three or more heights is inside it.           *)
LEMMA MidInside ==
    ASSUME TypeOK, end - start > 1
    PROVE  mid \in (start + 1)..(end - 1)
BY HeightAssumption DEF TypeOK, mid, Heights

-------------------------------------------------------------------------------
LEMMA SInvInit == Init => SInv
<1> SUFFICES ASSUME Init PROVE SInv
  OBVIOUS
<1>1. TypeOK
  <2>1. updated \subseteq Heights /\ latest_client_height \in Heights
    BY DEF Init
  <2>2. start \in Heights /\ end \in Heights
    BY <2>1 DEF Init
  <2>3. /\ start_height \in Heights /\ reached \in 0..MaxHeight /\ pc = "search"
        /\ last_known_valid_height = 0 /\ result = 0 /\ failed = FALSE
    BY DEF Init
  <2>4. start \in 1..(MaxHeight + 1) /\ 0 \in 0..MaxHeight
    BY <2>2, HeightAssumption DEF Heights
  <2> QED
    BY <2>1, <2>2, <2>3, <2>4 DEF TypeOK
<1>2. Window /\ NoUnderflow
  BY <1>1, HeightAssumption DEF Init, TypeOK, Window, NoUnderflow, Heights
<1>3. Passed
  BY <1>1, HeightAssumption DEF Init, TypeOK, Passed, Heights
<1>4. ResultSuitable /\ LinearFindsFirst /\ GaplessFindsFirst
  BY DEF Init, ResultSuitable, LinearFindsFirst, GaplessFindsFirst
<1> QED
  BY <1>1, <1>2, <1>3, <1>4 DEF SInv

(* A client's update is above the range and changes nothing in it.         *)
LEMMA UpdateKeeps == SInv /\ ClientUpdate => SInv'
<1> SUFFICES ASSUME SInv, ClientUpdate PROVE SInv'
  OBVIOUS
<1> PICK u \in Heights : (\A g \in updated : g < u) /\ updated' = updated \cup {u}
  BY DEF ClientUpdate
<1>1. /\ pc = "search" /\ pc' = pc
      /\ UNCHANGED <<start_height, latest_client_height, reached, start, end>>
      /\ UNCHANGED <<last_known_valid_height, result, failed>>
  BY DEF ClientUpdate, range
<1>2. latest_client_height < u /\ timed' = timed
  BY <1>1 DEF SInv, Window, timed
<1>3. TypeOK'
  BY <1>1 DEF SInv, TypeOK
<1>4. /\ \A h \in Heights : Suitable(h) => Suitable(h)'
      /\ \A h \in Heights : h <= latest_client_height => (Suitable(h)' <=> Suitable(h))
  BY <1>1, <1>2, HeightAssumption DEF Suitable, Heights, SInv, TypeOK
<1>5. Window'
  BY <1>1, <1>2, <1>4 DEF SInv, Window, TypeOK
<1>6. NoUnderflow'
  BY <1>1, <1>2 DEF SInv, NoUnderflow
<1>7. Passed'
  <2>1. Gapless' => Gapless
    BY <1>1, <1>2, HeightAssumption DEF Gapless, SInv, TypeOK, Heights
  <2>2. start - 1 <= latest_client_height \/ start = start_height
    BY HeightAssumption DEF SInv, TypeOK, Window, NoUnderflow, Heights
  <2> QED
    BY <1>1, <1>2, <1>4, <2>1, <2>2, HeightAssumption DEF SInv, Passed, TypeOK, Heights
<1>8. ResultSuitable'
  BY <1>1, <1>4, HeightAssumption DEF SInv, ResultSuitable, TypeOK, InRange, Heights
<1> QED
  BY <1>1, <1>3, <1>5, <1>6, <1>7, <1>8 DEF SInv, LinearFindsFirst, GaplessFindsFirst

(* Moving start over heights that do not serve the proof.                  *)
LEMMA StartMoves ==
    ASSUME SInv, pc = "search", start <= end, NEW s \in (start + 1)..(MaxHeight + 1),
           timed => s <= end, ~timed => s <= end + 1,
           ~failed' /\ (timed => Gapless) =>
               ~failed /\ \A h \in start..(s - 1) : start_height <= h => ~Suitable(h),
           failed' \in BOOLEAN, start' = s,
           UNCHANGED <<updated, range, pc, end, last_known_valid_height, result>>
    PROVE  SInv'
<1>1. UNCHANGED <<updated, start_height, latest_client_height, reached, pc, end,
                  last_known_valid_height, result>>
  BY DEF range
<1>2. start \in Nat /\ end \in Nat /\ start_height \in Nat /\ s \in Nat
  BY HeightAssumption DEF SInv, TypeOK, Heights
<1>3. TypeOK' /\ timed' = timed /\ Gapless' = Gapless
  BY <1>1, HeightAssumption DEF SInv, TypeOK, timed, Gapless
<1>4. Window'
  BY <1>1, <1>2, <1>3 DEF SInv, Window, Suitable
<1>5. NoUnderflow'
  BY <1>1, <1>2, <1>3 DEF NoUnderflow
<1>6. Passed'
  <2> SUFFICES ASSUME ~failed', timed => Gapless, NEW h \in start_height..(s - 1)
               PROVE  ~Suitable(h)
    BY <1>1, <1>3 DEF Passed, Suitable
  <2>1. CASE h < start
    BY <1>2, <2>1 DEF SInv, Passed
  <2>2. CASE h >= start
    BY <1>2, <2>2
  <2> QED
    BY <1>2, <2>1, <2>2
<1>7. ResultSuitable'
  BY <1>1 DEF SInv, ResultSuitable, Suitable, InRange
<1> QED
  BY <1>1, <1>3, <1>4, <1>5, <1>6, <1>7 DEF SInv, LinearFindsFirst, GaplessFindsFirst

(* The search returns a suitable height of the range, or 0.                *)
LEMMA ReturnKeeps ==
    ASSUME SInv, NEW r \in 0..MaxHeight, Return(r), failed' \in BOOLEAN,
           r # 0 => Suitable(r) /\ InRange(r),
           ~timed /\ ~failed' => ~failed /\ IsFirst(r),
           timed /\ ~failed' /\ Gapless =>
               \/ IsFirst(r)
               \/ r = 0 /\ \A h \in start_height..(latest_client_height - 1) : ~Suitable(h),
           ~failed' => ~failed
    PROVE  SInv'
<1>1. /\ pc' = "done" /\ result' = r
      /\ UNCHANGED <<updated, start_height, latest_client_height, reached, start, end>>
      /\ UNCHANGED last_known_valid_height
  BY DEF Return, range
<1>2. /\ timed' = timed /\ Gapless' = Gapless
      /\ \A h : Suitable(h)' = Suitable(h) /\ InRange(h)' = InRange(h)
      /\ IsFirst(r)' = IsFirst(r)
  BY <1>1 DEF timed, Gapless, Suitable, InRange, IsFirst
<1>3. TypeOK'
  BY <1>1 DEF SInv, TypeOK
<1>4. Window' /\ NoUnderflow'
  BY <1>1, <1>2 DEF SInv, Window, NoUnderflow, Suitable
<1>5. Passed'
  BY <1>1, <1>2 DEF SInv, Passed, Suitable
<1>6. ResultSuitable'
  BY <1>1, <1>2 DEF ResultSuitable, Suitable, InRange
<1>7. LinearFindsFirst' /\ GaplessFindsFirst'
  BY <1>1, <1>2 DEF LinearFindsFirst, GaplessFindsFirst, Gapless, IsFirst, Suitable, InRange
<1> QED
  BY <1>3, <1>4, <1>5, <1>6, <1>7 DEF SInv

(* A height in the range that was looked up in vain does not serve the     *)
(* proof, as long as no query failed.                                      *)
LEMMA MissesMean ==
    ASSUME NEW h, Misses(h), ~failed'
    PROVE  h \notin updated /\ ~failed
BY DEF Misses

LEMMA MissesTyped == ASSUME NEW h, Misses(h), SInv PROVE failed' \in BOOLEAN
BY DEF Misses, SInv, TypeOK

(* The invariant is inductive.                                             *)
LEMMA SInvStep == SInv /\ [Next]_vars => SInv'
<1> SUFFICES ASSUME SInv, [Next]_vars PROVE SInv'
  OBVIOUS
<1>0. /\ start \in Nat /\ end \in Nat /\ start_height \in Nat /\ start # 0
      /\ latest_client_height \in Nat /\ end <= latest_client_height
      /\ end <= MaxHeight /\ reached \in Nat /\ MaxHeight \in Nat
      /\ start_height <= start
  BY HeightAssumption DEF SInv, TypeOK, Window, Heights
<1>1. CASE LinearMiss
  <2>1. /\ pc = "search" /\ ~timed /\ start <= end /\ Misses(start) /\ start' = start + 1
        /\ UNCHANGED <<updated, range, pc, end, last_known_valid_height, result>>
    BY <1>1 DEF LinearMiss
  <2>2. ~failed' => ~failed /\ ~Suitable(start)
    BY <2>1, MissesMean DEF Suitable
  <2>3. failed' \in BOOLEAN
    BY <2>1, MissesTyped
  <2> QED
    BY <1>0, <2>1, <2>2, <2>3, StartMoves
<1>2. CASE LinearHit
  <2>1. /\ ~timed /\ start <= end /\ start \in updated /\ failed' = failed /\ Return(start)
    BY <1>2 DEF LinearHit, Finds
  <2>2. Suitable(start) /\ InRange(start) /\ (~failed => IsFirst(start))
    BY <1>0, <2>1 DEF SInv, Passed, IsFirst, Suitable, InRange, timed
  <2> QED
    BY <1>0, <2>1, <2>2, ReturnKeeps DEF SInv, TypeOK
<1>3. CASE LinearEnd
  <2>1. ~timed /\ start > end /\ Return(0) /\ failed' = failed
    BY <1>3 DEF LinearEnd
  <2>2. failed
    <3>1. latest_client_height \in start_height..(start - 1) /\ Suitable(latest_client_height)
      BY <1>0, <2>1, HeightAssumption DEF SInv, Window, TypeOK, Heights, Suitable, timed,
         NoUnderflow
    <3> QED
      BY <2>1, <3>1 DEF SInv, Passed, TypeOK
  <2> QED
    BY <1>0, <2>1, <2>2, ReturnKeeps
<1>4. CASE EmptyRange
  <2>1. timed /\ start > end /\ Return(0) /\ failed' = failed
    BY <1>4 DEF EmptyRange
  <2>2. start_height > latest_client_height
    BY <1>0, <2>1 DEF SInv, NoUnderflow
  <2> QED
    BY <1>0, <2>1, <2>2, ReturnKeeps DEF SInv, TypeOK
<1>5. CASE SkipMissing
  <2>1. /\ pc = "search" /\ timed /\ start <= end /\ end - start > 1 /\ Misses(mid)
        /\ start' = start + 1
        /\ UNCHANGED <<updated, range, pc, end, last_known_valid_height, result>>
    BY <1>5 DEF SkipMissing, Looping
  <2>2. mid \in start_height..latest_client_height
    BY <1>0, <2>1, MidInside DEF SInv
  <2>3. ~failed' => ~Gapless
    BY <2>1, <2>2, MissesMean DEF Gapless
  <2>4. failed' \in BOOLEAN
    BY <2>1, MissesTyped
  <2> QED
    BY <1>0, <2>1, <2>3, <2>4, StartMoves
<1>6. CASE TooEarly
  <2>1. /\ pc = "search" /\ timed /\ start <= end /\ end - start > 1
        /\ failed' = failed /\ mid < reached /\ start' = mid + 1
        /\ UNCHANGED <<updated, range, pc, end, last_known_valid_height, result>>
    BY <1>6 DEF TooEarly, Looping, Finds
  <2>2. mid \in (start + 1)..(end - 1)
    BY <2>1, MidInside DEF SInv
  <2>3. \A h \in start..mid : ~Suitable(h)
    BY <1>0, <2>1, <2>2 DEF Suitable
  <2>4. (mid + 1) \in (start + 1)..(MaxHeight + 1) /\ mid + 1 <= end /\ (mid + 1) - 1 = mid
    BY <1>0, <2>2
  <2> QED
    BY <2>1, <2>3, <2>4, StartMoves DEF SInv, TypeOK
<1>7. CASE LateEnough
  <2>1. /\ pc = "search" /\ timed /\ start <= end /\ end - start > 1 /\ mid \in updated
        /\ failed' = failed /\ mid >= reached
        /\ last_known_valid_height' = mid /\ end' = mid
        /\ UNCHANGED <<updated, start_height, latest_client_height, reached>>
        /\ UNCHANGED <<pc, start, result>>
    BY <1>7 DEF LateEnough, Looping, Finds, range
  <2>2. mid \in (start + 1)..(end - 1)
    BY <2>1, MidInside DEF SInv
  <2>3. TypeOK'
    BY <1>0, <2>1, <2>2 DEF SInv, TypeOK, Heights
  <2>4. Window' /\ NoUnderflow'
    BY <1>0, <2>1, <2>2 DEF SInv, Window, NoUnderflow, Suitable, timed
  <2>5. Passed' /\ ResultSuitable'
    BY <2>1 DEF SInv, Passed, ResultSuitable, Suitable, InRange, timed, Gapless
  <2> QED
    BY <2>1, <2>3, <2>4, <2>5 DEF SInv, LinearFindsFirst, GaplessFindsFirst
<1>8. CASE LastHit
  <2>1. /\ timed /\ start <= end /\ start \in updated /\ failed' = failed
        /\ start >= reached /\ Return(start)
    BY <1>8 DEF LastHit, Narrowed, Finds
  <2>2. Suitable(start) /\ InRange(start) /\ (~failed /\ Gapless => IsFirst(start))
    BY <1>0, <2>1 DEF SInv, Passed, IsFirst, Suitable, InRange
  <2> QED
    BY <1>0, <2>1, <2>2, ReturnKeeps DEF SInv, TypeOK
<1>9. CASE LastMiss
  <2>1. /\ timed /\ start <= end /\ end - start <= 1 /\ Return(last_known_valid_height)
        /\ \/ start < reached /\ failed' = failed
           \/ Misses(start)
    BY <1>9 DEF LastMiss, Narrowed, Finds
  <2>2. failed' \in BOOLEAN /\ (~failed' => ~failed)
    BY <2>1, MissesTyped, MissesMean DEF SInv, TypeOK
  <2>3. last_known_valid_height # 0 =>
            Suitable(last_known_valid_height) /\ InRange(last_known_valid_height)
    BY <1>0 DEF SInv, Window, InRange
  <2>4. ASSUME ~failed', Gapless
        PROVE  \A h \in start_height..start : ~Suitable(h)
    <3>1. start < reached
      BY <1>0, <2>1, <2>4, MissesMean DEF Gapless
    <3>2. ~Suitable(start)
      BY <1>0, <3>1 DEF Suitable
    <3>3. \A h \in start_height..(start - 1) : ~Suitable(h)
      BY <2>2, <2>4 DEF SInv, Passed
    <3> QED
      BY <1>0, <3>2, <3>3
  <2>5. ASSUME ~failed', Gapless
        PROVE  \/ IsFirst(last_known_valid_height)
               \/ /\ last_known_valid_height = 0
                  /\ \A h \in start_height..(latest_client_height - 1) : ~Suitable(h)
    <3>1. CASE last_known_valid_height = 0
      <4>1. end = latest_client_height
        BY <3>1 DEF SInv, Window
      <4> QED
        BY <1>0, <2>1, <2>4, <2>5, <3>1, <4>1
    <3>2. CASE last_known_valid_height # 0
      <4>1. last_known_valid_height = end
        BY <3>2 DEF SInv, Window
      <4> QED
        BY <1>0, <2>1, <2>3, <2>4, <2>5, <3>2, <4>1 DEF IsFirst
    <3> QED
      BY <3>1, <3>2
  <2> QED
    BY <2>1, <2>2, <2>3, <2>5, ReturnKeeps DEF SInv, TypeOK
<1>10. CASE Undecodable
  <2>1. timed /\ Return(0) /\ failed' = TRUE
    BY <1>10 DEF Undecodable, Looping, Narrowed
  <2> QED
    BY <1>0, <2>1, ReturnKeeps
<1>11. CASE ClientUpdate
  BY <1>11, UpdateKeeps
<1>12. CASE UNCHANGED vars
  BY <1>12 DEF vars, range, SInv, TypeOK, Window, NoUnderflow, Passed, ResultSuitable,
     LinearFindsFirst, GaplessFindsFirst, Suitable, InRange, IsFirst, Gapless, timed
<1> QED
  BY <1>1, <1>2, <1>3, <1>4, <1>5, <1>6, <1>7, <1>8, <1>9, <1>10, <1>11, <1>12
     DEF Next, Lookup

-------------------------------------------------------------------------------
(* The invariant holds of every search.                                    *)
THEOREM SInvHolds == Spec => []SInv
BY SInvInit, SInvStep, PTL DEF Spec

(* Types: no search leaves the heights there are by more than one.         *)
THEOREM TypeCorrect == Spec => []TypeOK
<1>1. SInv => TypeOK
  BY DEF SInv
<1> QED
  BY <1>1, SInvHolds, PTL

(* The difference in the loop's condition never underflows (funcs.rs:173). *)
THEOREM NeverUnderflows == Spec => []NoUnderflow
<1>1. SInv => NoUnderflow
  BY DEF SInv
<1> QED
  BY <1>1, SInvHolds, PTL

(* What is returned serves the proof, whatever queries fail and updates    *)
(* land in between (funcs.rs:133).                                         *)
THEOREM ReturnsSuitable == Spec => []ResultSuitable
<1>1. SInv => ResultSuitable
  BY DEF SInv
<1> QED
  BY <1>1, SInvHolds, PTL

(* Without a timestamp the first height is found (funcs.rs:146).           *)
THEOREM LinearIsExact == Spec => []LinearFindsFirst
<1>1. SInv => LinearFindsFirst
  BY DEF SInv
<1> QED
  BY <1>1, SInvHolds, PTL

(* On a client without gaps the halving finds the first height, but for    *)
(* the latest, which it may overlook (funcs.rs:173).                       *)
THEOREM HalvingIsExactButForLatest == Spec => []GaplessFindsFirst
<1>1. SInv => GaplessFindsFirst
  BY DEF SInv
<1> QED
  BY <1>1, SInvHolds, PTL

-------------------------------------------------------------------------------
(* What Terminates rests on: a lookup ends the search or leaves fewer      *)
(* heights to look at, also one that finds nothing (funcs.rs:189), and no  *)
(* update of the client adds any.                                          *)
HeightsLeft == IF start <= end THEN end - start + 1 ELSE 0

Shrinks ==
    /\ HeightsLeft \in Nat /\ HeightsLeft' <= HeightsLeft
    /\ Lookup => pc' = "done" \/ HeightsLeft' < HeightsLeft

THEOREM LookupsShrink == Spec => [][Shrinks]_vars
<1>1. ASSUME TypeOK, Next PROVE Shrinks
  <2>1. start \in Nat /\ end \in Nat
    BY <1>1, HeightAssumption DEF TypeOK, Heights
  <2>2. HeightsLeft \in Nat
    BY <2>1 DEF HeightsLeft
  <2>3. ASSUME UNCHANGED <<start, end>> PROVE HeightsLeft' <= HeightsLeft
    BY <2>2, <2>3 DEF HeightsLeft
  <2>4. ASSUME LinearMiss \/ SkipMissing PROVE HeightsLeft' < HeightsLeft
    <3>1. start <= end /\ start' = start + 1 /\ end' = end
      BY <2>1, <2>4 DEF LinearMiss, SkipMissing, Looping
    <3> QED
      BY <2>1, <3>1 DEF HeightsLeft
  <2>5. ASSUME TooEarly \/ LateEnough PROVE HeightsLeft' < HeightsLeft
    <3>1. mid \in (start + 1)..(end - 1)
      BY <1>1, <2>5, MidInside DEF TooEarly, LateEnough, Looping
    <3>2. \/ start' = mid + 1 /\ end' = end
          \/ start' = start /\ end' = mid
      BY <2>5 DEF TooEarly, LateEnough
    <3> HIDE DEF mid
    <3> QED
      BY <2>1, <3>1, <3>2 DEF HeightsLeft
  <2>6. ASSUME LinearHit \/ LinearEnd \/ EmptyRange \/ LastHit \/ LastMiss
        PROVE  pc' = "done" /\ UNCHANGED <<start, end>>
    BY <2>6 DEF LinearHit, LinearEnd, EmptyRange, LastHit, LastMiss, Return
  <2>7. ASSUME Undecodable \/ ClientUpdate PROVE UNCHANGED <<start, end>>
    BY <2>7 DEF Undecodable, ClientUpdate, Return
  <2>8. Lookup => pc' = "done" \/ HeightsLeft' < HeightsLeft
    BY <2>4, <2>5, <2>6 DEF Lookup
  <2>9. HeightsLeft' <= HeightsLeft
    <3>1. HeightsLeft' < HeightsLeft => HeightsLeft' <= HeightsLeft
      <4>1. HeightsLeft' \in Int
        <5>1. start' \in Int /\ end' \in Int
          <6>1. mid \in Int
            BY <2>1 DEF mid
          <6> QED
            BY <1>1, <2>1, <6>1 DEF Next, Lookup, LinearMiss, LinearHit, LinearEnd, EmptyRange,
               SkipMissing, TooEarly, LateEnough, LastHit, LastMiss, Undecodable, ClientUpdate, Return
        <5> QED
          BY <5>1 DEF HeightsLeft
      <4> QED
        BY <2>2, <4>1
    <3> QED
      BY <1>1, <2>3, <2>4, <2>5, <2>6, <2>7, <3>1 DEF Next, Lookup
  <2> QED
    BY <2>2, <2>8, <2>9 DEF Shrinks
<1>2. TypeOK /\ [Next]_vars => [Shrinks]_vars
  BY <1>1
<1> QED
  BY <1>2, TypeCorrect, PTL DEF Spec
===============================================================================
