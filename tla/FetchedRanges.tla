--------------------------- MODULE FetchedRanges ---------------------------
(***************************************************************************)
(* FetchedRanges (host/src/db/utils.rs): the set of fetched block heights  *)
(* as one flat vector <<l1, u1, l2, u2, ...>> of the bounds of its         *)
(* intervals, kept sorted and merged.                                      *)
(*                                                                         *)
(* Vector indices are 0-based in the code and 1-based here: the code's     *)
(* even index, the lower bound of an interval, is an odd index here.       *)
(***************************************************************************)
EXTENDS Integers, SequencesExt

CONSTANT MaxHeight   \* bound on the block heights
ASSUME MaxHeightAssumption == MaxHeight \in Nat \ {0}

VARIABLE ranges      \* FetchedRanges(Vec<BlockHeight>)

-----------------------------------------------------------------------------
(* The operations, on a vector r.                                          *)

IsLower(i) == i % 2 = 1
Lowers(r) == {i \in DOMAIN r : IsLower(i)}

(* The heights the vector stands for.                                      *)
Covered(r) == UNION {r[i]..r[i + 1] : i \in Lowers(r)}

ContainsHeight(r, h) == \E i \in Lowers(r) : r[i] <= h /\ h <= r[i + 1]

(* `first`: only the first interval is looked at, so that the result is    *)
(* the height after it, not the first missing one: 5 for <<3, 4>>.         *)
FirstMissing(r) == IF r = <<>> THEN 1 ELSE r[2] + 1

(* The position before the first bound above h, or the end of the vector.  *)
FindIndex(r, h) ==
  LET above == {i \in DOMAIN r : r[i] > h}
  IN  IF above = {} THEN Len(r) + 1
      ELSE CHOOSE i \in above : \A j \in above : i <= j

(* Mutant: `simplify` merges only intervals that share a bound.             *)
MutTouch(upper, lower) == upper = lower

(* Drops an upper bound and the lower bound after it when the two          *)
(* intervals touch.                                                        *)
Touch(upper, lower) == upper \in {lower - 1, lower}

(* The loop starts with the first lower bound and goes over the others;    *)
(* interval k + 1 begins at position 2k + 1, the code's index 2k.          *)
Simplify(r) ==
  LET simplified[k \in 0..((Len(r) - 1) \div 2)] ==
        IF k = 0 THEN <<r[1]>>
        ELSE IF Touch(r[2 * k], r[2 * k + 1]) THEN simplified[k - 1]
        ELSE simplified[k - 1] \o <<r[2 * k], r[2 * k + 1]>>
  IN  IF r = <<>> THEN r
      ELSE Append(simplified[(Len(r) - 1) \div 2], r[Len(r)])

(* The bounds that `insert` retains: those outside from..to, in order.     *)
Retained(r, from, to) ==
  LET kept[i \in 0..Len(r)] ==
        IF i = 0 THEN <<>>
        ELSE IF r[i] < from \/ r[i] > to THEN Append(kept[i - 1], r[i])
        ELSE kept[i - 1]
  IN  kept[Len(r)]

(* Mutant: `insert` puts `to` back without asking whether it is contained.  *)
MutBounds(r, from, to) ==
  LET kept  == Retained(r, from, to)
      ix    == FindIndex(kept, from)
      upper == InsertAt(kept, ix, to)
  IN  IF IsLower(ix) THEN InsertAt(upper, ix, from) ELSE upper

(* `insert`: bounds inside from..to go, then `to` and `from` are put in    *)
(* where they begin or end an interval.                                    *)
Bounds(r, from, to) ==
  LET kept  == Retained(r, from, to)
      ix    == FindIndex(kept, from)
      upper == IF ContainsHeight(r, to) THEN kept ELSE InsertAt(kept, ix, to)
  IN  IF IsLower(ix) THEN InsertAt(upper, ix, from) ELSE upper

Insert(r, from, to) ==
  IF r = <<>> THEN <<from, to>> ELSE Simplify(Bounds(r, from, to))

(* Mutant: the gap loop does not test that the gap it closes is not empty.  *)
MutLeftStep(r, acc, h) ==
  LET cached == ContainsHeight(r, h)
  IN  CASE acc.need /\ cached ->
             [acc EXCEPT !.need = FALSE,
                         !.list = Append(@, <<acc.start, h - 1>>)]
        [] ~acc.need /\ ~cached -> [acc EXCEPT !.need = TRUE, !.start = h]
        [] OTHER -> acc

(* `blocks_left_to_fetch`: one pass over from..to; the state of the loop   *)
(* is the list so far, the start of the current gap and whether one is     *)
(* open.                                                                   *)
LeftStep(r, acc, h) ==
  LET cached == ContainsHeight(r, h)
  IN  CASE acc.need /\ cached ->
             [acc EXCEPT !.need = FALSE,
                         !.list = IF h > acc.start
                                  THEN Append(@, <<acc.start, h - 1>>) ELSE @]
        [] ~acc.need /\ ~cached -> [acc EXCEPT !.need = TRUE, !.start = h]
        [] OTHER -> acc

BlocksLeftToFetch(r, from, to) ==
  LET loop[n \in 0..(to - from + 1)] ==
        IF n = 0 THEN [list |-> <<>>, start |-> from, need |-> TRUE]
        ELSE LeftStep(r, loop[n - 1], from + n - 1)
      end == loop[to - from + 1]
  IN  IF end.need THEN Append(end.list, <<end.start, to>>) ELSE end.list

-----------------------------------------------------------------------------
(* The state machine.  The fetcher inserts only what blocks_left_to_fetch  *)
(* gave it, an interval that meets nothing fetched so far, in any order    *)
(* (the fetch tasks finish in any order).                                  *)

Init == ranges = <<>>

InsertDisjoint(from, to) ==
  /\ \A h \in from..to : ~ContainsHeight(ranges, h)
  /\ ranges' = Insert(ranges, from, to)

Intervals == {r \in (1..MaxHeight) \X (1..MaxHeight) : r[1] <= r[2]}

Next == \E r \in Intervals : InsertDisjoint(r[1], r[2])

Spec == Init /\ [][Next]_ranges

-----------------------------------------------------------------------------
H == INSTANCE Heights

(* The vector is well formed: pairs of bounds, sorted, and two neighbours  *)
(* neither overlap nor touch, so that equal sets have equal vectors and    *)
(* `simplify` has left nothing to merge (utils.rs:163).                    *)
TypeOK ==
  /\ ranges \in Seq(1..MaxHeight)
  /\ Len(ranges) % 2 = 0
  /\ \A i \in Lowers(ranges) : ranges[i] <= ranges[i + 1]
  /\ \A i \in Lowers(ranges) : i > 1 => ranges[i - 1] + 1 < ranges[i]

(* An insertion adds the heights from..to to the set and neither loses nor *)
(* invents another one (utils.rs:143 "Insert a new interval"), for every   *)
(* interval but one that overlaps what is there and ends where a stored    *)
(* interval ends: `insert` removes that bound and, `to` being contained,   *)
(* does not put it back.  The fetcher never makes such an insertion.       *)
UpperBounds == {ranges[i + 1] : i \in Lowers(ranges)}

InsertIsExact ==
  \A r \in Intervals :
     r[2] \notin UpperBounds =>
       Covered(Insert(ranges, r[1], r[2])) = Covered(ranges) \cup (r[1]..r[2])

(* For every request, blocks_left_to_fetch returns exactly the maximal     *)
(* uncovered intervals (utils.rs:195 "finds the sub-intervals not          *)
(* contained in `self`"), in order and each once.                          *)
BlocksLeftAreGaps ==
  \A r \in Intervals :
    LET left == BlocksLeftToFetch(ranges, r[1], r[2])
    IN  /\ ToSet(left) = H!Gaps(Covered(ranges), r[1], r[2])
        /\ \A i \in 1..(Len(left) - 1) : left[i][2] < left[i + 1][1]
=============================================================================
