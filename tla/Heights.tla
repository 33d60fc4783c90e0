------------------------------ MODULE Heights ------------------------------
(***************************************************************************)
(* Sets of block heights, and what the host asks of them.                  *)
(*                                                                         *)
(* The fetcher remembers the heights it has downloaded in a FetchedRanges, *)
(* a flat vector of interval bounds (host/src/db/utils.rs).  What that     *)
(* vector stands for is a set of heights; the operators below say what     *)
(* `first` and `blocks_left_to_fetch` return in terms of that set.  The    *)
(* module FetchedRanges shows that the vector computes exactly this, and   *)
(* the module Fetcher uses the set.                                        *)
(***************************************************************************)
EXTENDS Integers

Lowest(S) == CHOOSE m \in S : \A n \in S : m <= n

(* The heights that follow a covered interval immediately.                 *)
After(S) == {h + 1 : h \in S} \ S

(* FetchedRanges::first: the height after the lowest interval, 1 if there  *)
(* is none.                                                                *)
First(S) == IF S = {} THEN 1 ELSE Lowest(After(S))

(* FetchedRanges::blocks_left_to_fetch: the maximal intervals of from..to  *)
(* that S does not meet, each as a pair of bounds.                         *)
Gaps(S, from, to) ==
  {r \in (from..to) \X (from..to) :
     /\ r[1] <= r[2]
     /\ (r[1]..r[2]) \cap S = {}
     /\ r[1] = from \/ r[1] - 1 \in S
     /\ r[2] = to \/ r[2] + 1 \in S}
=============================================================================
