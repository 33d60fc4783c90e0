----------------------------- MODULE IndexList -----------------------------
(***************************************************************************)
(* How a wallet puts together what several services have found for it      *)
(* (shared/src/db.rs, IndexList).  An index is a pair <<height, tx>>, a    *)
(* list of indices stands for the set of them: the code sorts both lists   *)
(* before it compares them.                                                *)
(***************************************************************************)
EXTENDS Naturals

(* The height of the last index of a list, 0 if there is none.             *)
Top(a) ==
  IF a = {} THEN 0
  ELSE LET heights == {i[1] : i \in a}
       IN  CHOOSE h \in heights : \A g \in heights : g <= h

(* What `retain` keeps of the list that goes further.                      *)
Kept(a, b, height) == {i \in a : i[1] > height \/ i \in b}

(* Mutant: the lists are not swapped.                                      *)
MutCombine(a, b) ==
  IF a = {} THEN b
  ELSE IF b = {} THEN a
  ELSE Kept(a, b, Top(b))

Combine(a, b) ==
  IF a = {} THEN b
  ELSE IF b = {} THEN a
  ELSE IF Top(a) < Top(b) THEN Kept(b, a, Top(a))
  ELSE Kept(a, b, Top(b))

(* What it means (db.rs:162-168): an index is kept if every list that goes *)
(* as far has it.                                                          *)
Agreement(a, b) ==
  {i \in a \cup b : /\ i \in a \/ Top(a) < i[1]
                    /\ i \in b \/ Top(b) < i[1]}
=============================================================================
