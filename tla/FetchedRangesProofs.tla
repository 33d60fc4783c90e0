------------------------ MODULE FetchedRangesProofs ------------------------
(***************************************************************************)
(* The vector of FetchedRanges computes the operators of Heights, for      *)
(* every bound on the heights: insert keeps it canonical and adds exactly  *)
(* the interval, first and blocks_left_to_fetch return what the fetcher's  *)
(* model says they do.                                                     *)
(***************************************************************************)
EXTENDS FetchedRanges, HeightsProofs, SequenceTheorems

-----------------------------------------------------------------------------
(* The vector as a sequence of intervals; interval k has its bounds at the *)
(* positions 2k - 1 and 2k.                                                *)
Sorted(r, n) ==
  /\ r \in Seq(1..MaxHeight) /\ Len(r) = 2 * n
  /\ \A k \in 1..n : r[2 * k - 1] <= r[2 * k]
  /\ \A k \in 1..(n - 1) : r[2 * k] < r[2 * k + 1]

Separate(r, n) == \A k \in 1..(n - 1) : r[2 * k] + 1 < r[2 * k + 1]

Inside(r, n, h) == \E k \in 1..n : r[2 * k - 1] <= h /\ h <= r[2 * k]

(* A vector as TypeOK describes it.                                        *)
Canonical(r) ==
  /\ r \in Seq(1..MaxHeight)
  /\ Len(r) % 2 = 0
  /\ \A i \in Lowers(r) : r[i] <= r[i + 1]
  /\ \A i \in Lowers(r) : i > 1 => r[i - 1] + 1 < r[i]

(* The positions of lower bounds are the odd ones.                         *)
LEMMA LowersAre ==
  ASSUME NEW n \in Nat, NEW r \in Seq(1..MaxHeight), Len(r) = 2 * n
  PROVE  Lowers(r) = {2 * k - 1 : k \in 1..n}
<1>1. DOMAIN r = 1..(2 * n)
  OBVIOUS
<1>2. ASSUME NEW i \in 1..(2 * n), i % 2 = 1
      PROVE  \E k \in 1..n : i = 2 * k - 1
  <2>1. i = 2 * ((i + 1) \div 2) - 1 /\ (i + 1) \div 2 \in 1..n
    BY <1>2
  <2>. QED
    BY <2>1
<1>3. ASSUME NEW k \in 1..n
      PROVE  2 * k - 1 \in 1..(2 * n) /\ (2 * k - 1) % 2 = 1
  OBVIOUS
<1>. QED
  BY <1>1, <1>2, <1>3 DEF Lowers, IsLower

(* Positions and bounds of a sorted vector.                                *)
LEMMA SortedIs ==
  ASSUME NEW n \in Nat, NEW r, Sorted(r, n)
  PROVE  /\ DOMAIN r = 1..(2 * n)
         /\ \A i \in 1..(2 * n) : r[i] \in 1..MaxHeight
         /\ \A k \in 1..n : /\ 2 * k - 1 \in 1..(2 * n) /\ 2 * k \in 1..(2 * n)
                            /\ r[2 * k - 1] \in 1..MaxHeight
                            /\ r[2 * k] \in 1..MaxHeight
                            /\ r[2 * k - 1] <= r[2 * k]
         /\ \A k \in 1..(n - 1) : /\ 2 * k + 1 \in 1..(2 * n)
                                  /\ r[2 * k + 1] \in 1..MaxHeight
                                  /\ r[2 * k] < r[2 * k + 1]
<1>1. DOMAIN r = 1..(2 * n) /\ \A i \in 1..(2 * n) : r[i] \in 1..MaxHeight
  <2>1. r \in Seq(1..MaxHeight) /\ Len(r) = 2 * n
    BY DEF Sorted
  <2>2. r \in [1..Len(r) -> 1..MaxHeight]
    BY <2>1, LenProperties
  <2>. QED
    BY <2>1, <2>2
<1>2. \A k \in 1..n : 2 * k - 1 \in 1..(2 * n) /\ 2 * k \in 1..(2 * n)
  OBVIOUS
<1>3. \A k \in 1..(n - 1) : 2 * k + 1 \in 1..(2 * n)
  OBVIOUS
<1>. QED
  BY <1>1, <1>2, <1>3 DEF Sorted

(* The canonical vectors are the sorted ones with separate intervals.      *)
LEMMA CanonicalIs ==
  ASSUME NEW r
  PROVE  Canonical(r) <=> \E n \in Nat : Sorted(r, n) /\ Separate(r, n)
<1>1. ASSUME Canonical(r)
      PROVE  \E n \in Nat : Sorted(r, n) /\ Separate(r, n)
  <2>. DEFINE n == Len(r) \div 2
  <2>1. r \in Seq(1..MaxHeight) /\ Len(r) \in Nat /\ Len(r) % 2 = 0
    BY <1>1 DEF Canonical
  <2>2. n \in Nat /\ Len(r) = 2 * n
    BY <2>1
  <2>. HIDE DEF n
  <2>3. Lowers(r) = {2 * k - 1 : k \in 1..n}
    BY <2>1, <2>2, LowersAre
  <2>4. ASSUME NEW k \in 1..n PROVE r[2 * k - 1] <= r[2 * k]
    <3>1. 2 * k - 1 \in Lowers(r) /\ (2 * k - 1) + 1 = 2 * k
      BY <2>2, <2>3
    <3>. QED
      BY <1>1, <3>1 DEF Canonical
  <2>5. ASSUME NEW k \in 1..(n - 1) PROVE r[2 * k] + 1 < r[2 * k + 1]
    <3>1. k + 1 \in 1..n /\ 2 * k + 1 = 2 * (k + 1) - 1
      BY <2>2
    <3>2. 2 * k + 1 \in Lowers(r) /\ (2 * k + 1) - 1 = 2 * k /\ 2 * k + 1 > 1
      BY <2>2, <2>3, <3>1
    <3>. QED
      BY <1>1, <3>2 DEF Canonical
  <2>6. ASSUME NEW k \in 1..(n - 1) PROVE r[2 * k] < r[2 * k + 1]
    <3>1. 2 * k \in 1..Len(r) /\ 2 * k + 1 \in 1..Len(r)
      BY <2>2
    <3>2. r[2 * k] \in 1..MaxHeight /\ r[2 * k + 1] \in 1..MaxHeight
      <4>1. r \in [1..Len(r) -> 1..MaxHeight]
        BY <2>1, LenProperties
      <4>. QED
        BY <3>1, <4>1
    <3>. QED
      BY <2>5, <3>2
  <2>. QED
    BY <2>1, <2>2, <2>4, <2>5, <2>6 DEF Sorted, Separate
<1>2. ASSUME NEW n \in Nat, Sorted(r, n), Separate(r, n)
      PROVE  Canonical(r)
  <2>1. r \in Seq(1..MaxHeight) /\ Len(r) = 2 * n
    BY <1>2 DEF Sorted
  <2>2. Lowers(r) = {2 * k - 1 : k \in 1..n}
    BY <2>1, LowersAre
  <2>3. Len(r) % 2 = 0
    BY <2>1
  <2>4. ASSUME NEW i \in Lowers(r)
        PROVE  r[i] <= r[i + 1] /\ (i > 1 => r[i - 1] + 1 < r[i])
    <3>1. PICK k \in 1..n : i = 2 * k - 1
      BY <2>2, <2>4
    <3>2. i + 1 = 2 * k /\ r[i] <= r[i + 1]
      BY <1>2, <3>1 DEF Sorted
    <3>3. ASSUME i > 1 PROVE r[i - 1] + 1 < r[i]
      <4>1. k - 1 \in 1..(n - 1) /\ 2 * (k - 1) = i - 1 /\ 2 * (k - 1) + 1 = i
        BY <3>1, <3>3
      <4>2. r[2 * (k - 1)] + 1 < r[2 * (k - 1) + 1]
        BY <1>2, <4>1 DEF Separate
      <4>. QED
        BY <4>1, <4>2
    <3>. QED
      BY <3>2, <3>3
  <2>. QED
    BY <2>1, <2>3, <2>4 DEF Canonical
<1>. QED
  BY <1>1, <1>2

(* The heights a vector stands for, and the test of one of them.           *)
LEMMA CoveredIs ==
  ASSUME NEW n \in Nat, NEW r, Sorted(r, n)
  PROVE  /\ Covered(r) \in SUBSET (1..MaxHeight)
         /\ \A h \in Int : h \in Covered(r) <=> Inside(r, n, h)
         /\ \A h \in Int : ContainsHeight(r, h) <=> Inside(r, n, h)
<1>1. Lowers(r) = {2 * k - 1 : k \in 1..n}
  BY LowersAre DEF Sorted
<1>2. \A k \in 1..n : /\ 2 * k - 1 \in Lowers(r) /\ (2 * k - 1) + 1 = 2 * k
                      /\ r[2 * k - 1] \in 1..MaxHeight /\ r[2 * k] \in 1..MaxHeight
  <2>1. \A k \in 1..n : 2 * k - 1 \in Lowers(r) /\ (2 * k - 1) + 1 = 2 * k
    BY <1>1
  <2>2. \A k \in 1..n : r[2 * k - 1] \in 1..MaxHeight /\ r[2 * k] \in 1..MaxHeight
    BY SortedIs
  <2>. QED
    BY <2>1, <2>2
<1>3. \A i \in Lowers(r) : \E k \in 1..n : i = 2 * k - 1 /\ i + 1 = 2 * k
  BY <1>1
<1>4. \A h : h \in Covered(r) <=> \E k \in 1..n : h \in r[2 * k - 1]..r[2 * k]
  <2>1. ASSUME NEW h, h \in Covered(r)
        PROVE  \E k \in 1..n : h \in r[2 * k - 1]..r[2 * k]
    <3>1. PICK i \in Lowers(r) : h \in r[i]..r[i + 1]
      BY <2>1 DEF Covered
    <3>2. PICK k \in 1..n : i = 2 * k - 1 /\ i + 1 = 2 * k
      BY <1>3
    <3>. QED
      BY <3>1, <3>2
  <2>2. ASSUME NEW h, NEW k \in 1..n, h \in r[2 * k - 1]..r[2 * k]
        PROVE  h \in Covered(r)
    <3>1. h \in r[2 * k - 1]..r[(2 * k - 1) + 1] /\ 2 * k - 1 \in Lowers(r)
      BY <1>2, <2>2
    <3>. QED
      BY <3>1 DEF Covered
  <2>. QED
    BY <2>1, <2>2
<1>5. \A h \in Int : h \in Covered(r) <=> Inside(r, n, h)
  BY <1>2, <1>4 DEF Inside
<1>6. Covered(r) \in SUBSET (1..MaxHeight)
  <2>1. ASSUME NEW h \in Covered(r) PROVE h \in 1..MaxHeight
    <3>1. PICK k \in 1..n : h \in r[2 * k - 1]..r[2 * k]
      BY <1>4
    <3>. QED
      BY <1>2, <3>1, MaxHeightAssumption
  <2>. QED
    BY <2>1
<1>7. \A h \in Int : ContainsHeight(r, h) <=> Inside(r, n, h)
  <2>1. ASSUME NEW h \in Int, ContainsHeight(r, h) PROVE Inside(r, n, h)
    <3>1. PICK i \in Lowers(r) : r[i] <= h /\ h <= r[i + 1]
      BY <2>1 DEF ContainsHeight
    <3>2. PICK k \in 1..n : i = 2 * k - 1 /\ i + 1 = 2 * k
      BY <1>3
    <3>. QED
      BY <3>1, <3>2 DEF Inside
  <2>2. ASSUME NEW h \in Int, Inside(r, n, h) PROVE ContainsHeight(r, h)
    <3>1. PICK k \in 1..n : r[2 * k - 1] <= h /\ h <= r[2 * k]
      BY <2>2 DEF Inside
    <3>2. 2 * k - 1 \in Lowers(r) /\ h <= r[(2 * k - 1) + 1]
      BY <1>2, <3>1
    <3>. QED
      BY <3>1, <3>2 DEF ContainsHeight
  <2>. QED
    BY <2>1, <2>2
<1>. QED
  BY <1>5, <1>6, <1>7

-----------------------------------------------------------------------------
(* Simplify.                                                               *)

(* The last interval of a vector is made longer.                           *)
LEMMA LastGrows ==
  ASSUME NEW n \in Nat \ {0}, NEW r, Sorted(r, n), Separate(r, n),
         NEW t \in Seq(1..MaxHeight), Len(t) = 2 * n,
         \A i \in 1..(2 * n - 1) : t[i] = r[i], r[2 * n] <= t[2 * n]
  PROVE  /\ Sorted(t, n) /\ Separate(t, n)
         /\ \A h \in Int : Inside(t, n, h) <=>
              Inside(r, n, h) \/ (r[2 * n] <= h /\ h <= t[2 * n])
<1>1. /\ \A k \in 1..n : 2 * k - 1 \in 1..(2 * n - 1)
      /\ \A k \in 1..(n - 1) : 2 * k \in 1..(2 * n - 1) /\ 2 * k + 1 \in 1..(2 * n - 1)
      /\ \A k \in 1..n : k = n \/ k \in 1..(n - 1)
      /\ n \in 1..n /\ 2 * n \in 1..Len(t)
  OBVIOUS
<1>2. /\ \A k \in 1..n : t[2 * k - 1] = r[2 * k - 1]
      /\ \A k \in 1..(n - 1) : t[2 * k] = r[2 * k] /\ t[2 * k + 1] = r[2 * k + 1]
  BY <1>1
<1>3. /\ \A k \in 1..n : /\ r[2 * k - 1] \in Int /\ r[2 * k] \in Int
                         /\ r[2 * k - 1] <= r[2 * k]
      /\ \A k \in 1..(n - 1) : r[2 * k] < r[2 * k + 1]
  BY SortedIs
<1>4. t[2 * n] \in Int
  <2>1. t[2 * n] \in 1..MaxHeight
    BY <1>1, ElementOfSeq
  <2>. QED
    BY <2>1
<1>5. Sorted(t, n) /\ Separate(t, n)
  <2>1. t[2 * n - 1] <= t[2 * n]
    BY <1>1, <1>2, <1>3, <1>4
  <2>2. \A k \in 1..n : t[2 * k - 1] <= t[2 * k]
    BY <1>1, <1>2, <1>3, <2>1
  <2>. QED
    BY <1>2, <1>3, <2>2 DEF Sorted, Separate
<1>6. ASSUME NEW h \in Int
      PROVE  Inside(t, n, h) <=>
               Inside(r, n, h) \/ (r[2 * n] <= h /\ h <= t[2 * n])
  <2>1. ASSUME Inside(t, n, h)
        PROVE  Inside(r, n, h) \/ (r[2 * n] <= h /\ h <= t[2 * n])
    <3>1. PICK k \in 1..n : t[2 * k - 1] <= h /\ h <= t[2 * k]
      BY <2>1 DEF Inside
    <3>2. CASE k = n
      <4>1. r[2 * n - 1] <= h /\ h <= t[2 * n]
        BY <1>2, <3>1, <3>2
      <4>2. r[2 * n] \in Int
        BY <1>1, <1>3
      <4>3. h <= r[2 * n] \/ r[2 * n] <= h
        BY <4>2
      <4>. QED
        BY <1>1, <4>1, <4>3 DEF Inside
    <3>3. CASE k # n
      BY <1>1, <1>2, <3>1, <3>3 DEF Inside
    <3>. QED
      BY <3>2, <3>3
  <2>2. ASSUME Inside(r, n, h) PROVE Inside(t, n, h)
    <3>1. PICK k \in 1..n : r[2 * k - 1] <= h /\ h <= r[2 * k]
      BY <2>2 DEF Inside
    <3>2. CASE k = n
      <4>1. t[2 * n - 1] <= h /\ h <= r[2 * n] /\ r[2 * n] \in Int
        BY <1>2, <1>3, <3>1, <3>2
      <4>2. h <= t[2 * n]
        BY <1>4, <4>1
      <4>. QED
        BY <1>1, <4>1, <4>2 DEF Inside
    <3>3. CASE k # n
      BY <1>1, <1>2, <3>1, <3>3 DEF Inside
    <3>. QED
      BY <3>2, <3>3
  <2>3. ASSUME r[2 * n] <= h, h <= t[2 * n] PROVE Inside(t, n, h)
    <3>1. r[2 * n - 1] \in Int /\ r[2 * n] \in Int /\ r[2 * n - 1] <= r[2 * n]
      BY <1>1, <1>3
    <3>2. t[2 * n - 1] <= h
      BY <1>1, <1>2, <2>3, <3>1
    <3>. QED
      BY <1>1, <2>3, <3>2 DEF Inside
  <2>. QED
    BY <2>1, <2>2, <2>3
<1>. QED
  BY <1>5, <1>6

(* An interval is added behind the others.                                 *)
LEMMA IntervalAdded ==
  ASSUME NEW n \in Nat, NEW r, Sorted(r, n), Separate(r, n),
         NEW t \in Seq(1..MaxHeight), Len(t) = 2 * n + 2,
         \A i \in 1..(2 * n) : t[i] = r[i],
         n # 0 => r[2 * n] + 1 < t[2 * n + 1], t[2 * n + 1] <= t[2 * n + 2]
  PROVE  /\ Sorted(t, n + 1) /\ Separate(t, n + 1)
         /\ \A h \in Int : Inside(t, n + 1, h) <=>
              Inside(r, n, h) \/ (t[2 * n + 1] <= h /\ h <= t[2 * n + 2])
<1>1. /\ \A k \in 1..n : 2 * k - 1 \in 1..(2 * n) /\ 2 * k \in 1..(2 * n)
      /\ \A k \in 1..(n - 1) : 2 * k + 1 \in 1..(2 * n)
      /\ \A k \in 1..(n + 1) : k = n + 1 \/ k \in 1..n
      /\ \A k \in 1..((n + 1) - 1) : k = n \/ k \in 1..(n - 1)
      /\ \A k \in 1..n : k \in 1..(n + 1)
      /\ n + 1 \in 1..(n + 1) /\ Len(t) = 2 * (n + 1)
      /\ 2 * (n + 1) - 1 = 2 * n + 1 /\ 2 * (n + 1) = 2 * n + 2
  OBVIOUS
<1>2. /\ \A k \in 1..n : t[2 * k - 1] = r[2 * k - 1] /\ t[2 * k] = r[2 * k]
      /\ \A k \in 1..(n - 1) : t[2 * k + 1] = r[2 * k + 1]
  BY <1>1
<1>3. Sorted(t, n + 1) /\ Separate(t, n + 1)
  <2>1. \A k \in 1..(n + 1) : t[2 * k - 1] <= t[2 * k]
    <3>1. \A k \in 1..n : t[2 * k - 1] <= t[2 * k]
      BY <1>2 DEF Sorted
    <3>. QED
      BY <1>1, <3>1
  <2>2. \A k \in 1..((n + 1) - 1) : t[2 * k] + 1 < t[2 * k + 1]
    <3>1. \A k \in 1..(n - 1) : t[2 * k] + 1 < t[2 * k + 1]
      <4>1. \A k \in 1..(n - 1) : k \in 1..n
        OBVIOUS
      <4>. QED
        BY <1>2, <4>1 DEF Separate
    <3>2. n # 0 => n \in 1..n
      OBVIOUS
    <3>3. n # 0 => t[2 * n] + 1 < t[2 * n + 1]
      BY <1>2, <3>2
    <3>. QED
      BY <1>1, <3>1, <3>3
  <2>3. \A k \in 1..((n + 1) - 1) : t[2 * k] < t[2 * k + 1]
    <3>1. ASSUME NEW k \in 1..((n + 1) - 1) PROVE t[2 * k] < t[2 * k + 1]
      <4>1. 2 * k \in 1..Len(t) /\ 2 * k + 1 \in 1..Len(t)
        OBVIOUS
      <4>2. t[2 * k] \in 1..MaxHeight /\ t[2 * k + 1] \in 1..MaxHeight
        BY <4>1, ElementOfSeq
      <4>3. t[2 * k] + 1 < t[2 * k + 1]
        BY <2>2
      <4>. QED
        BY <4>2, <4>3
    <3>. QED
      BY <3>1
  <2>. QED
    BY <1>1, <2>1, <2>2, <2>3 DEF Sorted, Separate
<1>4. ASSUME NEW h \in Int
      PROVE  Inside(t, n + 1, h) <=>
               Inside(r, n, h) \/ (t[2 * n + 1] <= h /\ h <= t[2 * n + 2])
  <2>1. ASSUME Inside(t, n + 1, h)
        PROVE  Inside(r, n, h) \/ (t[2 * n + 1] <= h /\ h <= t[2 * n + 2])
    <3>1. PICK k \in 1..(n + 1) : t[2 * k - 1] <= h /\ h <= t[2 * k]
      BY <2>1 DEF Inside
    <3>. QED
      BY <1>1, <1>2, <3>1 DEF Inside
  <2>2. ASSUME Inside(r, n, h) PROVE Inside(t, n + 1, h)
    BY <1>1, <1>2, <2>2 DEF Inside
  <2>3. ASSUME t[2 * n + 1] <= h, h <= t[2 * n + 2] PROVE Inside(t, n + 1, h)
    BY <1>1, <2>3 DEF Inside
  <2>. QED
    BY <2>1, <2>2, <2>3
<1>. QED
  BY <1>3, <1>4

(* The bounds that `simplify` has pushed after k turns of its loop.        *)
LEMMA SimplifyLoop ==
  ASSUME NEW n \in Nat \ {0}, NEW r, Sorted(r, n)
  PROVE  \E f \in [0..(n - 1) -> Seq(1..MaxHeight)] :
           /\ f[0] = <<r[1]>>
           /\ \A k \in 1..(n - 1) :
                f[k] = IF Touch(r[2 * k], r[2 * k + 1]) THEN f[k - 1]
                       ELSE f[k - 1] \o <<r[2 * k], r[2 * k + 1]>>
           /\ Simplify(r) = Append(f[n - 1], r[2 * n])
<1>. DEFINE T == Seq(1..MaxHeight)
            m == n - 1
            Turn(q, k) == IF Touch(r[2 * k], r[2 * k + 1]) THEN q
                          ELSE q \o <<r[2 * k], r[2 * k + 1]>>
            step == [x \in T \X (1..m) |-> Turn(x[1], x[2])]
            Body(f) == [k \in 0..m |-> IF k = 0 THEN <<r[1]>> ELSE Turn(f[k - 1], k)]
<1>1. /\ Len(r) = 2 * n /\ r # <<>> /\ (Len(r) - 1) \div 2 = m /\ m \in Nat
  <2>1. Len(r) = 2 * n /\ n \in Nat /\ n >= 1
    BY DEF Sorted
  <2>2. (2 * n - 1) \div 2 = n - 1
    BY <2>1
  <2>3. Len(<<>>) = 0
    OBVIOUS
  <2>4. r # <<>>
    BY <2>1, <2>3
  <2>. QED
    BY <2>1, <2>2, <2>4
<1>2. <<r[1]>> \in T
  <2>1. 1 \in 1..n /\ 2 * 1 - 1 = 1
    OBVIOUS
  <2>2. r[1] \in 1..MaxHeight
    BY <2>1, SortedIs
  <2>. QED
    BY <2>2
<1>3. ASSUME NEW q \in T, NEW k \in 1..m PROVE Turn(q, k) \in T
  <2>1. r[2 * k] \in 1..MaxHeight /\ r[2 * k + 1] \in 1..MaxHeight
    <3>1. k \in 1..n /\ k \in 1..(n - 1)
      OBVIOUS
    <3>. QED
      BY <3>1, SortedIs
  <2>2. <<r[2 * k], r[2 * k + 1]>> \in T
    BY <2>1
  <2>3. q \o <<r[2 * k], r[2 * k + 1]>> \in T
    BY <2>2, ConcatProperties
  <2>. QED
    BY <2>3
<1>4. step \in [T \X (1..m) -> T]
  <2>. HIDE DEF Turn, T, m
  <2>. QED
    BY <1>3
<1>5. PICK f \in [0..m -> T] : IsLoop(f, m, <<r[1]>>, step)
  <2>. HIDE DEF step, T, m
  <2>. QED
    BY <1>1, <1>2, <1>4, LoopExists
<1>6. f = Body(f)
  <2>1. ASSUME NEW k \in 0..m, k # 0
        PROVE  step[<<f[k - 1], k>>] = Turn(f[k - 1], k)
    <3>1. k \in 1..m /\ k - 1 \in 0..m
      BY <2>1
    <3>2. <<f[k - 1], k>> \in T \X (1..m)
      BY <3>1
    <3>. HIDE DEF Turn, T, m
    <3>. QED
      BY <3>2
  <2>. HIDE DEF step, Turn, T, m
  <2>. QED
    BY <1>5, <2>1 DEF IsLoop
<1>. DEFINE g == CHOOSE h : h = Body(h)
<1>7. g = Body(g)
  <2>. HIDE DEF Body
  <2>. QED
    BY <1>6
<1>8. Simplify(r) = Append(g[m], r[2 * n])
  BY <1>1 DEF Simplify
<1>. HIDE DEF g
<1>9. \A k \in 0..m : g[k] \in T
  <2>. DEFINE S == {k \in 0..m : g[k] \in T}
  <2>1. 0 \in S
    <3>1. 0 \in 0..m
      BY <1>1
    <3>. HIDE DEF Turn, T, m
    <3>2. g[0] = <<r[1]>>
      BY <1>7, <3>1
    <3>. QED
      BY <1>2, <3>1, <3>2
  <2>2. ASSUME NEW k \in 1..m, k - 1 \in S PROVE k \in S
    <3>1. k \in 0..m /\ k # 0
      BY <2>2
    <3>. HIDE DEF Turn, T, m
    <3>2. g[k] = Turn(g[k - 1], k)
      BY <1>7, <3>1
    <3>. QED
      BY <1>3, <2>2, <3>1, <3>2
  <2>. HIDE DEF S
  <2>3. \A k \in 0..m : k \in S
    BY <1>1, <2>1, <2>2, LoopInduction
  <2>. QED
    BY <2>3 DEF S
<1>10. /\ DOMAIN g = 0..m /\ g = [k \in 0..m |-> g[k]]
       /\ g[0] = <<r[1]>>
       /\ \A k \in 1..m : g[k] = Turn(g[k - 1], k)
  <2>1. 0 \in 0..m /\ \A k \in 1..m : k \in 0..m /\ k # 0
    BY <1>1
  <2>. HIDE DEF Turn, m
  <2>. QED
    BY <1>7, <2>1
<1>11. g \in [0..m -> T]
  <2>. HIDE DEF T, m
  <2>. QED
    BY <1>9, <1>10
<1>. QED
  BY <1>8, <1>10, <1>11

(* `simplify` makes a sorted vector canonical and keeps its heights.       *)
LEMMA SimplifyIs ==
  ASSUME NEW n \in Nat \ {0}, NEW r, Sorted(r, n)
  PROVE  Canonical(Simplify(r)) /\ Covered(Simplify(r)) = Covered(r)
<1>1. PICK f \in [0..(n - 1) -> Seq(1..MaxHeight)] :
        /\ f[0] = <<r[1]>>
        /\ \A k \in 1..(n - 1) :
             f[k] = IF Touch(r[2 * k], r[2 * k + 1]) THEN f[k - 1]
                    ELSE f[k - 1] \o <<r[2 * k], r[2 * k + 1]>>
        /\ Simplify(r) = Append(f[n - 1], r[2 * n])
  BY SimplifyLoop
<1>. DEFINE part(k) == Append(f[k], r[2 * k + 2])
            Good(k) == \E j \in Nat \ {0} :
                         /\ Sorted(part(k), j) /\ Separate(part(k), j)
                         /\ \A h \in Int : Inside(part(k), j, h) <=> Inside(r, k + 1, h)
            S == {k \in 0..(n - 1) : Good(k)}
<1>2. \A k \in 0..(n - 1) : /\ k + 1 \in 1..n /\ 2 * (k + 1) = 2 * k + 2
                            /\ 2 * (k + 1) - 1 = 2 * k + 1
  OBVIOUS
<1>3. \A k \in 0..(n - 1) : /\ r[2 * k + 1] \in 1..MaxHeight
                            /\ r[2 * k + 2] \in 1..MaxHeight
                            /\ r[2 * k + 1] <= r[2 * k + 2]
  BY <1>2, SortedIs
<1>4. \A k \in 0..(n - 1) : /\ part(k) \in Seq(1..MaxHeight)
                            /\ Len(part(k)) = Len(f[k]) + 1
                            /\ \A i \in 1..Len(f[k]) : part(k)[i] = f[k][i]
                            /\ part(k)[Len(f[k]) + 1] = r[2 * k + 2]
                            /\ Len(f[k]) \in Nat
  BY <1>3, AppendProperties, LenProperties
<1>5. \A k \in 1..(n - 1), h \in Int :
        Inside(r, k + 1, h) <=>
          Inside(r, k, h) \/ (r[2 * k + 1] <= h /\ h <= r[2 * k + 2])
  <2>. SUFFICES ASSUME NEW k \in 1..(n - 1), NEW h \in Int
                PROVE  Inside(r, k + 1, h) <=>
                         Inside(r, k, h) \/ (r[2 * k + 1] <= h /\ h <= r[2 * k + 2])
    OBVIOUS
  <2>1. /\ \A i \in 1..(k + 1) : i = k + 1 \/ i \in 1..k
        /\ \A i \in 1..k : i \in 1..(k + 1)
        /\ k + 1 \in 1..(k + 1) /\ k \in 0..(n - 1)
    OBVIOUS
  <2>. QED
    BY <1>2, <2>1 DEF Inside
<1>6. 0 \in S
  <2>1. 0 \in 0..(n - 1) /\ 2 * 0 + 1 = 1 /\ 2 * 0 + 2 = 2
    OBVIOUS
  <2>2. r[1] \in 1..MaxHeight /\ r[2] \in 1..MaxHeight /\ r[1] <= r[2]
    BY <1>3, <2>1
  <2>3. Len(<<r[1]>>) = 1 /\ <<r[1]>>[1] = r[1]
    OBVIOUS
  <2>4. /\ part(0) \in Seq(1..MaxHeight) /\ Len(part(0)) = 2
        /\ part(0)[1] = r[1] /\ part(0)[2] = r[2]
    <3>1. /\ part(0) \in Seq(1..MaxHeight)
          /\ Len(part(0)) = Len(f[0]) + 1
          /\ \A i \in 1..Len(f[0]) : part(0)[i] = f[0][i]
          /\ part(0)[Len(f[0]) + 1] = r[2 * 0 + 2]
      BY <1>4, <2>1
    <3>2. Len(f[0]) = 1 /\ f[0][1] = r[1]
      BY <1>1, <2>3
    <3>3. 1 \in 1..1 /\ 1 + 1 = 2
      OBVIOUS
    <3>. HIDE DEF part
    <3>. QED
      BY <2>1, <3>1, <3>2, <3>3
  <2>. HIDE DEF part
  <2>5. \A k \in 1..1 : k = 1
    OBVIOUS
  <2>6. Sorted(part(0), 1) /\ Separate(part(0), 1)
    BY <2>2, <2>4 DEF Sorted, Separate
  <2>7. \A h \in Int : Inside(part(0), 1, h) <=> Inside(r, 0 + 1, h)
    BY <2>4, <2>5 DEF Inside
  <2>8. Good(0)
    BY <2>6, <2>7
  <2>. QED
    BY <2>1, <2>8
<1>7. ASSUME NEW k \in 1..(n - 1), k - 1 \in S
      PROVE  k \in S
  <2>1. PICK j \in Nat \ {0} :
          /\ Sorted(part(k - 1), j) /\ Separate(part(k - 1), j)
          /\ \A h \in Int : Inside(part(k - 1), j, h) <=> Inside(r, (k - 1) + 1, h)
    BY <1>7
  <2>2. /\ k - 1 \in 0..(n - 1) /\ k \in 0..(n - 1) /\ (k - 1) + 1 = k
        /\ 2 * (k - 1) + 2 = 2 * k
    OBVIOUS
  <2>3. /\ Len(part(k - 1)) = 2 * j /\ Len(f[k - 1]) = 2 * j - 1
        /\ \A i \in 1..(2 * j - 1) : part(k - 1)[i] = f[k - 1][i]
        /\ part(k - 1)[2 * j] = r[2 * k]
    <3>1. Len(part(k - 1)) = 2 * j
      BY <2>1 DEF Sorted
    <3>2. Len(f[k - 1]) \in Nat /\ Len(part(k - 1)) = Len(f[k - 1]) + 1
      BY <1>4, <2>2
    <3>3. Len(f[k - 1]) = 2 * j - 1 /\ Len(f[k - 1]) + 1 = 2 * j
      BY <3>1, <3>2
    <3>4. /\ \A i \in 1..Len(f[k - 1]) : part(k - 1)[i] = f[k - 1][i]
          /\ part(k - 1)[Len(f[k - 1]) + 1] = r[2 * (k - 1) + 2]
      BY <1>4, <2>2
    <3>. HIDE DEF part
    <3>. QED
      BY <2>2, <3>1, <3>3, <3>4
  <2>4. /\ part(k) \in Seq(1..MaxHeight)
        /\ Len(part(k)) = Len(f[k]) + 1
        /\ \A i \in 1..Len(f[k]) : part(k)[i] = f[k][i]
        /\ part(k)[Len(f[k]) + 1] = r[2 * k + 2]
    BY <1>4, <2>2
  <2>5. /\ r[2 * k] \in 1..MaxHeight /\ r[2 * k + 1] \in 1..MaxHeight
        /\ r[2 * k + 2] \in 1..MaxHeight
        /\ r[2 * k] < r[2 * k + 1] /\ r[2 * k + 1] <= r[2 * k + 2]
    <3>1. k \in 1..n
      OBVIOUS
    <3>. QED
      BY <1>3, <2>2, <3>1, SortedIs
  <2>6. \A h \in Int : Inside(part(k - 1), j, h) <=> Inside(r, k, h)
    BY <2>1, <2>2
  <2>. DEFINE s == part(k - 1)
              t == part(k)
  <2>7. CASE Touch(r[2 * k], r[2 * k + 1])
    <3>1. f[k] = f[k - 1]
      BY <1>1, <2>7
    <3>2. r[2 * k + 1] = r[2 * k] + 1
      BY <2>5, <2>7 DEF Touch
    <3>3. /\ t \in Seq(1..MaxHeight) /\ Len(t) = 2 * j
          /\ \A i \in 1..(2 * j - 1) : t[i] = s[i]
          /\ t[2 * j] = r[2 * k + 2] /\ s[2 * j] = r[2 * k]
      <4>. HIDE DEF part
      <4>1. (2 * j - 1) + 1 = 2 * j
        OBVIOUS
      <4>. QED
        BY <2>3, <2>4, <3>1, <4>1
    <3>. HIDE DEF s, t, part
    <3>4. s[2 * j] <= t[2 * j]
      <4>1. \A a, b, c \in 1..MaxHeight : a < b /\ b <= c => a <= c
        BY MaxHeightAssumption
      <4>2. r[2 * k] <= r[2 * k + 2]
        BY <2>5, <4>1
      <4>. QED
        BY <3>3, <4>2
    <3>5. Sorted(s, j) /\ Separate(s, j)
      BY <2>1 DEF s
    <3>6. /\ Sorted(t, j) /\ Separate(t, j)
          /\ \A h \in Int : Inside(t, j, h) <=>
               Inside(s, j, h) \/ (s[2 * j] <= h /\ h <= t[2 * j])
      BY <3>3, <3>4, <3>5, LastGrows
    <3>7. \A h \in Int : h = r[2 * k] => Inside(s, j, h)
      <4>1. j \in 1..j
        OBVIOUS
      <4>2. s[2 * j - 1] <= s[2 * j]
        BY <3>5, <4>1 DEF Sorted
      <4>. QED
        BY <2>5, <3>3, <4>1, <4>2 DEF Inside
    <3>8. \A h \in Int : Inside(t, j, h) <=> Inside(r, k + 1, h)
      <4>1. \A h \in Int : Inside(t, j, h) <=>
              Inside(s, j, h) \/ (r[2 * k] <= h /\ h <= r[2 * k + 2])
        BY <3>3, <3>6
      <4>2. \A h \in Int : Inside(s, j, h) <=> Inside(r, k, h)
        BY <2>6 DEF s
      <4>3. \A h \in Int : r[2 * k] <= h => h = r[2 * k] \/ r[2 * k + 1] <= h
        BY <2>5, <3>2
      <4>4. \A h \in Int : r[2 * k + 1] <= h => r[2 * k] <= h
        BY <2>5
      <4>. QED
        BY <1>5, <3>7, <4>1, <4>2, <4>3, <4>4
    <3>9. Good(k)
      BY <3>6, <3>8 DEF t
    <3>. QED
      BY <2>2, <3>9
  <2>8. CASE ~Touch(r[2 * k], r[2 * k + 1])
    <3>1. f[k] = f[k - 1] \o <<r[2 * k], r[2 * k + 1]>>
      BY <1>1, <2>8
    <3>2. r[2 * k] + 1 < r[2 * k + 1]
        <4>1. r[2 * k] # r[2 * k + 1] - 1
        BY <2>8 DEF Touch
      <4>2. \A a, b \in 1..MaxHeight : a < b /\ a # b - 1 => a + 1 < b
        BY MaxHeightAssumption
      <4>. QED
        BY <2>5, <4>1, <4>2
    <3>3. /\ Len(f[k]) = 2 * j + 1
          /\ \A i \in 1..(2 * j - 1) : f[k][i] = f[k - 1][i]
          /\ f[k][2 * j] = r[2 * k] /\ f[k][2 * j + 1] = r[2 * k + 1]
      <4>. DEFINE u == f[k - 1]
                  v == <<r[2 * k], r[2 * k + 1]>>
      <4>1. u \in Seq(1..MaxHeight) /\ v \in Seq(1..MaxHeight)
        BY <2>2, <2>5
      <4>2. Len(v) = 2 /\ v[1] = r[2 * k] /\ v[2] = r[2 * k + 1]
        OBVIOUS
      <4>3. Len(u) = 2 * j - 1
        BY <2>3
      <4>. HIDE DEF u, v
      <4>4. /\ Len(u \o v) = Len(u) + Len(v)
            /\ \A i \in 1..Len(u) + Len(v) :
                 (u \o v)[i] = IF i <= Len(u) THEN u[i] ELSE v[i - Len(u)]
        BY <4>1, ConcatProperties
      <4>5. /\ Len(u) + Len(v) = 2 * j + 1
            /\ \A i \in 1..(2 * j - 1) : i \in 1..(2 * j + 1) /\ i <= Len(u)
            /\ 2 * j \in 1..(2 * j + 1) /\ 2 * j + 1 \in 1..(2 * j + 1)
            /\ ~(2 * j <= Len(u)) /\ ~(2 * j + 1 <= Len(u))
            /\ 2 * j - Len(u) = 1 /\ (2 * j + 1) - Len(u) = 2
        BY <4>2, <4>3
      <4>6. /\ Len(u \o v) = 2 * j + 1
            /\ \A i \in 1..(2 * j - 1) : (u \o v)[i] = u[i]
            /\ (u \o v)[2 * j] = v[1] /\ (u \o v)[2 * j + 1] = v[2]
        BY <4>4, <4>5
      <4>. QED
        BY <3>1, <4>2, <4>6 DEF u, v
    <3>4. /\ t \in Seq(1..MaxHeight) /\ Len(t) = 2 * j + 2
          /\ \A i \in 1..(2 * j) : t[i] = s[i]
          /\ t[2 * j + 1] = r[2 * k + 1] /\ t[2 * j + 2] = r[2 * k + 2]
          /\ s[2 * j] = r[2 * k]
      <4>. HIDE DEF part
      <4>1. /\ (2 * j + 1) + 1 = 2 * j + 2 /\ 2 * j + 1 \in 1..(2 * j + 1)
            /\ \A i \in 1..(2 * j) : /\ i \in 1..(2 * j + 1)
                                     /\ i = 2 * j \/ i \in 1..(2 * j - 1)
        OBVIOUS
      <4>2. /\ t \in Seq(1..MaxHeight) /\ Len(t) = 2 * j + 2
            /\ \A i \in 1..(2 * j + 1) : t[i] = f[k][i]
            /\ t[2 * j + 2] = r[2 * k + 2]
        BY <2>4, <3>3, <4>1
      <4>. HIDE DEF t, s
      <4>3. s[2 * j] = r[2 * k] /\ \A i \in 1..(2 * j - 1) : s[i] = f[k - 1][i]
        BY <2>3 DEF s
      <4>4. t[2 * j] = s[2 * j]
        <5>1. 2 * j \in 1..(2 * j)
          OBVIOUS
        <5>. QED
          BY <3>3, <4>1, <4>2, <4>3, <5>1
      <4>5. \A i \in 1..(2 * j - 1) : i \in 1..(2 * j + 1)
        OBVIOUS
      <4>6. \A i \in 1..(2 * j - 1) : t[i] = s[i]
        BY <3>3, <4>2, <4>3, <4>5
      <4>7. t[2 * j + 1] = r[2 * k + 1]
        BY <3>3, <4>1, <4>2
      <4>. QED
        BY <4>1, <4>2, <4>3, <4>4, <4>6, <4>7
    <3>. HIDE DEF s, t, part
    <3>5. Sorted(s, j) /\ Separate(s, j)
      BY <2>1 DEF s
    <3>6. s[2 * j] + 1 < t[2 * j + 1] /\ t[2 * j + 1] <= t[2 * j + 2]
      BY <2>5, <3>2, <3>4
    <3>7. /\ Sorted(t, j + 1) /\ Separate(t, j + 1)
          /\ \A h \in Int : Inside(t, j + 1, h) <=>
               Inside(s, j, h) \/ (t[2 * j + 1] <= h /\ h <= t[2 * j + 2])
      BY <3>4, <3>5, <3>6, IntervalAdded
    <3>8. \A h \in Int : Inside(t, j + 1, h) <=> Inside(r, k + 1, h)
      <4>1. \A h \in Int : Inside(s, j, h) <=> Inside(r, k, h)
        BY <2>6 DEF s
      <4>. QED
        BY <1>5, <3>4, <3>7, <4>1
    <3>9. j + 1 \in Nat \ {0}
      OBVIOUS
    <3>10. Good(k)
      BY <3>7, <3>8, <3>9 DEF t
    <3>. QED
      BY <2>2, <3>10
  <2>. QED
    BY <2>7, <2>8
<1>8. Good(n - 1)
  <2>1. n - 1 \in Nat /\ n - 1 \in 0..(n - 1)
    OBVIOUS
  <2>. HIDE DEF S
  <2>2. n - 1 \in S
    BY <1>6, <1>7, <2>1, LoopInduction
  <2>. QED
    BY <2>2 DEF S
<1>9. part(n - 1) = Simplify(r)
  <2>1. 2 * (n - 1) + 2 = 2 * n
    OBVIOUS
  <2>. QED
    BY <1>1, <2>1
<1>10. (n - 1) + 1 = n
  OBVIOUS
<1>11. PICK j \in Nat \ {0} :
         /\ Sorted(Simplify(r), j) /\ Separate(Simplify(r), j)
         /\ \A h \in Int : Inside(Simplify(r), j, h) <=> Inside(r, n, h)
  BY <1>8, <1>9, <1>10
<1>12. Canonical(Simplify(r))
  BY <1>11, CanonicalIs
<1>13. /\ Covered(Simplify(r)) \in SUBSET (1..MaxHeight)
       /\ Covered(r) \in SUBSET (1..MaxHeight)
       /\ \A h \in Int : h \in Covered(Simplify(r)) <=> h \in Covered(r)
  BY <1>11, CoveredIs
<1>14. Covered(Simplify(r)) = Covered(r)
  <2>1. Covered(Simplify(r)) \subseteq Int /\ Covered(r) \subseteq Int
    BY <1>13
  <2>. QED
    BY <1>13, <2>1, Zenon
<1>. QED
  BY <1>12, <1>14

(* The bounds of a sorted vector do not decrease.                          *)
LEMMA Monotone ==
  ASSUME NEW n \in Nat, NEW r, Sorted(r, n)
  PROVE  \A i, j \in 1..(2 * n) : i <= j => r[i] <= r[j]
<1>1. \A i \in 1..(2 * n) : r[i] \in 1..MaxHeight
  BY SortedIs
<1>2. ASSUME NEW i \in 1..(2 * n - 1) PROVE r[i] <= r[i + 1]
  <2>1. CASE i % 2 = 1
    <3>1. PICK k \in 1..n : i = 2 * k - 1 /\ i + 1 = 2 * k
      <4>1. (i + 1) \div 2 \in 1..n /\ i = 2 * ((i + 1) \div 2) - 1
        BY <2>1
      <4>. QED
        BY <4>1
    <3>2. r[2 * k - 1] <= r[2 * k]
      BY SortedIs
    <3>. QED
      BY <3>1, <3>2
  <2>2. CASE i % 2 = 0
    <3>1. PICK k \in 1..(n - 1) : i = 2 * k /\ i + 1 = 2 * k + 1
      <4>1. i \div 2 \in 1..(n - 1) /\ i = 2 * (i \div 2)
        BY <2>2
      <4>. QED
        BY <4>1
    <3>2. r[2 * k] < r[2 * k + 1]
      BY SortedIs
    <3>3. r[i] \in 1..MaxHeight /\ r[i + 1] \in 1..MaxHeight
      <4>1. i \in 1..(2 * n) /\ i + 1 \in 1..(2 * n)
        OBVIOUS
      <4>. QED
        BY <1>1, <4>1
    <3>4. \A a, b \in 1..MaxHeight : a < b => a <= b
      BY MaxHeightAssumption
    <3>. QED
      BY <3>1, <3>2, <3>3, <3>4
  <2>. QED
    BY <2>1, <2>2
<1>. DEFINE S == {d \in 0..(2 * n) : \A i, j \in 1..(2 * n) : j = i + d => r[i] <= r[j]}
<1>3. 0 \in S
  <2>1. \A a \in 1..MaxHeight : a <= a
    BY MaxHeightAssumption
  <2>2. \A i \in 1..(2 * n) : r[i] <= r[i]
    BY <1>1, <2>1
  <2>3. 0 \in 0..(2 * n) /\ \A i, j \in 1..(2 * n) : j = i + 0 => j = i
    OBVIOUS
  <2>. QED
    BY <2>2, <2>3
<1>4. ASSUME NEW d \in 1..(2 * n), d - 1 \in S PROVE d \in S
  <2>1. ASSUME NEW i \in 1..(2 * n), NEW j \in 1..(2 * n), j = i + d
        PROVE  r[i] <= r[j]
    <3>1. j - 1 \in 1..(2 * n) /\ j - 1 = i + (d - 1)
          /\ j - 1 \in 1..(2 * n - 1) /\ (j - 1) + 1 = j
      BY <2>1
    <3>2. r[i] <= r[j - 1]
      BY <1>4, <3>1
    <3>3. r[j - 1] <= r[j]
      <4>1. r[j - 1] <= r[(j - 1) + 1]
        BY <1>2, <3>1
      <4>. QED
        BY <3>1, <4>1
    <3>4. \A a, b, c \in 1..MaxHeight : a <= b /\ b <= c => a <= c
      BY MaxHeightAssumption
    <3>. QED
      BY <1>1, <3>1, <3>2, <3>3, <3>4
  <2>2. d \in 0..(2 * n)
    OBVIOUS
  <2>. QED
    BY <2>1, <2>2
<1>5. \A d \in 0..(2 * n) : d \in S
  <2>1. 2 * n \in Nat
    OBVIOUS
  <2>. HIDE DEF S
  <2>. QED
    BY <1>3, <1>4, <2>1, LoopInduction
<1>6. ASSUME NEW i \in 1..(2 * n), NEW j \in 1..(2 * n), i <= j
      PROVE  r[i] <= r[j]
  <2>1. j - i \in 0..(2 * n) /\ j = i + (j - i)
    BY <1>6
  <2>. QED
    BY <1>5, <2>1
<1>. QED
  BY <1>6

(* `first` returns what First says of the heights.                         *)
LEMMA FirstIs ==
  ASSUME NEW r, Canonical(r)
  PROVE  FirstMissing(r) = H!First(Covered(r))
<1>1. PICK n \in Nat : Sorted(r, n) /\ Separate(r, n)
  BY CanonicalIs
<1>2. \A C : H!First(C) = First(C)
  BY DEF H!First, H!Lowest, H!After, First, Lowest, After
<1>3. /\ Covered(r) \in SUBSET (1..MaxHeight)
      /\ \A h \in Int : h \in Covered(r) <=> Inside(r, n, h)
  BY <1>1, CoveredIs
<1>4. CASE n = 0
  <2>1. r = <<>>
    <3>1. r \in Seq(1..MaxHeight) /\ Len(r) = 0
      BY <1>1, <1>4 DEF Sorted
    <3>. QED
      BY <3>1, EmptySeq
  <2>2. \A h \in Int : ~Inside(r, n, h)
    BY <1>4 DEF Inside
  <2>3. Covered(r) = {}
    BY <1>3, <2>2
  <2>. QED
    BY <1>2, <2>1, <2>3 DEF FirstMissing, First
<1>5. CASE n # 0
  <2>1. 1 \in 1..n /\ 2 * 1 - 1 = 1 /\ 2 * 1 = 2
    BY <1>5
  <2>2. /\ \A k \in 1..n : /\ r[2 * k - 1] \in 1..MaxHeight
                           /\ r[2 * k] \in 1..MaxHeight
                           /\ r[2 * k - 1] <= r[2 * k]
        /\ r[1] \in 1..MaxHeight /\ r[2] \in 1..MaxHeight /\ r[1] <= r[2]
    <3>1. \A k \in 1..n : /\ r[2 * k - 1] \in 1..MaxHeight
                          /\ r[2 * k] \in 1..MaxHeight
                          /\ r[2 * k - 1] <= r[2 * k]
      BY <1>1, SortedIs
    <3>. QED
      BY <2>1, <3>1
  <2>3. \A k \in 1..n : k # 1 => r[2] + 1 < r[2 * k - 1]
    <3>1. SUFFICES ASSUME NEW k \in 1..n, k # 1 PROVE r[2] + 1 < r[2 * k - 1]
      OBVIOUS
    <3>2. /\ 1 \in 1..(n - 1) /\ 2 * 1 + 1 = 3 /\ 3 \in 1..(2 * n)
          /\ 2 * k - 1 \in 1..(2 * n) /\ 3 <= 2 * k - 1
      BY <1>5, <3>1
    <3>3. r[2] + 1 < r[3]
      BY <1>1, <2>1, <3>2 DEF Separate
    <3>4. r[3] <= r[2 * k - 1] /\ r[3] \in 1..MaxHeight
      BY <1>1, <3>2, Monotone, SortedIs
    <3>5. \A a, b, c \in 1..MaxHeight : a + 1 < b /\ b <= c => a + 1 < c
      BY MaxHeightAssumption
    <3>. QED
      BY <2>2, <3>3, <3>4, <3>5
  <2>. DEFINE f == r[2] + 1
              C == Covered(r)
  <2>4. /\ r[2] \in C /\ f \notin C /\ C # {} /\ f \in Int
    <3>1. Inside(r, n, r[2])
      <4>1. r[2 * 1 - 1] <= r[2] /\ r[2] <= r[2 * 1]
        BY <2>1, <2>2
      <4>. QED
        BY <2>1, <4>1 DEF Inside
    <3>2. f \in Int /\ r[2] \in Int /\ ~(f <= r[2])
      BY <2>2
    <3>3. ~Inside(r, n, f)
      <4>1. SUFFICES ASSUME NEW k \in 1..n, r[2 * k - 1] <= f, f <= r[2 * k]
                     PROVE  FALSE
        BY DEF Inside
      <4>2. k = 1
        BY <2>2, <2>3, <3>2, <4>1
      <4>. QED
        BY <2>1, <3>2, <4>1, <4>2
    <3>. QED
      BY <1>3, <3>1, <3>2, <3>3
  <2>5. ASSUME NEW h \in After(C) PROVE f <= h /\ h \in Int
    <3>1. h - 1 \in C /\ h \notin C /\ h \in Int
      BY <1>3 DEF After
    <3>2. PICK k \in 1..n : r[2 * k - 1] <= h - 1 /\ h - 1 <= r[2 * k]
      BY <1>3, <3>1 DEF Inside
    <3>3. ~(r[2 * k - 1] <= h /\ h <= r[2 * k])
      BY <1>3, <3>1, <3>2 DEF Inside
    <3>4. h = r[2 * k] + 1
      BY <2>2, <3>1, <3>2, <3>3
    <3>5. CASE k = 1
      BY <2>1, <3>1, <3>4, <3>5, <2>4
    <3>6. CASE k # 1
      <4>1. r[2] + 1 < r[2 * k - 1] /\ r[2 * k - 1] <= r[2 * k]
        BY <2>2, <2>3, <3>6
      <4>. QED
        BY <2>2, <3>4, <4>1
    <3>. QED
      BY <3>1, <3>5, <3>6
  <2>6. f \in After(C)
    BY <2>4 DEF After
  <2>. HIDE DEF f, C
  <2>7. Lowest(After(C)) = f
    <3>1. \A m \in After(C) : (\A h \in After(C) : m <= h) => m = f
      BY <2>4, <2>5, <2>6
    <3>. QED
      BY <2>5, <2>6, <3>1 DEF Lowest
  <2>8. r # <<>>
    <3>1. Len(r) = 2 * n /\ Len(<<>>) = 0
      BY <1>1 DEF Sorted
    <3>. QED
      BY <1>5, <3>1
  <2>. QED
    BY <1>2, <2>4, <2>7, <2>8 DEF FirstMissing, First, f, C
<1>. QED
  BY <1>4, <1>5

-----------------------------------------------------------------------------
(* Retained and FindIndex.                                                 *)

(* The bounds that `insert` has retained after i turns of its loop.        *)
LEMMA RetainedLoop ==
  ASSUME NEW r \in Seq(1..MaxHeight), NEW from \in Int, NEW to \in Int
  PROVE  \E f \in [0..Len(r) -> Seq(1..MaxHeight)] :
           /\ f[0] = <<>>
           /\ \A i \in 1..Len(r) :
                f[i] = IF r[i] < from \/ r[i] > to THEN Append(f[i - 1], r[i])
                       ELSE f[i - 1]
           /\ Retained(r, from, to) = f[Len(r)]
<1>. DEFINE T == Seq(1..MaxHeight)
            m == Len(r)
            Turn(q, i) == IF r[i] < from \/ r[i] > to THEN Append(q, r[i]) ELSE q
            step == [x \in T \X (1..m) |-> Turn(x[1], x[2])]
            Body(f) == [i \in 0..m |-> IF i = 0 THEN <<>> ELSE Turn(f[i - 1], i)]
<1>1. m \in Nat /\ <<>> \in T
  OBVIOUS
<1>3. ASSUME NEW q \in T, NEW i \in 1..m PROVE Turn(q, i) \in T
  <2>1. r[i] \in 1..MaxHeight
    BY ElementOfSeq
  <2>2. Append(q, r[i]) \in T
    BY <2>1, AppendProperties
  <2>. QED
    BY <2>2
<1>4. step \in [T \X (1..m) -> T]
  <2>. HIDE DEF Turn, T, m
  <2>. QED
    BY <1>3
<1>5. PICK f \in [0..m -> T] : IsLoop(f, m, <<>>, step)
  <2>. HIDE DEF step, T, m
  <2>. QED
    BY <1>1, <1>4, LoopExists
<1>6. f = Body(f)
  <2>1. ASSUME NEW i \in 0..m, i # 0
        PROVE  step[<<f[i - 1], i>>] = Turn(f[i - 1], i)
    <3>1. i \in 1..m /\ i - 1 \in 0..m
      BY <2>1
    <3>2. <<f[i - 1], i>> \in T \X (1..m)
      BY <3>1
    <3>. HIDE DEF Turn, T, m
    <3>. QED
      BY <3>2
  <2>. HIDE DEF step, Turn, T, m
  <2>. QED
    BY <1>5, <2>1 DEF IsLoop
<1>. DEFINE g == CHOOSE h : h = Body(h)
<1>7. g = Body(g)
  <2>. HIDE DEF Body
  <2>. QED
    BY <1>6
<1>8. Retained(r, from, to) = g[m]
  BY DEF Retained
<1>. HIDE DEF g
<1>9. \A i \in 0..m : g[i] \in T
  <2>. DEFINE S == {i \in 0..m : g[i] \in T}
  <2>1. 0 \in S
    <3>1. 0 \in 0..m
      BY <1>1
    <3>. HIDE DEF Turn, T, m
    <3>2. g[0] = <<>>
      BY <1>7, <3>1
    <3>. QED
      BY <1>1, <3>1, <3>2
  <2>2. ASSUME NEW i \in 1..m, i - 1 \in S PROVE i \in S
    <3>1. i \in 0..m /\ i # 0
      BY <2>2
    <3>. HIDE DEF Turn, T, m
    <3>2. g[i] = Turn(g[i - 1], i)
      BY <1>7, <3>1
    <3>. QED
      BY <1>3, <2>2, <3>1, <3>2
  <2>. HIDE DEF S
  <2>3. \A i \in 0..m : i \in S
    BY <1>1, <2>1, <2>2, LoopInduction
  <2>. QED
    BY <2>3 DEF S
<1>10. /\ DOMAIN g = 0..m /\ g = [i \in 0..m |-> g[i]]
       /\ g[0] = <<>>
       /\ \A i \in 1..m : g[i] = Turn(g[i - 1], i)
  <2>1. 0 \in 0..m /\ \A i \in 1..m : i \in 0..m /\ i # 0
    BY <1>1
  <2>. HIDE DEF Turn, m
  <2>. QED
    BY <1>7, <2>1
<1>11. g \in [0..m -> T]
  <2>. HIDE DEF T, m
  <2>. QED
    BY <1>9, <1>10
<1>. QED
  BY <1>8, <1>10, <1>11

(* Where from..to cuts a sorted vector: the bounds up to position a are    *)
(* below from..to, those from position b on above it, the others inside.   *)
Cut(r, m, from, to, a, b) ==
  /\ a \in 0..m /\ b \in 1..(m + 1) /\ a < b
  /\ \A i \in 1..m : r[i] < from <=> i <= a
  /\ \A i \in 1..m : r[i] > to <=> b <= i

LEMMA CutExists ==
  ASSUME NEW n \in Nat, NEW r, Sorted(r, n),
         NEW from \in 1..MaxHeight, NEW to \in 1..MaxHeight, from <= to
  PROVE  \E a, b \in Int : Cut(r, 2 * n, from, to, a, b)
<1>. DEFINE m == 2 * n
            A == {i \in 0..m : i = 0 \/ r[i] < from}
            B == {i \in 1..(m + 1) : i = m + 1 \/ r[i] > to}
<1>1. /\ m \in Nat /\ \A i \in 1..m : r[i] \in Int
      /\ from \in Int /\ to \in Int
      /\ \A i, j \in 1..m : i <= j => r[i] <= r[j]
  <2>1. \A i \in 1..m : r[i] \in 1..MaxHeight
    BY SortedIs
  <2>2. m \in Nat /\ \A i \in 1..m : r[i] \in Int
    BY <2>1
  <2>. QED
    BY <2>2, Monotone
<1>. HIDE DEF m
<1>2. PICK a \in A : \A i \in A : i <= a
  <2>1. 0 \in A /\ A \in SUBSET Int /\ \A i \in A : i <= m
    BY <1>1
  <2>. HIDE DEF A
  <2>2. A # {} /\ m \in Int
    BY <1>1, <2>1
  <2>. QED
    BY <2>1, <2>2, GreatestExists
<1>3. PICK b \in B : \A i \in B : b <= i
  <2>1. m + 1 \in B /\ B \in SUBSET Nat
    BY <1>1
  <2>. HIDE DEF B
  <2>2. Lowest(B) \in B /\ \A i \in B : Lowest(B) <= i
    BY <2>1, LowestIsLeast
  <2>. QED
    BY <2>2
<1>4. ASSUME NEW i \in 1..m PROVE r[i] < from <=> i <= a
  <2>1. a \in 0..m /\ i \in 0..m
    BY <1>1
  <2>2. ASSUME r[i] < from PROVE i <= a
    BY <1>2, <2>1, <2>2
  <2>3. ASSUME i <= a PROVE r[i] < from
    <3>1. a \in 1..m /\ r[a] < from
      BY <1>1, <2>3
    <3>2. r[i] <= r[a]
      BY <1>1, <2>3, <3>1
    <3>. QED
      BY <1>1, <3>1, <3>2
  <2>. QED
    BY <2>2, <2>3
<1>5. ASSUME NEW i \in 1..m PROVE r[i] > to <=> b <= i
  <2>1. b \in 1..(m + 1) /\ i \in 1..(m + 1)
    BY <1>1
  <2>2. ASSUME r[i] > to PROVE b <= i
    BY <1>3, <2>1, <2>2
  <2>3. ASSUME b <= i PROVE r[i] > to
    <3>1. b \in 1..m /\ r[b] > to
      BY <1>1, <2>3
    <3>2. r[b] <= r[i]
      BY <1>1, <2>3, <3>1
    <3>. QED
      BY <1>1, <3>1, <3>2
  <2>. QED
    BY <2>2, <2>3
<1>6. a < b
  <2>1. SUFFICES ASSUME b <= a PROVE FALSE
    BY <1>1
  <2>2. b \in 1..m /\ a \in 1..m
    BY <1>1, <2>1
  <2>3. r[b] < from /\ r[b] > to
    BY <1>4, <1>5, <2>1, <2>2
  <2>. QED
    BY <1>1, <2>2, <2>3
<1>7. a \in 0..m /\ b \in 1..(m + 1) /\ a \in Int /\ b \in Int
  BY <1>1
<1>8. Cut(r, m, from, to, a, b)
  BY <1>4, <1>5, <1>6, <1>7 DEF Cut
<1>. QED
  BY <1>7, <1>8 DEF m

(* What is retained of a vector: the bounds before the cut and the ones    *)
(* after it.                                                               *)
Outside(s, r, m, a, b) ==
  /\ s \in Seq(1..MaxHeight) /\ Len(s) = a + (m + 1 - b)
  /\ \A i \in 1..a : s[i] = r[i]
  /\ \A i \in b..m : s[a + 1 + (i - b)] = r[i]

LEMMA RetainedIs ==
  ASSUME NEW r \in Seq(1..MaxHeight), NEW m, m = Len(r),
         NEW from \in Int, NEW to \in Int,
         NEW a \in Int, NEW b \in Int, Cut(r, m, from, to, a, b)
  PROVE  Outside(Retained(r, from, to), r, m, a, b)
<1>. DEFINE count(i) == IF i <= a THEN i ELSE IF i < b THEN a ELSE a + (i + 1 - b)
            elem(j) == IF j <= a THEN r[j] ELSE r[b + (j - a - 1)]
<1>1. PICK f \in [0..m -> Seq(1..MaxHeight)] :
        /\ f[0] = <<>>
        /\ \A i \in 1..m :
             f[i] = IF r[i] < from \/ r[i] > to THEN Append(f[i - 1], r[i])
                    ELSE f[i - 1]
        /\ Retained(r, from, to) = f[m]
  BY RetainedLoop
<1>2. /\ m \in Nat /\ a \in 0..m /\ b \in 1..(m + 1) /\ a < b
      /\ \A i \in 1..m : r[i] < from <=> i <= a
      /\ \A i \in 1..m : r[i] > to <=> b <= i
  BY DEF Cut
<1>. DEFINE S == {i \in 0..m : /\ Len(f[i]) = count(i)
                               /\ \A j \in 1..count(i) : f[i][j] = elem(j)}
<1>3. 0 \in S
  <2>1. 0 \in 0..m /\ count(0) = 0 /\ Len(f[0]) = 0
    BY <1>1, <1>2
  <2>. HIDE DEF count, elem
  <2>. QED
    BY <2>1
<1>4. ASSUME NEW i \in 1..m, i - 1 \in S PROVE i \in S
  <2>1. /\ i - 1 \in 0..m /\ i \in 0..m
        /\ f[i - 1] \in Seq(1..MaxHeight)
        /\ Len(f[i - 1]) = count(i - 1)
        /\ \A j \in 1..count(i - 1) : f[i - 1][j] = elem(j)
    <3>1. i - 1 \in 0..m /\ i \in 0..m
      BY <1>2
    <3>2. f[i - 1] \in Seq(1..MaxHeight)
      BY <3>1
    <3>. HIDE DEF count, elem
    <3>. QED
      BY <1>4, <3>1, <3>2
  <2>2. count(i - 1) \in Nat /\ count(i) \in Nat
    BY <1>2, <1>4
  <2>3. CASE i <= a \/ b <= i
    <3>1. count(i) = count(i - 1) + 1 /\ elem(count(i)) = r[i]
      BY <1>2, <2>3
    <3>2. f[i] = Append(f[i - 1], r[i])
      BY <1>1, <1>2, <2>3
    <3>3. r[i] \in 1..MaxHeight
      BY ElementOfSeq
    <3>. HIDE DEF count, elem
    <3>4. /\ Len(f[i]) = count(i - 1) + 1
          /\ \A j \in 1..count(i - 1) : f[i][j] = f[i - 1][j]
          /\ f[i][count(i - 1) + 1] = r[i]
      BY <2>1, <3>2, <3>3, AppendProperties
    <3>5. \A j \in 1..count(i) : j \in 1..count(i - 1) \/ j = count(i)
      BY <2>2, <3>1
    <3>6. \A j \in 1..count(i) : f[i][j] = elem(j)
      BY <2>1, <3>1, <3>4, <3>5
    <3>. QED
      BY <2>1, <3>1, <3>4, <3>6
  <2>4. CASE ~(i <= a \/ b <= i)
    <3>1. count(i) = count(i - 1)
      BY <1>2, <2>4
    <3>2. f[i] = f[i - 1]
      BY <1>1, <1>2, <2>4
    <3>. HIDE DEF count, elem
    <3>. QED
      BY <2>1, <3>1, <3>2
  <2>. QED
    BY <2>3, <2>4
<1>5. m \in S
  <2>1. m \in 0..m
    BY <1>2
  <2>. HIDE DEF S
  <2>. QED
    BY <1>2, <1>3, <1>4, <2>1, LoopInduction
<1>6. /\ count(m) = a + (m + 1 - b)
      /\ \A j \in 1..a : j \in 1..count(m) /\ elem(j) = r[j]
      /\ \A i \in b..m : /\ a + 1 + (i - b) \in 1..count(m)
                         /\ elem(a + 1 + (i - b)) = r[i]
  <2>1. count(m) = a + (m + 1 - b)
    <3>1. \A k \in Nat : \A i, j \in Int :
            i \in 0..k /\ j \in 1..(k + 1) /\ i < j =>
              (IF k <= i THEN k ELSE IF k < j THEN i ELSE i + (k + 1 - j))
                = i + (k + 1 - j)
      OBVIOUS
    <3>. QED
      BY <1>2, <3>1
  <2>2. \A j \in 1..a : j \in 1..(a + (m + 1 - b)) /\ elem(j) = r[j]
    BY <1>2
  <2>3. ASSUME NEW i \in b..m
        PROVE  /\ a + 1 + (i - b) \in 1..(a + (m + 1 - b))
               /\ elem(a + 1 + (i - b)) = r[i]
    <3>1. /\ a + 1 + (i - b) \in 1..(a + (m + 1 - b))
          /\ ~(a + 1 + (i - b) <= a)
          /\ b + ((a + 1 + (i - b)) - a - 1) = i
      BY <1>2, <2>3
    <3>. QED
      BY <3>1
  <2>. HIDE DEF count, elem
  <2>. QED
    BY <2>1, <2>2, <2>3
<1>7. f[m] \in Seq(1..MaxHeight)
  BY <1>2
<1>. HIDE DEF count, elem
<1>. QED
  BY <1>1, <1>5, <1>6, <1>7 DEF Outside

(* The position that `insert` looks up is the one after the bounds before  *)
(* the cut.                                                                *)
LEMMA FindIndexIs ==
  ASSUME NEW s \in Seq(1..MaxHeight), NEW from \in Int, NEW a \in 0..Len(s),
         \A i \in 1..Len(s) : s[i] > from <=> a < i
  PROVE  FindIndex(s, from) = a + 1
<1>. DEFINE above == {i \in DOMAIN s : s[i] > from}
<1>1. DOMAIN s = 1..Len(s) /\ Len(s) \in Nat
  OBVIOUS
<1>2. \A i : i \in above <=> i \in 1..Len(s) /\ a < i
  BY <1>1
<1>3. FindIndex(s, from) = IF above = {} THEN Len(s) + 1
                           ELSE CHOOSE i \in above : \A j \in above : i <= j
  BY DEF FindIndex
<1>. HIDE DEF above
<1>4. CASE a = Len(s)
  <2>1. above = {}
    BY <1>1, <1>2, <1>4
  <2>. QED
    BY <1>3, <1>4, <2>1
<1>5. CASE a # Len(s)
  <2>1. a + 1 \in above /\ \A j \in above : a + 1 <= j
    <3>1. a + 1 \in 1..Len(s) /\ a < a + 1
      <4>1. \A m \in Nat : \A i \in 0..m : i # m => i + 1 \in 1..m /\ i < i + 1
        OBVIOUS
      <4>. QED
        BY <1>1, <1>5, <4>1
    <3>2. \A j \in 1..Len(s) : a < j => a + 1 <= j
      BY <1>1
    <3>. QED
      BY <1>2, <3>1, <3>2
  <2>2. \A i \in above : (\A j \in above : i <= j) => i = a + 1
    BY <1>1, <1>2, <2>1
  <2>. QED
    BY <1>3, <2>1, <2>2
<1>. QED
  BY <1>4, <1>5

-----------------------------------------------------------------------------
(* The bounds that `insert` hands to `simplify`.                           *)

(* The vector t is s with e behind its first a elements.                   *)
Inserted(t, s, a, e) ==
  /\ t \in Seq(1..MaxHeight) /\ Len(t) = Len(s) + 1
  /\ \A i \in 1..a : t[i] = s[i]
  /\ t[a + 1] = e
  /\ \A i \in (a + 1)..Len(s) : t[i + 1] = s[i]

LEMMA InsertAtIs ==
  ASSUME NEW s \in Seq(1..MaxHeight), NEW e \in 1..MaxHeight,
         NEW a \in Nat, a <= Len(s), NEW j, j = a + 1
  PROVE  Inserted(InsertAt(s, j, e), s, a, e)
<1>. DEFINE S == 1..MaxHeight
            m == Len(s)
            u == SubSeq(s, 1, a)
            v == <<e>>
            w == SubSeq(s, a + 1, m)
            t == (u \o v) \o w
<1>0. s \in Seq(S) /\ e \in S
  OBVIOUS
<1>1. m \in Nat /\ a <= m
  OBVIOUS
<1>2. InsertAt(s, j, e) = t
  <2>1. j = a + 1 /\ (a + 1) - 1 = a
    OBVIOUS
  <2>. QED
    BY <2>1 DEF InsertAt
<1>3. /\ u \in Seq(S) /\ Len(u) = a
      /\ \A i \in 1..a : u[i] = s[i]
  <2>1. /\ \A i \in 1..a : i \in 1..m /\ 1 + i - 1 = i
        /\ 1 \in 1..(m + 1) /\ a \in 0..m
        /\ (IF 1 <= a THEN a - 1 + 1 ELSE 0) = a /\ a - 1 + 1 = a
    BY <1>1
  <2>2. \A i \in 1..a : s[i] \in S
    BY <1>0, <2>1, ElementOfSeq
  <2>3. /\ u \in Seq(S) /\ Len(u) = IF 1 <= a THEN a - 1 + 1 ELSE 0
        /\ \A i \in 1..(a - 1 + 1) : u[i] = s[1 + i - 1]
    BY <2>1, <2>2, SubSeqProperties
  <2>. HIDE DEF u
  <2>. QED
    BY <2>1, <2>3
<1>4. /\ w \in Seq(S) /\ Len(w) = m - a
      /\ \A i \in 1..(m - a) : w[i] = s[a + i]
  <2>1. /\ a + 1 \in 1..(m + 1) /\ m \in 0..m
        /\ \A i \in (a + 1)..m : i \in 1..m
        /\ (IF a + 1 <= m THEN m - (a + 1) + 1 ELSE 0) = m - a
        /\ m - (a + 1) + 1 = m - a
        /\ \A i \in 1..(m - a) : (a + 1) + i - 1 = a + i
    BY <1>1
  <2>2. \A i \in (a + 1)..m : s[i] \in S
    BY <1>0, <2>1, ElementOfSeq
  <2>3. /\ w \in Seq(S) /\ Len(w) = IF a + 1 <= m THEN m - (a + 1) + 1 ELSE 0
        /\ \A i \in 1..(m - (a + 1) + 1) : w[i] = s[(a + 1) + i - 1]
    <3>1. m \in Int /\ a + 1 \in Int
      BY <1>1
    <3>. HIDE DEF m
    <3>. QED
      BY <2>2, <3>1, SubSeqProperties
  <2>. HIDE DEF w
  <2>. QED
    BY <2>1, <2>3
<1>5. v \in Seq(S) /\ Len(v) = 1 /\ v[1] = e
  BY <1>0
<1>. HIDE DEF u, v, w, m, S
<1>6. /\ u \o v \in Seq(S) /\ Len(u \o v) = a + 1
      /\ \A i \in 1..a : (u \o v)[i] = s[i]
      /\ (u \o v)[a + 1] = e
  <2>1. /\ u \o v \in Seq(S) /\ Len(u \o v) = Len(u) + Len(v)
        /\ \A i \in 1..(Len(u) + Len(v)) :
             (u \o v)[i] = IF i <= Len(u) THEN u[i] ELSE v[i - Len(u)]
    BY <1>3, <1>5, ConcatProperties
  <2>2. /\ \A i \in 1..a : i \in 1..(a + 1) /\ i <= a
        /\ a + 1 \in 1..(a + 1) /\ ~(a + 1 <= a) /\ (a + 1) - a = 1
    OBVIOUS
  <2>. QED
    BY <1>3, <1>5, <2>1, <2>2
<1>7. /\ t \in Seq(S) /\ Len(t) = m + 1
      /\ \A i \in 1..a : t[i] = s[i]
      /\ t[a + 1] = e
      /\ \A i \in (a + 1)..m : t[i + 1] = s[i]
  <2>. DEFINE uv == u \o v
  <2>1. /\ uv \in Seq(S) /\ Len(uv) = a + 1
        /\ \A i \in 1..a : uv[i] = s[i]
        /\ uv[a + 1] = e
    BY <1>6
  <2>. HIDE DEF uv
  <2>2. /\ uv \o w \in Seq(S) /\ Len(uv \o w) = Len(uv) + Len(w)
        /\ \A i \in 1..(Len(uv) + Len(w)) :
             (uv \o w)[i] = IF i <= Len(uv) THEN uv[i] ELSE w[i - Len(uv)]
    BY <1>4, <2>1, ConcatProperties
  <2>3. /\ (a + 1) + (m - a) = m + 1
        /\ \A i \in 1..a : i \in 1..(m + 1) /\ i <= a + 1
        /\ a + 1 \in 1..(m + 1) /\ a + 1 <= a + 1
        /\ \A i \in (a + 1)..m : /\ i + 1 \in 1..(m + 1) /\ ~(i + 1 <= a + 1)
                                 /\ (i + 1) - (a + 1) \in 1..(m - a)
                                 /\ a + ((i + 1) - (a + 1)) = i
    BY <1>1
  <2>4. /\ Len(uv \o w) = m + 1
        /\ \A i \in 1..(m + 1) :
             (uv \o w)[i] = IF i <= a + 1 THEN uv[i] ELSE w[i - (a + 1)]
    BY <1>4, <2>1, <2>2, <2>3
  <2>5. \A i \in (a + 1)..m : (uv \o w)[i + 1] = s[i]
    <3>1. \A i \in (a + 1)..m : (uv \o w)[i + 1] = w[(i + 1) - (a + 1)]
      BY <2>3, <2>4
    <3>2. \A i \in (a + 1)..m : w[(i + 1) - (a + 1)] = s[i]
      <4>1. SUFFICES ASSUME NEW i \in (a + 1)..m
                     PROVE  w[(i + 1) - (a + 1)] = s[i]
        OBVIOUS
      <4>. DEFINE k == (i + 1) - (a + 1)
      <4>2. k \in 1..(m - a) /\ a + k = i
        BY <2>3
      <4>. HIDE DEF k
      <4>3. w[k] = s[a + k]
        BY <1>4, <4>2
      <4>. QED
        BY <4>2, <4>3 DEF k
    <3>. QED
      BY <3>1, <3>2
  <2>6. \A i \in 1..a : (uv \o w)[i] = s[i]
    BY <2>1, <2>3, <2>4
  <2>7. (uv \o w)[a + 1] = e
    BY <2>1, <2>3, <2>4
  <2>. QED
    BY <2>2, <2>4, <2>5, <2>6, <2>7 DEF uv
<1>. QED
  BY <1>2, <1>7 DEF m, S, Inserted

(* The vector B is r with x..y instead of the intervals p + 1 to q.        *)
Spliced(B, r, n, p, q, x, y) ==
  /\ p <= q /\ q <= n
  /\ x \in 1..MaxHeight /\ y \in 1..MaxHeight /\ x <= y
  /\ B \in Seq(1..MaxHeight) /\ Len(B) = 2 * (p + 1 + (n - q))
  /\ \A i \in 1..(2 * p) : B[i] = r[i]
  /\ B[2 * p + 1] = x /\ B[2 * p + 2] = y
  /\ \A i \in (2 * q + 1)..(2 * n) : B[2 * p + 2 + (i - 2 * q)] = r[i]
  /\ p # 0 => r[2 * p] < x
  /\ q # n => y < r[2 * q + 1]

InsideSpliced(r, n, p, q, x, y, h) ==
  \/ x <= h /\ h <= y
  \/ \E k \in 1..n : /\ k <= p \/ q < k
                     /\ r[2 * k - 1] <= h /\ h <= r[2 * k]

LEMMA SplicedIs ==
  ASSUME NEW n \in Nat, NEW r, Sorted(r, n), NEW p \in Nat, NEW q \in Nat,
         NEW x, NEW y, NEW B, Spliced(B, r, n, p, q, x, y),
         NEW m, m = p + 1 + (n - q)
  PROVE  /\ Sorted(B, m)
         /\ \A h \in Int : Inside(B, m, h) <=> InsideSpliced(r, n, p, q, x, y, h)
<1>0. /\ p <= q /\ q <= n
      /\ x \in 1..MaxHeight /\ y \in 1..MaxHeight /\ x <= y
      /\ B \in Seq(1..MaxHeight) /\ Len(B) = 2 * (p + 1 + (n - q))
      /\ \A i \in 1..(2 * p) : B[i] = r[i]
      /\ B[2 * p + 1] = x /\ B[2 * p + 2] = y
      /\ \A i \in (2 * q + 1)..(2 * n) : B[2 * p + 2 + (i - 2 * q)] = r[i]
      /\ p # 0 => r[2 * p] < x
      /\ q # n => y < r[2 * q + 1]
  BY DEF Spliced
<1>1. /\ m \in Nat /\ p + 1 \in 1..m
      /\ 2 * (p + 1) - 1 = 2 * p + 1 /\ 2 * (p + 1) = 2 * p + 2
      /\ \A k \in 1..p : /\ 2 * k - 1 \in 1..(2 * p) /\ 2 * k \in 1..(2 * p)
                         /\ k \in 1..n /\ k \in 1..m
      /\ \A k \in 1..m : k \in 1..p \/ k = p + 1 \/ k - (p + 1) + q \in (q + 1)..n
  BY <1>0
<1>2. \A k \in (q + 1)..n :
        /\ k \in 1..n /\ q < k /\ (p + 1) + (k - q) \in 1..m
        /\ 2 * k - 1 \in (2 * q + 1)..(2 * n) /\ 2 * k \in (2 * q + 1)..(2 * n)
        /\ 2 * p + 2 + ((2 * k - 1) - 2 * q) = 2 * ((p + 1) + (k - q)) - 1
        /\ 2 * p + 2 + (2 * k - 2 * q) = 2 * ((p + 1) + (k - q))
  BY <1>0
<1>3. \A k \in 1..p : B[2 * k - 1] = r[2 * k - 1] /\ B[2 * k] = r[2 * k]
  BY <1>0, <1>1
<1>4. \A k \in (q + 1)..n : /\ B[2 * ((p + 1) + (k - q)) - 1] = r[2 * k - 1]
                            /\ B[2 * ((p + 1) + (k - q))] = r[2 * k]
  BY <1>0, <1>2
<1>5. B[2 * (p + 1) - 1] = x /\ B[2 * (p + 1)] = y
  BY <1>0, <1>1
<1>6. ASSUME NEW k \in 1..m PROVE B[2 * k - 1] <= B[2 * k]
  <2>1. CASE k \in 1..p
    <3>1. r[2 * k - 1] <= r[2 * k]
      BY <1>1, <2>1, SortedIs
    <3>. QED
      BY <1>3, <2>1, <3>1
  <2>2. CASE k = p + 1
    BY <1>0, <1>5, <2>2
  <2>3. CASE k - (p + 1) + q \in (q + 1)..n
    <3>. DEFINE j == k - (p + 1) + q
    <3>1. j \in (q + 1)..n /\ (p + 1) + (j - q) = k
      BY <2>3
    <3>. HIDE DEF j
    <3>2. r[2 * j - 1] <= r[2 * j]
      BY <1>2, <3>1, SortedIs
    <3>. QED
      BY <1>4, <3>1, <3>2
  <2>. QED
    BY <1>1, <2>1, <2>2, <2>3
<1>7. ASSUME NEW k \in 1..(m - 1) PROVE B[2 * k] < B[2 * k + 1]
  <2>1. k \in 1..m /\ k + 1 \in 1..m /\ 2 * k + 1 = 2 * (k + 1) - 1
    BY <1>1
  <2>2. CASE k + 1 \in 1..p
    <3>1. k \in 1..p /\ k \in 1..(n - 1)
      BY <1>0, <2>2
    <3>2. r[2 * k] < r[2 * k + 1]
      BY <3>1, SortedIs
    <3>3. B[2 * k] = r[2 * k] /\ B[2 * (k + 1) - 1] = r[2 * (k + 1) - 1]
      BY <1>3, <2>2, <3>1
    <3>. QED
      BY <2>1, <3>2, <3>3
  <2>3. CASE k + 1 = p + 1
    <3>1. k = p /\ k \in 1..p /\ p # 0
      BY <2>3
    <3>2. B[2 * k] = r[2 * k] /\ B[2 * (k + 1) - 1] = x
      BY <1>3, <1>5, <3>1
    <3>. QED
      BY <1>0, <2>1, <3>1, <3>2
  <2>4. CASE (k + 1) - (p + 1) + q \in (q + 1)..n
    <3>. DEFINE j == (k + 1) - (p + 1) + q
    <3>1. j \in (q + 1)..n /\ (p + 1) + (j - q) = k + 1
      BY <2>4
    <3>2. CASE j = q + 1
      <4>1. k = p + 1 /\ q # n /\ 2 * j - 1 = 2 * q + 1
        BY <3>1, <3>2
      <4>. HIDE DEF j
      <4>2. B[2 * k] = y /\ B[2 * (k + 1) - 1] = r[2 * q + 1]
        BY <1>4, <1>5, <3>1, <4>1
      <4>. QED
        BY <1>0, <2>1, <4>1, <4>2
    <3>3. CASE j # q + 1
      <4>1. /\ j - 1 \in (q + 1)..n /\ (p + 1) + ((j - 1) - q) = k
            /\ j - 1 \in 1..(n - 1) /\ 2 * (j - 1) + 1 = 2 * j - 1
        BY <3>1, <3>3
      <4>. HIDE DEF j
      <4>2. r[2 * (j - 1)] < r[2 * (j - 1) + 1]
        BY <4>1, SortedIs
      <4>3. B[2 * k] = r[2 * (j - 1)] /\ B[2 * (k + 1) - 1] = r[2 * j - 1]
        BY <1>4, <3>1, <4>1
      <4>. QED
        BY <2>1, <4>1, <4>2, <4>3
    <3>. QED
      BY <3>2, <3>3
  <2>. QED
    BY <1>1, <2>1, <2>2, <2>3, <2>4
<1>8. Sorted(B, m)
  <2>1. B \in Seq(1..MaxHeight) /\ Len(B) = 2 * m
    BY <1>0
  <2>. QED
    BY <1>6, <1>7, <2>1 DEF Sorted
<1>9. ASSUME NEW h \in Int
      PROVE  Inside(B, m, h) <=> InsideSpliced(r, n, p, q, x, y, h)
  <2>1. ASSUME Inside(B, m, h)
        PROVE  InsideSpliced(r, n, p, q, x, y, h)
    <3>1. PICK k \in 1..m : B[2 * k - 1] <= h /\ h <= B[2 * k]
      BY <2>1 DEF Inside
    <3>2. CASE k \in 1..p
      <4>1. k \in 1..n /\ k <= p /\ r[2 * k - 1] <= h /\ h <= r[2 * k]
        BY <1>1, <1>3, <3>1, <3>2
      <4>. QED
        BY <4>1 DEF InsideSpliced
    <3>3. CASE k = p + 1
      BY <1>5, <3>1, <3>3 DEF InsideSpliced
    <3>4. CASE k - (p + 1) + q \in (q + 1)..n
      <4>. DEFINE j == k - (p + 1) + q
      <4>1. j \in (q + 1)..n /\ (p + 1) + (j - q) = k
        BY <3>4
      <4>. HIDE DEF j
      <4>2. j \in 1..n /\ q < j /\ r[2 * j - 1] <= h /\ h <= r[2 * j]
        BY <1>2, <1>4, <3>1, <4>1
      <4>. QED
        BY <4>2 DEF InsideSpliced
    <3>. QED
      BY <1>1, <3>2, <3>3, <3>4
  <2>2. ASSUME x <= h, h <= y PROVE Inside(B, m, h)
    BY <1>1, <1>5, <2>2 DEF Inside
  <2>3. ASSUME NEW k \in 1..n, k <= p \/ q < k,
               r[2 * k - 1] <= h, h <= r[2 * k]
        PROVE  Inside(B, m, h)
    <3>1. CASE k <= p
      <4>1. k \in 1..p /\ k \in 1..m
        BY <1>1, <3>1
      <4>2. B[2 * k - 1] <= h /\ h <= B[2 * k]
        BY <1>3, <2>3, <4>1
      <4>. QED
        BY <4>1, <4>2 DEF Inside
    <3>2. CASE q < k
      <4>. DEFINE j == (p + 1) + (k - q)
      <4>1. k \in (q + 1)..n
        BY <3>2
      <4>2. j \in 1..m /\ B[2 * j - 1] = r[2 * k - 1] /\ B[2 * j] = r[2 * k]
        BY <1>2, <1>4, <4>1
      <4>. HIDE DEF j
      <4>3. B[2 * j - 1] <= h /\ h <= B[2 * j]
        BY <2>3, <4>2
      <4>. QED
        BY <4>2, <4>3 DEF Inside
    <3>. QED
      BY <2>3, <3>1, <3>2
  <2>. QED
    BY <2>1, <2>2, <2>3 DEF InsideSpliced
<1>. QED
  BY <1>8, <1>9

(* The bounds after `insert` has put `to` and `from` in: where a = 2p + 1, *)
(* the interval p + 1 begins below from..to and keeps its lower bound,     *)
(* where b = 2q the interval q ends above it and keeps its upper bound.    *)
LEMMA BoundsAre ==
  ASSUME NEW n \in Nat, NEW r, Sorted(r, n),
         NEW from \in 1..MaxHeight, NEW to \in 1..MaxHeight, from <= to,
         \A k \in 1..n : r[2 * k] # to
  PROVE  \E m \in Nat \ {0} :
           /\ Sorted(Bounds(r, from, to), m)
           /\ \A h \in Int : Inside(Bounds(r, from, to), m, h) <=>
                Inside(r, n, h) \/ (from <= h /\ h <= to)
<1>1. /\ r \in Seq(1..MaxHeight) /\ Len(r) = 2 * n /\ 2 * n \in Nat
      /\ from \in Int /\ to \in Int
  BY MaxHeightAssumption DEF Sorted
<1>2. PICK a \in Int, b \in Int : Cut(r, 2 * n, from, to, a, b)
  BY CutExists
<1>3. /\ a \in 0..(2 * n) /\ b \in 1..(2 * n + 1) /\ a < b
      /\ \A i \in 1..(2 * n) : r[i] < from <=> i <= a
      /\ \A i \in 1..(2 * n) : r[i] > to <=> b <= i
  BY <1>2 DEF Cut
<1>. DEFINE p == a \div 2
            q == b \div 2
            x == IF a = 2 * p THEN from ELSE r[2 * p + 1]
            y == IF b = 2 * q THEN r[2 * q] ELSE to
            K == Retained(r, from, to)
            U == IF ContainsHeight(r, to) THEN K ELSE InsertAt(K, a + 1, to)
            B == Bounds(r, from, to)
<1>4. /\ p \in Nat /\ q \in Nat /\ p <= q /\ q <= n
      /\ a = 2 * p \/ a = 2 * p + 1
      /\ b = 2 * q \/ b = 2 * q + 1
      /\ a % 2 = 0 <=> a = 2 * p
  BY <1>3
<1>5. /\ a # 2 * p => a = 2 * p + 1 /\ p + 1 \in 1..n
      /\ b = 2 * q => q \in 1..n
      /\ b # 2 * q => b = 2 * q + 1
  BY <1>3, <1>4
<1>. HIDE DEF p, q
<1>6. \A i \in 1..(2 * n) : r[i] \in 1..MaxHeight /\ r[i] \in Int
  <2>1. \A i \in 1..(2 * n) : r[i] \in 1..MaxHeight
    BY SortedIs
  <2>. QED
    BY <2>1
<1>7. x \in 1..MaxHeight /\ x \in Int /\ x <= from
  <2>1. CASE a = 2 * p
    BY <1>1, <2>1
  <2>2. CASE a # 2 * p
    <3>1. a \in 1..(2 * n) /\ x = r[a] /\ a <= a
      BY <1>3, <1>4, <1>5, <2>2
    <3>2. r[a] < from
      BY <1>3, <3>1
    <3>. HIDE DEF x
    <3>. QED
      BY <1>1, <1>6, <3>1, <3>2
  <2>. QED
    BY <2>1, <2>2
<1>8. y \in 1..MaxHeight /\ y \in Int /\ to <= y
  <2>1. CASE b # 2 * q
    BY <1>1, <2>1
  <2>2. CASE b = 2 * q
    <3>1. b \in 1..(2 * n) /\ y = r[b] /\ b <= b
      BY <1>3, <1>4, <1>5, <2>2
    <3>2. r[b] > to
      BY <1>3, <3>1
    <3>. HIDE DEF y
    <3>. QED
      BY <1>1, <1>6, <3>1, <3>2
  <2>. QED
    BY <2>1, <2>2
<1>9. x <= y
  <2>. HIDE DEF x, y
  <2>. QED
    BY <1>1, <1>7, <1>8
<1>10. p # 0 => r[2 * p] < x
  <2>1. SUFFICES ASSUME p # 0 PROVE r[2 * p] < x
    OBVIOUS
  <2>2. CASE a = 2 * p
    <3>1. 2 * p \in 1..(2 * n) /\ 2 * p <= a /\ x = from
      BY <1>3, <1>4, <2>1, <2>2
    <3>. QED
      BY <1>3, <3>1
  <2>3. CASE a # 2 * p
    <3>1. p \in 1..(n - 1) /\ x = r[2 * p + 1]
      BY <1>4, <1>5, <2>1, <2>3
    <3>2. r[2 * p] < r[2 * p + 1]
      BY <3>1, SortedIs
    <3>. QED
      BY <3>1, <3>2
  <2>. QED
    BY <2>2, <2>3
<1>11. q # n => y < r[2 * q + 1]
  <2>1. SUFFICES ASSUME q # n PROVE y < r[2 * q + 1]
    OBVIOUS
  <2>2. CASE b # 2 * q
    <3>1. 2 * q + 1 \in 1..(2 * n) /\ b <= 2 * q + 1 /\ y = to
      BY <1>3, <1>4, <1>5, <2>1, <2>2
    <3>2. r[2 * q + 1] > to
      BY <1>3, <3>1
    <3>. HIDE DEF y
    <3>. QED
      BY <1>1, <1>6, <3>1, <3>2
  <2>3. CASE b = 2 * q
    <3>1. q \in 1..(n - 1) /\ y = r[2 * q]
      BY <1>4, <1>5, <2>1, <2>3
    <3>2. r[2 * q] < r[2 * q + 1]
      BY <3>1, SortedIs
    <3>. QED
      BY <3>1, <3>2
  <2>. QED
    BY <2>2, <2>3
<1>12. /\ K \in Seq(1..MaxHeight) /\ Len(K) = a + (2 * n + 1 - b)
       /\ \A i \in 1..a : K[i] = r[i]
       /\ \A i \in b..(2 * n) : K[a + 1 + (i - b)] = r[i]
  <2>1. Outside(K, r, 2 * n, a, b)
    BY <1>1, <1>2, RetainedIs
  <2>. HIDE DEF K
  <2>. QED
    BY <2>1 DEF Outside
<1>13. FindIndex(K, from) = a + 1
  <2>. HIDE DEF K
  <2>1. a \in 0..Len(K)
    BY <1>3, <1>12
  <2>2. ASSUME NEW i \in 1..Len(K) PROVE K[i] > from <=> a < i
    <3>1. CASE i <= a
      <4>1. i \in 1..a /\ i \in 1..(2 * n)
        BY <1>3, <3>1
      <4>2. K[i] = r[i] /\ r[i] < from /\ r[i] \in Int
        BY <1>3, <1>6, <1>12, <3>1, <4>1
      <4>3. ~(K[i] > from)
        BY <1>1, <4>2
      <4>. QED
        BY <1>3, <3>1, <4>3
    <3>2. CASE ~(i <= a)
      <4>. DEFINE j == b + (i - a - 1)
      <4>1. j \in b..(2 * n) /\ j \in 1..(2 * n) /\ b <= j /\ a + 1 + (j - b) = i
        BY <1>3, <1>12, <3>2
      <4>. HIDE DEF j
      <4>2. K[i] = r[j] /\ r[j] > to /\ r[j] \in Int
        BY <1>3, <1>6, <1>12, <4>1
      <4>3. K[i] > from
        BY <1>1, <4>2
      <4>. QED
        BY <1>3, <3>2, <4>3
    <3>. QED
      BY <3>1, <3>2
  <2>. QED
    BY <1>1, <1>12, <2>1, <2>2, FindIndexIs
<1>14. ContainsHeight(r, to) <=> b = 2 * q
  <2>1. ContainsHeight(r, to) <=> Inside(r, n, to)
    BY <1>1, CoveredIs
  <2>2. ASSUME Inside(r, n, to) PROVE b = 2 * q
    <3>1. PICK k \in 1..n : r[2 * k - 1] <= to /\ to <= r[2 * k]
      BY <2>2 DEF Inside
    <3>2. /\ 2 * k - 1 \in 1..(2 * n) /\ 2 * k \in 1..(2 * n)
          /\ r[2 * k - 1] \in Int /\ r[2 * k] \in Int
      <4>1. 2 * k - 1 \in 1..(2 * n) /\ 2 * k \in 1..(2 * n)
        OBVIOUS
      <4>. QED
        BY <1>6, <4>1
    <3>3. r[2 * k] > to /\ ~(r[2 * k - 1] > to)
      BY <1>1, <3>1, <3>2
    <3>4. b <= 2 * k /\ ~(b <= 2 * k - 1)
      BY <1>3, <3>2, <3>3
    <3>. QED
      BY <1>3, <1>4, <3>4
  <2>3. ASSUME b = 2 * q PROVE Inside(r, n, to)
    <3>1. /\ q \in 1..n /\ 2 * q - 1 \in 1..(2 * n) /\ 2 * q \in 1..(2 * n)
          /\ b <= 2 * q /\ ~(b <= 2 * q - 1)
      BY <1>3, <1>4, <1>5, <2>3
    <3>2. r[2 * q] > to /\ ~(r[2 * q - 1] > to)
      BY <1>3, <3>1
    <3>3. r[2 * q - 1] <= to /\ to <= r[2 * q]
      BY <1>1, <1>6, <3>1, <3>2
    <3>. QED
      BY <3>1, <3>3 DEF Inside
  <2>. QED
    BY <2>1, <2>2, <2>3
<1>15. B = IF a = 2 * p THEN InsertAt(U, a + 1, from) ELSE U
  <2>1. IsLower(a + 1) <=> a = 2 * p
    BY <1>3, <1>4 DEF IsLower
  <2>2. B = IF IsLower(FindIndex(K, from))
            THEN InsertAt(IF ContainsHeight(r, to) THEN K
                          ELSE InsertAt(K, FindIndex(K, from), to),
                          FindIndex(K, from), from)
            ELSE IF ContainsHeight(r, to) THEN K
                 ELSE InsertAt(K, FindIndex(K, from), to)
    BY DEF Bounds
  <2>. HIDE DEF B, K
  <2>. QED
    BY <1>13, <2>1, <2>2
<1>16. /\ U \in Seq(1..MaxHeight) /\ Len(U) = a + 1 + (2 * n - 2 * q)
       /\ \A i \in 1..a : U[i] = r[i]
       /\ U[a + 1] = y
       /\ \A i \in (2 * q + 1)..(2 * n) : U[a + 1 + (i - 2 * q)] = r[i]
  <2>1. CASE b = 2 * q
    <3>1. U = K /\ y = r[2 * q]
      BY <1>14, <2>1
    <3>. HIDE DEF U, K, y
    <3>2. /\ a + (2 * n + 1 - b) = a + 1 + (2 * n - 2 * q)
          /\ 2 * q \in b..(2 * n) /\ a + 1 + (2 * q - b) = a + 1
          /\ \A i \in (2 * q + 1)..(2 * n) : i \in b..(2 * n)
      BY <1>3, <1>4, <1>5, <2>1
    <3>3. K[a + 1] = r[2 * q]
      BY <1>12, <3>2
    <3>4. \A i \in (2 * q + 1)..(2 * n) : K[a + 1 + (i - 2 * q)] = r[i]
      BY <1>12, <2>1, <3>2
    <3>. QED
      BY <1>12, <3>1, <3>2, <3>3, <3>4
  <2>2. CASE b # 2 * q
    <3>1. U = InsertAt(K, a + 1, to) /\ y = to
      BY <1>14, <2>2
    <3>. HIDE DEF U, K, y
    <3>2. /\ a \in Nat /\ a <= Len(K)
          /\ Len(K) + 1 = a + 1 + (2 * n - 2 * q)
          /\ \A i \in (2 * q + 1)..(2 * n) :
               /\ i \in b..(2 * n)
               /\ a + 1 + (i - b) \in (a + 1)..Len(K)
               /\ (a + 1 + (i - b)) + 1 = a + 1 + (i - 2 * q)
      BY <1>3, <1>4, <1>5, <1>12, <2>2
    <3>3. /\ U \in Seq(1..MaxHeight) /\ Len(U) = Len(K) + 1
          /\ \A i \in 1..a : U[i] = K[i]
          /\ U[a + 1] = to
          /\ \A i \in (a + 1)..Len(K) : U[i + 1] = K[i]
      <4>1. Inserted(U, K, a, to)
        BY <1>12, <3>1, <3>2, InsertAtIs
      <4>. QED
        BY <4>1 DEF Inserted
    <3>4. \A i \in (2 * q + 1)..(2 * n) : U[a + 1 + (i - 2 * q)] = r[i]
      <4>1. SUFFICES ASSUME NEW i \in (2 * q + 1)..(2 * n)
                     PROVE  U[a + 1 + (i - 2 * q)] = r[i]
        OBVIOUS
      <4>2. /\ U[(a + 1 + (i - b)) + 1] = K[a + 1 + (i - b)]
            /\ K[a + 1 + (i - b)] = r[i]
        BY <1>12, <3>2, <3>3
      <4>. QED
        BY <3>2, <4>2
    <3>. QED
      BY <1>12, <3>1, <3>2, <3>3, <3>4
  <2>. QED
    BY <2>1, <2>2
<1>17. /\ B \in Seq(1..MaxHeight) /\ Len(B) = 2 * (p + 1 + (n - q))
       /\ \A i \in 1..(2 * p) : B[i] = r[i]
       /\ B[2 * p + 1] = x /\ B[2 * p + 2] = y
       /\ \A i \in (2 * q + 1)..(2 * n) : B[2 * p + 2 + (i - 2 * q)] = r[i]
  <2>1. CASE a # 2 * p
    <3>1. B = U /\ x = r[2 * p + 1] /\ a = 2 * p + 1
      BY <1>5, <1>15, <2>1
    <3>. HIDE DEF U, B, x, y
    <3>2. /\ a + 1 + (2 * n - 2 * q) = 2 * (p + 1 + (n - q))
          /\ \A i \in 1..(2 * p) : i \in 1..a
          /\ 2 * p + 1 \in 1..a /\ a + 1 = 2 * p + 2
      BY <1>4, <3>1
    <3>. QED
      BY <1>16, <3>1, <3>2
  <2>2. CASE a = 2 * p
    <3>1. B = InsertAt(U, a + 1, from) /\ x = from
      BY <1>15, <2>2
    <3>. HIDE DEF U, B, x, y
    <3>2. /\ a \in Nat /\ a <= Len(U)
          /\ Len(U) + 1 = 2 * (p + 1 + (n - q))
          /\ a + 1 \in (a + 1)..Len(U) /\ (a + 1) + 1 = 2 * p + 2
          /\ \A i \in (2 * q + 1)..(2 * n) :
               /\ a + 1 + (i - 2 * q) \in (a + 1)..Len(U)
               /\ (a + 1 + (i - 2 * q)) + 1 = 2 * p + 2 + (i - 2 * q)
      BY <1>3, <1>4, <1>16, <2>2
    <3>3. /\ B \in Seq(1..MaxHeight) /\ Len(B) = Len(U) + 1
          /\ \A i \in 1..a : B[i] = U[i]
          /\ B[a + 1] = from
          /\ \A i \in (a + 1)..Len(U) : B[i + 1] = U[i]
      <4>1. Inserted(B, U, a, from)
        BY <1>16, <3>1, <3>2, InsertAtIs
      <4>. QED
        BY <4>1 DEF Inserted
    <3>4. B[2 * p + 2] = y
      <4>1. B[(a + 1) + 1] = U[a + 1]
        BY <3>2, <3>3
      <4>. QED
        BY <1>16, <3>2, <4>1
    <3>5. \A i \in (2 * q + 1)..(2 * n) : B[2 * p + 2 + (i - 2 * q)] = r[i]
      <4>1. SUFFICES ASSUME NEW i \in (2 * q + 1)..(2 * n)
                     PROVE  B[2 * p + 2 + (i - 2 * q)] = r[i]
        OBVIOUS
      <4>2. /\ B[(a + 1 + (i - 2 * q)) + 1] = U[a + 1 + (i - 2 * q)]
            /\ U[a + 1 + (i - 2 * q)] = r[i]
        BY <1>16, <3>2, <3>3
      <4>. QED
        BY <3>2, <4>2
    <3>. QED
      BY <1>16, <2>2, <3>1, <3>2, <3>3, <3>4, <3>5
  <2>. QED
    BY <2>1, <2>2
<1>. DEFINE m == p + 1 + (n - q)
<1>18. m \in Nat \ {0}
  BY <1>4
<1>19. /\ Sorted(B, m)
       /\ \A h \in Int : Inside(B, m, h) <=> InsideSpliced(r, n, p, q, x, y, h)
  <2>. HIDE DEF B, x, y
  <2>1. Spliced(B, r, n, p, q, x, y)
    BY <1>4, <1>7, <1>8, <1>9, <1>10, <1>11, <1>17 DEF Spliced
  <2>. QED
    BY <1>4, <2>1, SplicedIs
<1>20. \A k \in 1..n : /\ 2 * k - 1 \in 1..(2 * n) /\ 2 * k \in 1..(2 * n)
                       /\ r[2 * k - 1] \in Int /\ r[2 * k] \in Int
                       /\ r[2 * k - 1] <= r[2 * k]
  <2>1. \A k \in 1..n : /\ 2 * k - 1 \in 1..(2 * n) /\ 2 * k \in 1..(2 * n)
                        /\ r[2 * k - 1] <= r[2 * k]
    BY SortedIs
  <2>. QED
    BY <1>6, <2>1
<1>21. ASSUME NEW h \in Int, x <= h, h <= y
       PROVE  Inside(r, n, h) \/ (from <= h /\ h <= to)
  <2>1. CASE h < from
    <3>1. a # 2 * p /\ x = r[2 * p + 1]
      BY <1>1, <1>21, <2>1
    <3>. HIDE DEF x, y
    <3>2. /\ p + 1 \in 1..n /\ 2 * (p + 1) - 1 = 2 * p + 1
          /\ 2 * (p + 1) \in 1..(2 * n) /\ ~(2 * (p + 1) <= a)
      BY <1>3, <1>4, <1>5, <3>1
    <3>3. ~(r[2 * (p + 1)] < from) /\ r[2 * (p + 1)] \in Int
      BY <1>3, <1>6, <3>2
    <3>4. r[2 * (p + 1) - 1] <= h /\ h <= r[2 * (p + 1)]
      BY <1>1, <1>21, <2>1, <3>1, <3>2, <3>3
    <3>. QED
      BY <3>2, <3>4 DEF Inside
  <2>2. CASE to < h
    <3>1. b = 2 * q /\ y = r[2 * q]
      BY <1>1, <1>21, <2>2
    <3>. HIDE DEF x, y
    <3>2. /\ q \in 1..n /\ 2 * q - 1 \in 1..(2 * n) /\ ~(b <= 2 * q - 1)
      BY <1>3, <1>4, <1>5, <3>1
    <3>3. ~(r[2 * q - 1] > to) /\ r[2 * q - 1] \in Int
      BY <1>3, <1>6, <3>2
    <3>4. r[2 * q - 1] <= h /\ h <= r[2 * q]
      BY <1>1, <1>21, <2>2, <3>1, <3>3
    <3>. QED
      BY <3>2, <3>4 DEF Inside
  <2>. QED
    BY <1>1, <2>1, <2>2
<1>22. ASSUME NEW h \in Int, NEW k \in 1..n, p < k, k <= q,
              r[2 * k - 1] <= h, h <= r[2 * k]
       PROVE  x <= h /\ h <= y
  <2>1. x <= r[2 * k - 1]
    <3>1. CASE a = 2 * p
      <4>1. ~(2 * k - 1 <= a) /\ x = from
        BY <1>4, <1>22, <3>1
      <4>2. ~(r[2 * k - 1] < from)
        BY <1>3, <1>20, <4>1
      <4>. HIDE DEF x
      <4>. QED
        BY <1>1, <1>20, <4>1, <4>2
    <3>2. CASE a # 2 * p
      <4>1. /\ x = r[2 * p + 1] /\ 2 * p + 1 \in 1..(2 * n)
            /\ 2 * p + 1 <= 2 * k - 1
        BY <1>4, <1>5, <1>22, <3>2
      <4>2. r[2 * p + 1] <= r[2 * k - 1]
        BY <1>20, <4>1, Monotone
      <4>. QED
        BY <4>1, <4>2
    <3>. QED
      BY <3>1, <3>2
  <2>2. r[2 * k] <= y
    <3>1. CASE b # 2 * q
      <4>1. ~(b <= 2 * k) /\ y = to
        BY <1>4, <1>5, <1>22, <3>1
      <4>2. ~(r[2 * k] > to)
        BY <1>3, <1>20, <4>1
      <4>. HIDE DEF y
      <4>. QED
        BY <1>1, <1>20, <4>1, <4>2
    <3>2. CASE b = 2 * q
      <4>1. y = r[2 * q] /\ 2 * q \in 1..(2 * n) /\ 2 * k <= 2 * q
        BY <1>4, <1>5, <1>22, <3>2
      <4>2. r[2 * k] <= r[2 * q]
        BY <1>20, <4>1, Monotone
      <4>. QED
        BY <4>1, <4>2
    <3>. QED
      BY <3>1, <3>2
  <2>. HIDE DEF x, y
  <2>. QED
    BY <1>7, <1>8, <1>20, <1>22, <2>1, <2>2
<1>23. ASSUME NEW h \in Int
       PROVE  Inside(B, m, h) <=> Inside(r, n, h) \/ (from <= h /\ h <= to)
  <2>. HIDE DEF B, m, x, y
  <2>1. ASSUME Inside(B, m, h)
        PROVE  Inside(r, n, h) \/ (from <= h /\ h <= to)
    <3>1. CASE x <= h /\ h <= y
      BY <1>21, <3>1
    <3>2. CASE \E k \in 1..n : /\ k <= p \/ q < k
                               /\ r[2 * k - 1] <= h /\ h <= r[2 * k]
      BY <3>2 DEF Inside
    <3>. QED
      BY <1>19, <2>1, <3>1, <3>2 DEF InsideSpliced
  <2>2. ASSUME from <= h, h <= to PROVE Inside(B, m, h)
    <3>1. x <= h /\ h <= y
      BY <1>1, <1>7, <1>8, <2>2
    <3>. QED
      BY <1>19, <3>1 DEF InsideSpliced
  <2>3. ASSUME Inside(r, n, h) PROVE Inside(B, m, h)
    <3>1. PICK k \in 1..n : r[2 * k - 1] <= h /\ h <= r[2 * k]
      BY <2>3 DEF Inside
    <3>2. CASE k <= p \/ q < k
      BY <1>19, <3>1, <3>2 DEF InsideSpliced
    <3>3. CASE ~(k <= p \/ q < k)
      <4>1. p < k /\ k <= q
        BY <1>4, <3>3
      <4>2. x <= h /\ h <= y
        BY <1>22, <3>1, <4>1
      <4>. QED
        BY <1>19, <4>2 DEF InsideSpliced
    <3>. QED
      BY <3>2, <3>3
  <2>. QED
    BY <2>1, <2>2, <2>3
<1>. HIDE DEF B, m
<1>24. \E j \in Nat \ {0} :
         /\ Sorted(B, j)
         /\ \A h \in Int : Inside(B, j, h) <=> Inside(r, n, h) \/ (from <= h /\ h <= to)
  BY <1>18, <1>19, <1>23
<1>. QED
  BY <1>24 DEF B

-----------------------------------------------------------------------------
(* Insert.                                                                 *)

(* `insert` keeps a vector canonical and adds exactly from..to, unless     *)
(* from..to ends where a stored interval ends.                             *)
LEMMA InsertIs ==
  ASSUME NEW r, Canonical(r),
         NEW from \in 1..MaxHeight, NEW to \in 1..MaxHeight, from <= to,
         \A i \in Lowers(r) : r[i + 1] # to
  PROVE  /\ Canonical(Insert(r, from, to))
         /\ Covered(Insert(r, from, to)) = Covered(r) \cup (from..to)
<1>1. PICK n \in Nat : Sorted(r, n) /\ Separate(r, n)
  BY CanonicalIs
<1>2. from \in Int /\ to \in Int
  OBVIOUS
<1>3. CASE r = <<>>
  <2>. DEFINE t == <<from, to>>
  <2>1. Insert(r, from, to) = t
    BY <1>3 DEF Insert
  <2>2. t \in Seq(1..MaxHeight) /\ Len(t) = 2 * 1 /\ t[1] = from /\ t[2] = to
    OBVIOUS
  <2>. HIDE DEF t
  <2>3. /\ \A k \in 1..1 : 2 * k - 1 = 1 /\ 2 * k = 2
        /\ 1 \in 1..1 /\ 2 * 1 - 1 = 1
    OBVIOUS
  <2>4. Sorted(t, 1) /\ Separate(t, 1)
    BY <2>2, <2>3 DEF Sorted, Separate
  <2>5. \A h \in Int : Inside(t, 1, h) <=> from <= h /\ h <= to
    BY <2>2, <2>3 DEF Inside
  <2>6. Canonical(t)
    BY <2>4, CanonicalIs
  <2>7. /\ Covered(t) \in SUBSET (1..MaxHeight)
        /\ \A h \in Int : h \in Covered(t) <=> Inside(t, 1, h)
    BY <2>4, CoveredIs
  <2>8. Covered(t) = from..to
    <3>1. \A h \in Int : h \in Covered(t) <=> h \in from..to
      BY <1>2, <2>5, <2>7
    <3>2. Covered(t) \subseteq Int /\ from..to \subseteq Int
      BY <2>7
    <3>. QED
      BY <3>1, <3>2, Zenon
  <2>9. Covered(r) = {}
    BY <1>3 DEF Covered, Lowers
  <2>. QED
    BY <2>1, <2>6, <2>8, <2>9
<1>4. CASE r # <<>>
  <2>1. \A k \in 1..n : r[2 * k] # to
    <3>1. SUFFICES ASSUME NEW k \in 1..n PROVE r[2 * k] # to
      OBVIOUS
    <3>2. 2 * k - 1 \in Lowers(r) /\ (2 * k - 1) + 1 = 2 * k
      BY <1>1, LowersAre DEF Sorted
    <3>3. r[(2 * k - 1) + 1] # to
      BY <3>2
    <3>. QED
      BY <3>2, <3>3
  <2>. DEFINE B == Bounds(r, from, to)
  <2>2. PICK m \in Nat \ {0} :
          /\ Sorted(B, m)
          /\ \A h \in Int : Inside(B, m, h) <=>
               Inside(r, n, h) \/ (from <= h /\ h <= to)
    BY <1>1, <2>1, BoundsAre
  <2>3. Insert(r, from, to) = Simplify(B)
    BY <1>4 DEF Insert
  <2>. HIDE DEF B
  <2>4. Canonical(Simplify(B)) /\ Covered(Simplify(B)) = Covered(B)
    BY <2>2, SimplifyIs
  <2>5. /\ Covered(B) \in SUBSET (1..MaxHeight)
        /\ \A h \in Int : h \in Covered(B) <=> Inside(B, m, h)
    BY <2>2, CoveredIs
  <2>6. /\ Covered(r) \in SUBSET (1..MaxHeight)
        /\ \A h \in Int : h \in Covered(r) <=> Inside(r, n, h)
    BY <1>1, CoveredIs
  <2>7. \A h \in Int : h \in Covered(B) <=> h \in Covered(r) \cup (from..to)
    <3>1. \A h \in Int : h \in from..to <=> from <= h /\ h <= to
      BY <1>2
    <3>. QED
      BY <2>2, <2>5, <2>6, <3>1
  <2>8. Covered(B) \subseteq Int /\ Covered(r) \cup (from..to) \subseteq Int
    BY <2>5, <2>6
  <2>9. Covered(B) = Covered(r) \cup (from..to)
    BY <2>7, <2>8, Zenon
  <2>. QED
    BY <2>3, <2>4, <2>9
<1>. QED
  BY <1>3, <1>4

(* The vector stays well formed, whatever the order in which the fetch     *)
(* tasks finish and hand in their intervals.                               *)
THEOREM RangesCanonical == Spec => []TypeOK
<1>1. TypeOK <=> Canonical(ranges)
  BY DEF TypeOK, Canonical
<1>2. Init => TypeOK
  BY DEF Init, TypeOK, Lowers
<1>3. ASSUME TypeOK, Next PROVE TypeOK'
  <2>1. PICK x \in Intervals : InsertDisjoint(x[1], x[2])
    BY <1>3 DEF Next
  <2>. DEFINE from == x[1]
              to == x[2]
  <2>2. /\ from \in 1..MaxHeight /\ to \in 1..MaxHeight /\ from <= to
        /\ from \in Int /\ to \in Int
    BY <2>1 DEF Intervals
  <2>. HIDE DEF from, to
  <2>3. /\ \A h \in from..to : ~ContainsHeight(ranges, h)
        /\ ranges' = Insert(ranges, from, to)
    BY <2>1 DEF InsertDisjoint, from, to
  <2>4. ASSUME NEW i \in Lowers(ranges) PROVE ranges[i + 1] # to
    <3>1. to \in from..to
      BY <2>2
    <3>2. ranges[i] <= ranges[i + 1]
      BY <1>3, <2>4 DEF TypeOK
    <3>3. to <= to
      BY <2>2
    <3>. QED
      BY <2>3, <2>4, <3>1, <3>2, <3>3 DEF ContainsHeight
  <2>5. Canonical(Insert(ranges, from, to))
    BY <1>1, <1>3, <2>2, <2>4, InsertIs
  <2>. QED
    BY <2>3, <2>5 DEF Canonical, TypeOK, Lowers
<1>4. ASSUME TypeOK, UNCHANGED ranges PROVE TypeOK'
  BY <1>4 DEF TypeOK, Lowers
<1>. QED
  BY <1>2, <1>3, <1>4, PTL DEF Spec

(* In every state an insertion adds its interval to the set of heights and *)
(* changes nothing else of it.                                             *)
THEOREM InsertionsAreExact == Spec => []InsertIsExact
<1>1. ASSUME TypeOK PROVE InsertIsExact
  <2>1. Canonical(ranges)
    BY <1>1 DEF TypeOK, Canonical
  <2>2. SUFFICES ASSUME NEW x \in Intervals, x[2] \notin UpperBounds
                 PROVE  Covered(Insert(ranges, x[1], x[2]))
                          = Covered(ranges) \cup (x[1]..x[2])
    BY DEF InsertIsExact
  <2>3. x[1] \in 1..MaxHeight /\ x[2] \in 1..MaxHeight /\ x[1] <= x[2]
    BY DEF Intervals
  <2>4. \A i \in Lowers(ranges) : ranges[i + 1] # x[2]
    BY <2>2 DEF UpperBounds
  <2>. QED
    BY <2>1, <2>3, <2>4, InsertIs
<1>. QED
  BY <1>1, RangesCanonical, PTL

(* `first` is the operator First that the model of the fetcher uses: the   *)
(* height after the lowest fetched interval (utils.rs:130-135).  It is not *)
(* "the first block height not contained" (utils.rs:129) when the lowest   *)
(* interval begins above 1, as SyncedToIsComplete of Fetcher shows.        *)
THEOREM FirstIsAfterLowest ==
  Spec => [](FirstMissing(ranges) = H!First(Covered(ranges)))
<1>1. ASSUME TypeOK PROVE FirstMissing(ranges) = H!First(Covered(ranges))
  <2>1. Canonical(ranges)
    BY <1>1 DEF TypeOK, Canonical
  <2>. QED
    BY <2>1, FirstIs
<1>. QED
  BY <1>1, RangesCanonical, PTL

-----------------------------------------------------------------------------
(* The gaps.                                                               *)

(* The gaps of from..to that end at a covered height below e.              *)
Closed(C, from, to, e) ==
  {g \in (from..to) \X (from..to) :
     /\ g[1] <= g[2]
     /\ \A h \in g[1]..g[2] : h \notin C
     /\ g[1] = from \/ g[1] - 1 \in C
     /\ g[2] + 1 \in C /\ g[2] + 1 < e}

(* The gap that is open at height e, if there is one, begins at start.     *)
Open(C, from, start, e) ==
  /\ start \in from..e
  /\ \A h \in start..(e - 1) : h \notin C
  /\ start = from \/ start - 1 \in C

(* No other gap ends where e is not covered or follows a covered height.   *)
LEMMA ClosedSame ==
  ASSUME NEW C, NEW from \in Int, NEW to \in Int, NEW e \in from..to
  PROVE  /\ Closed(C, from, to, from) = {}
         /\ e \notin C \/ (e # from /\ e - 1 \in C) =>
              Closed(C, from, to, e + 1) = Closed(C, from, to, e)
<1>. DEFINE P == (from..to) \X (from..to)
            IsClosed(g, d) == /\ g[1] <= g[2]
                              /\ \A h \in g[1]..g[2] : h \notin C
                              /\ g[1] = from \/ g[1] - 1 \in C
                              /\ g[2] + 1 \in C /\ g[2] + 1 < d
<1>1. /\ \A d : Closed(C, from, to, d) = {g \in P : IsClosed(g, d)}
      /\ \A g \in P : /\ g[1] \in from..to /\ g[2] \in from..to
                      /\ g = <<g[1], g[2]>>
                      /\ g[1] \in Int /\ g[2] \in Int
      /\ e \in Int
  BY DEF Closed
<1>2. Closed(C, from, to, from) = {}
  <2>1. \A g \in P : ~IsClosed(g, from)
    BY <1>1
  <2>. HIDE DEF P, IsClosed
  <2>. QED
    BY <1>1, <2>1
<1>3. ASSUME e \notin C \/ (e # from /\ e - 1 \in C)
      PROVE  Closed(C, from, to, e + 1) = Closed(C, from, to, e)
  <2>1. ASSUME NEW g \in P PROVE IsClosed(g, e + 1) <=> IsClosed(g, e)
    <3>1. g[1] \in Int /\ g[2] \in Int
      BY <1>1
    <3>2. ASSUME IsClosed(g, e + 1) PROVE g[2] + 1 # e
      <4>1. SUFFICES ASSUME g[2] + 1 = e PROVE FALSE
        OBVIOUS
      <4>2. e \in C /\ g[2] \in g[1]..g[2] /\ g[2] \notin C /\ g[2] = e - 1
        BY <1>1, <3>1, <3>2, <4>1
      <4>. QED
        BY <1>3, <4>2
    <3>. QED
      BY <1>1, <3>1, <3>2
  <2>. HIDE DEF P, IsClosed
  <2>. QED
    BY <1>1, <2>1
<1>. QED
  BY <1>2, <1>3

ClosedAfter(C, from, to, start, e) ==
  IF e > start THEN Closed(C, from, to, e) \cup {<<start, e - 1>>}
  ELSE Closed(C, from, to, e)

(* A covered height e closes the gap that is open there.                   *)
LEMMA ClosedGrows ==
  ASSUME NEW C, NEW from \in Int, NEW to \in Int, NEW e \in from..to, e \in C,
         NEW start, Open(C, from, start, e)
  PROVE  Closed(C, from, to, e + 1) = ClosedAfter(C, from, to, start, e)
<1>. DEFINE P == (from..to) \X (from..to)
            IsClosed(g, d) == /\ g[1] <= g[2]
                              /\ \A h \in g[1]..g[2] : h \notin C
                              /\ g[1] = from \/ g[1] - 1 \in C
                              /\ g[2] + 1 \in C /\ g[2] + 1 < d
<1>1. /\ \A d : Closed(C, from, to, d) = {g \in P : IsClosed(g, d)}
      /\ \A g \in P : /\ g[1] \in from..to /\ g[2] \in from..to
                      /\ g = <<g[1], g[2]>>
                      /\ g[1] \in Int /\ g[2] \in Int
      /\ e \in Int
  BY DEF Closed
<1>2. /\ start \in from..e /\ start \in Int
      /\ \A h \in start..(e - 1) : h \notin C
      /\ start = from \/ start - 1 \in C
  BY DEF Open
<1>3. ASSUME e > start
      PROVE  <<start, e - 1>> \in P /\ IsClosed(<<start, e - 1>>, e + 1)
  <2>1. start \in from..to /\ e - 1 \in from..to /\ (e - 1) + 1 = e
    BY <1>1, <1>2, <1>3
  <2>2. start <= e - 1 /\ e < e + 1
    BY <1>1, <1>2, <1>3
  <2>. QED
    BY <1>2, <2>1, <2>2
<1>4. ASSUME NEW g \in P, IsClosed(g, e + 1), ~IsClosed(g, e)
      PROVE  e > start /\ g = <<start, e - 1>>
  <2>1. /\ g[1] \in Int /\ g[2] \in Int /\ g[1] \in from..to
        /\ g[2] = e - 1 /\ g[1] <= e - 1
        /\ \A h \in g[1]..(e - 1) : h \notin C
        /\ g[1] = from \/ g[1] - 1 \in C
    BY <1>1, <1>4
  <2>2. ~(g[1] < start)
    <3>1. SUFFICES ASSUME g[1] < start PROVE FALSE
      OBVIOUS
    <3>2. start - 1 \in C /\ start - 1 \in g[1]..(e - 1)
      BY <1>1, <1>2, <2>1, <3>1
    <3>. QED
      BY <2>1, <3>2
  <2>3. ~(start < g[1])
    <3>1. SUFFICES ASSUME start < g[1] PROVE FALSE
      OBVIOUS
    <3>2. g[1] - 1 \in C /\ g[1] - 1 \in start..(e - 1)
      BY <1>1, <1>2, <2>1, <3>1
    <3>. QED
      BY <1>2, <3>2
  <2>4. g[1] = start
    BY <1>2, <2>1, <2>2, <2>3
  <2>5. g = <<g[1], g[2]>>
    BY <1>1
  <2>. QED
    BY <1>1, <1>2, <2>1, <2>4, <2>5
<1>5. \A g \in P : IsClosed(g, e) => IsClosed(g, e + 1)
  BY <1>1
<1>. HIDE DEF P, IsClosed
<1>6. CASE e > start
  BY <1>1, <1>3, <1>4, <1>5, <1>6 DEF ClosedAfter
<1>7. CASE ~(e > start)
  BY <1>1, <1>4, <1>5, <1>7 DEF ClosedAfter
<1>. QED
  BY <1>6, <1>7

(* All gaps are those that a covered height of from..to closes, and the    *)
(* one that is still open at its end.                                      *)
LEMMA GapsAre ==
  ASSUME NEW C, NEW from \in Int, NEW to \in Int, from <= to, NEW start
  PROVE  /\ to \in C => H!Gaps(C, from, to) = Closed(C, from, to, to + 1)
         /\ Open(C, from, start, to + 1) /\ start <= to =>
              H!Gaps(C, from, to) = Closed(C, from, to, to + 1) \cup {<<start, to>>}
<1>. DEFINE P == (from..to) \X (from..to)
            Begun(g) == /\ g[1] <= g[2]
                        /\ \A h \in g[1]..g[2] : h \notin C
                        /\ g[1] = from \/ g[1] - 1 \in C
<1>1. /\ \A g \in P : /\ g[1] \in from..to /\ g[2] \in from..to
                      /\ g = <<g[1], g[2]>>
                      /\ g[1] \in Int /\ g[2] \in Int
  OBVIOUS
<1>2. H!Gaps(C, from, to) = {g \in P : Begun(g) /\ (g[2] = to \/ g[2] + 1 \in C)}
  <2>1. ASSUME NEW g \in P
        PROVE  (g[1]..g[2]) \cap C = {} <=> \A h \in g[1]..g[2] : h \notin C
    OBVIOUS
  <2>2. H!Gaps(C, from, to) =
          {g \in P : /\ g[1] <= g[2]
                     /\ (g[1]..g[2]) \cap C = {}
                     /\ g[1] = from \/ g[1] - 1 \in C
                     /\ g[2] = to \/ g[2] + 1 \in C}
    BY DEF H!Gaps
  <2>. HIDE DEF P
  <2>. QED
    BY <2>1, <2>2
<1>3. Closed(C, from, to, to + 1) =
        {g \in P : Begun(g) /\ g[2] + 1 \in C /\ g[2] + 1 < to + 1}
  BY DEF Closed
<1>4. \A g \in P : g[2] + 1 < to + 1 <=> g[2] # to
  BY <1>1
<1>5. ASSUME to \in C, NEW g \in P, Begun(g) PROVE g[2] # to
  <2>1. g[2] \in g[1]..g[2]
    BY <1>1, <1>5
  <2>. QED
    BY <1>5, <2>1
<1>6. ASSUME Open(C, from, start, to + 1), start <= to
      PROVE  /\ <<start, to>> \in P /\ Begun(<<start, to>>)
             /\ \A g \in P : Begun(g) /\ g[2] = to => g = <<start, to>>
  <2>1. /\ start \in from..to /\ start \in Int
        /\ \A h \in start..to : h \notin C
        /\ start = from \/ start - 1 \in C
    <3>1. (to + 1) - 1 = to
      OBVIOUS
    <3>. QED
      BY <1>6, <3>1 DEF Open
  <2>2. <<start, to>> \in P /\ Begun(<<start, to>>)
    BY <1>6, <2>1
  <2>3. ASSUME NEW g \in P, Begun(g), g[2] = to PROVE g = <<start, to>>
    <3>1. /\ g[1] \in Int /\ g[1] \in from..to
          /\ \A h \in g[1]..to : h \notin C
          /\ g[1] = from \/ g[1] - 1 \in C
      BY <1>1, <2>3
    <3>2. ~(g[1] < start)
      <4>1. SUFFICES ASSUME g[1] < start PROVE FALSE
        OBVIOUS
      <4>2. start - 1 \in C /\ start - 1 \in g[1]..to
        BY <2>1, <3>1, <4>1
      <4>. QED
        BY <3>1, <4>2
    <3>3. ~(start < g[1])
      <4>1. SUFFICES ASSUME start < g[1] PROVE FALSE
        OBVIOUS
      <4>2. g[1] - 1 \in C /\ g[1] - 1 \in start..to
        BY <2>1, <3>1, <4>1
      <4>. QED
        BY <2>1, <4>2
    <3>4. g[1] = start
      BY <2>1, <3>1, <3>2, <3>3
    <3>5. g = <<g[1], g[2]>>
      BY <1>1
    <3>. QED
      BY <2>3, <3>4, <3>5
  <2>. QED
    BY <2>2, <2>3
<1>7. ASSUME to \in C PROVE H!Gaps(C, from, to) = Closed(C, from, to, to + 1)
  <2>. HIDE DEF P, Begun
  <2>1. \A g \in P : Begun(g) => g[2] # to
    BY <1>5, <1>7
  <2>. QED
    BY <1>2, <1>3, <1>4, <2>1
<1>8. ASSUME Open(C, from, start, to + 1), start <= to
      PROVE  H!Gaps(C, from, to) = Closed(C, from, to, to + 1) \cup {<<start, to>>}
  <2>. HIDE DEF P, Begun
  <2>1. /\ <<start, to>> \in P /\ Begun(<<start, to>>)
        /\ \A g \in P : Begun(g) /\ g[2] = to => g = <<start, to>>
        /\ <<start, to>>[2] = to
    BY <1>6, <1>8
  <2>. QED
    BY <1>2, <1>3, <1>4, <2>1
<1>. QED
  BY <1>7, <1>8

(* The list has the members of the set, in ascending order.                *)
Lists(L, S) ==
  /\ L \in Seq(Int \X Int)
  /\ \A i \in 1..Len(L) : L[i] \in S
  /\ \A g \in S : \E i \in 1..Len(L) : L[i] = g
  /\ \A i \in 1..(Len(L) - 1) : L[i][2] < L[i + 1][1]

(* An interval above all members of the list is put behind them.           *)
LEMMA ListGrows ==
  ASSUME NEW L, NEW S, Lists(L, S), NEW x \in Int, NEW y \in Int,
         \A g \in S : g[2] < x
  PROVE  Lists(Append(L, <<x, y>>), S \cup {<<x, y>>})
<1>. DEFINE g == <<x, y>>
            n == Len(L)
            A == Append(L, g)
<1>1. /\ L \in Seq(Int \X Int) /\ g \in Int \X Int /\ g[1] = x
      /\ n \in Nat
      /\ \A i \in 1..n : L[i] \in S
      /\ \A z \in S : \E i \in 1..n : L[i] = z
      /\ \A i \in 1..(n - 1) : L[i][2] < L[i + 1][1]
      /\ \A z \in S : z[2] < g[1]
  BY DEF Lists
<1>. HIDE DEF g, n
<1>2. /\ A \in Seq(Int \X Int) /\ Len(A) = n + 1
      /\ \A i \in 1..n : A[i] = L[i]
      /\ A[n + 1] = g
  BY <1>1, AppendProperties DEF n
<1>. HIDE DEF A
<1>3. /\ \A i \in 1..(n + 1) : i \in 1..n \/ i = n + 1
      /\ \A i \in 1..n : i \in 1..(n + 1)
      /\ n + 1 \in 1..(n + 1) /\ (n + 1) - 1 = n
      /\ \A i \in 1..n : i = n \/ (i \in 1..(n - 1) /\ i + 1 \in 1..n)
  BY <1>1
<1>4. \A i \in 1..Len(A) : A[i] \in S \cup {g}
  BY <1>1, <1>2, <1>3
<1>5. \A z \in S \cup {g} : \E i \in 1..Len(A) : A[i] = z
  <2>1. ASSUME NEW z \in S PROVE \E i \in 1..Len(A) : A[i] = z
    <3>1. PICK i \in 1..n : L[i] = z
      BY <1>1
    <3>2. i \in 1..(n + 1) /\ A[i] = z
      BY <1>2, <1>3, <3>1
    <3>. QED
      BY <1>2, <3>2
  <2>2. n + 1 \in 1..Len(A) /\ A[n + 1] = g
    BY <1>2, <1>3
  <2>. QED
    BY <2>1, <2>2
<1>6. ASSUME NEW i \in 1..(Len(A) - 1) PROVE A[i][2] < A[i + 1][1]
  <2>1. i \in 1..n
    BY <1>2, <1>3, <1>6
  <2>2. CASE i = n
    <3>1. A[i] = L[i] /\ A[i + 1] = g /\ L[i] \in S
      BY <1>1, <1>2, <2>1, <2>2
    <3>. QED
      BY <1>1, <3>1
  <2>3. CASE i # n
    <3>1. i \in 1..(n - 1) /\ i + 1 \in 1..n
      BY <1>3, <2>1, <2>3
    <3>2. A[i] = L[i] /\ A[i + 1] = L[i + 1]
      BY <1>2, <2>1, <3>1
    <3>. QED
      BY <1>1, <3>1, <3>2
  <2>. QED
    BY <2>2, <2>3
<1>. QED
  BY <1>2, <1>4, <1>5, <1>6 DEF Lists, A, g

LoopState == [list : Seq(Int \X Int), start : Int, need : BOOLEAN]

(* One turn of the loop of `blocks_left_to_fetch`.                         *)
LEMMA LeftStepIs ==
  ASSUME NEW r, NEW acc \in LoopState, NEW h \in Int
  PROVE  /\ LeftStep(r, acc, h) \in LoopState
         /\ acc.need /\ ContainsHeight(r, h) =>
              LeftStep(r, acc, h) =
                [list  |-> IF h > acc.start
                           THEN Append(acc.list, <<acc.start, h - 1>>)
                           ELSE acc.list,
                 start |-> acc.start, need |-> FALSE]
         /\ ~acc.need /\ ~ContainsHeight(r, h) =>
              LeftStep(r, acc, h) =
                [list |-> acc.list, start |-> h, need |-> TRUE]
         /\ (acc.need <=> ~ContainsHeight(r, h)) => LeftStep(r, acc, h) = acc
<1>1. /\ acc.list \in Seq(Int \X Int) /\ acc.start \in Int /\ acc.need \in BOOLEAN
      /\ acc = [list |-> acc.list, start |-> acc.start, need |-> acc.need]
  BY DEF LoopState
<1>2. Append(acc.list, <<acc.start, h - 1>>) \in Seq(Int \X Int)
  <2>1. <<acc.start, h - 1>> \in Int \X Int
    BY <1>1
  <2>. QED
    BY <1>1, <2>1, AppendProperties
<1>3. ASSUME acc.need, ContainsHeight(r, h)
      PROVE  LeftStep(r, acc, h) =
                [list  |-> IF h > acc.start
                           THEN Append(acc.list, <<acc.start, h - 1>>)
                           ELSE acc.list,
                 start |-> acc.start, need |-> FALSE]
  BY <1>1, <1>3 DEF LeftStep
<1>4. ASSUME ~acc.need, ~ContainsHeight(r, h)
      PROVE  LeftStep(r, acc, h) =
                [list |-> acc.list, start |-> h, need |-> TRUE]
  BY <1>1, <1>4 DEF LeftStep
<1>5. ASSUME acc.need <=> ~ContainsHeight(r, h)
      PROVE  LeftStep(r, acc, h) = acc
  BY <1>5 DEF LeftStep
<1>6. LeftStep(r, acc, h) \in LoopState
  <2>1. CASE acc.need /\ ContainsHeight(r, h)
    <3>. DEFINE L == IF h > acc.start
                     THEN Append(acc.list, <<acc.start, h - 1>>)
                     ELSE acc.list
    <3>1. L \in Seq(Int \X Int)
      BY <1>1, <1>2
    <3>2. LeftStep(r, acc, h) = [list |-> L, start |-> acc.start, need |-> FALSE]
      BY <1>3, <2>1
    <3>. HIDE DEF L
    <3>3. [list |-> L, start |-> acc.start, need |-> FALSE] \in LoopState
      BY <1>1, <3>1 DEF LoopState
    <3>. QED
      BY <3>2, <3>3
  <2>2. CASE ~acc.need /\ ~ContainsHeight(r, h)
    <3>1. [list |-> acc.list, start |-> h, need |-> TRUE] \in LoopState
      BY <1>1 DEF LoopState
    <3>. QED
      BY <1>4, <2>2, <3>1
  <2>3. CASE acc.need <=> ~ContainsHeight(r, h)
    BY <1>5, <2>3
  <2>. QED
    BY <2>1, <2>2, <2>3
<1>. QED
  BY <1>3, <1>4, <1>5, <1>6

(* The states of the loop of `blocks_left_to_fetch`.                       *)
IsLeftLoop(f, r, from, to, m) ==
  /\ f \in [0..m -> LoopState]
  /\ f[0] = [list |-> <<>>, start |-> from, need |-> TRUE]
  /\ \A k \in 1..m : f[k] = LeftStep(r, f[k - 1], from + k - 1)
  /\ BlocksLeftToFetch(r, from, to) =
       IF f[m].need THEN Append(f[m].list, <<f[m].start, to>>) ELSE f[m].list

LEMMA LeftLoop ==
  ASSUME NEW r, NEW from \in Int, NEW to \in Int, from <= to,
         NEW m, m = to - from + 1
  PROVE  \E f : IsLeftLoop(f, r, from, to, m)
<1>. DEFINE T == LoopState
            base == [list |-> <<>>, start |-> from, need |-> TRUE]
            Turn(q, k) == LeftStep(r, q, from + k - 1)
            step == [x \in T \X (1..m) |-> Turn(x[1], x[2])]
            Body(f) == [n \in 0..m |-> IF n = 0 THEN base ELSE Turn(f[n - 1], n)]
<1>1. m \in Nat /\ base \in T
  BY DEF LoopState
<1>3. ASSUME NEW q \in T, NEW k \in 1..m PROVE Turn(q, k) \in T
  <2>1. from + k - 1 \in Int
    BY <1>1
  <2>. QED
    BY <2>1, LeftStepIs
<1>4. step \in [T \X (1..m) -> T]
  <2>. HIDE DEF Turn, T
  <2>. QED
    BY <1>3
<1>5. PICK f \in [0..m -> T] : IsLoop(f, m, base, step)
  <2>. HIDE DEF step, T, base
  <2>. QED
    BY <1>1, <1>4, LoopExists
<1>6. f = Body(f)
  <2>1. ASSUME NEW k \in 0..m, k # 0
        PROVE  step[<<f[k - 1], k>>] = Turn(f[k - 1], k)
    <3>1. k \in 1..m /\ k - 1 \in 0..m
      BY <1>1, <2>1
    <3>2. <<f[k - 1], k>> \in T \X (1..m)
      BY <3>1
    <3>. HIDE DEF Turn, T
    <3>. QED
      BY <3>2
  <2>. HIDE DEF step, Turn, T, base
  <2>. QED
    BY <1>5, <2>1 DEF IsLoop
<1>. DEFINE g == CHOOSE h : h = Body(h)
<1>7. g = Body(g)
  <2>. HIDE DEF Body
  <2>. QED
    BY <1>6
<1>8. BlocksLeftToFetch(r, from, to) =
        IF g[m].need THEN Append(g[m].list, <<g[m].start, to>>) ELSE g[m].list
  BY DEF BlocksLeftToFetch
<1>. HIDE DEF g
<1>9. \A k \in 0..m : g[k] \in T
  <2>. DEFINE S == {k \in 0..m : g[k] \in T}
  <2>1. 0 \in S
    <3>1. 0 \in 0..m
      BY <1>1
    <3>. HIDE DEF Turn, T, base
    <3>2. g[0] = base
      BY <1>7, <3>1
    <3>. QED
      BY <1>1, <3>1, <3>2
  <2>2. ASSUME NEW k \in 1..m, k - 1 \in S PROVE k \in S
    <3>1. k \in 0..m /\ k # 0
      BY <1>1, <2>2
    <3>. HIDE DEF Turn, T, base
    <3>2. g[k] = Turn(g[k - 1], k)
      BY <1>7, <3>1
    <3>. QED
      BY <1>3, <2>2, <3>1, <3>2
  <2>. HIDE DEF S
  <2>3. \A k \in 0..m : k \in S
    BY <1>1, <2>1, <2>2, LoopInduction
  <2>. QED
    BY <2>3 DEF S
<1>10. /\ DOMAIN g = 0..m /\ g = [k \in 0..m |-> g[k]]
       /\ g[0] = base
       /\ \A k \in 1..m : g[k] = Turn(g[k - 1], k)
  <2>1. 0 \in 0..m /\ \A k \in 1..m : k \in 0..m /\ k # 0
    BY <1>1
  <2>. HIDE DEF Turn, base
  <2>. QED
    BY <1>7, <2>1
<1>11. g \in [0..m -> T]
  <2>. HIDE DEF T
  <2>. QED
    BY <1>9, <1>10
<1>. QED
  BY <1>8, <1>10, <1>11 DEF IsLeftLoop

(* `blocks_left_to_fetch` lists the gaps.  Before the loop looks at height *)
(* e it has listed the gaps that a covered height below e closes, and it   *)
(* knows where the open gap begins, or that e - 1 is covered.              *)
LEMMA LeftIs ==
  ASSUME NEW r, Canonical(r),
         NEW from \in 1..MaxHeight, NEW to \in 1..MaxHeight, from <= to
  PROVE  Lists(BlocksLeftToFetch(r, from, to), H!Gaps(Covered(r), from, to))
<1>. DEFINE C == Covered(r)
            m == to - from + 1
<1>1. /\ from \in Int /\ to \in Int /\ m \in Nat
      /\ m = to - from + 1 /\ from + m = to + 1 /\ m # 0
  OBVIOUS
<1>2. \A h \in Int : ContainsHeight(r, h) <=> h \in C
  <2>1. PICK n \in Nat : Sorted(r, n)
    BY CanonicalIs
  <2>. QED
    BY <2>1, CoveredIs
<1>. HIDE DEF C, m
<1>0. PICK f : IsLeftLoop(f, r, from, to, m)
  BY <1>1, LeftLoop
<1>3. /\ f \in [0..m -> LoopState]
      /\ f[0] = [list |-> <<>>, start |-> from, need |-> TRUE]
      /\ \A k \in 1..m : f[k] = LeftStep(r, f[k - 1], from + k - 1)
      /\ BlocksLeftToFetch(r, from, to) =
           IF f[m].need THEN Append(f[m].list, <<f[m].start, to>>)
           ELSE f[m].list
  BY <1>0 DEF IsLeftLoop
<1>. DEFINE Good(acc, e) ==
              /\ acc \in LoopState
              /\ Lists(acc.list, Closed(C, from, to, e))
              /\ acc.need => Open(C, from, acc.start, e) /\ (e = from \/ acc.start < e)
              /\ ~acc.need => e # from /\ e - 1 \in C
            S == {k \in 0..m : Good(f[k], from + k)}
<1>4. 0 \in S
  <2>1. 0 \in 0..m /\ from + 0 = from /\ from \in from..to
    BY <1>1
  <2>2. Closed(C, from, to, from) = {}
    BY <1>1, <2>1, ClosedSame
  <2>3. Lists(<<>>, {})
    BY DEF Lists
  <2>4. Open(C, from, from, from)
    BY <1>1 DEF Open
  <2>5. f[0] \in LoopState
    BY <1>3, <2>1
  <2>6. Good(f[0], from)
    BY <1>3, <2>2, <2>3, <2>4, <2>5
  <2>. HIDE DEF Good
  <2>. QED
    BY <2>1, <2>6
<1>5. ASSUME NEW acc, NEW e \in from..to, Good(acc, e)
      PROVE  Good(LeftStep(r, acc, e), e + 1)
  <2>. DEFINE next == LeftStep(r, acc, e)
              G == Closed(C, from, to, e)
  <2>1. /\ e \in Int /\ (e + 1) - 1 = e /\ e + 1 # from
        /\ acc \in LoopState /\ acc.start \in Int
        /\ Lists(acc.list, G)
        /\ ContainsHeight(r, e) <=> e \in C
    BY <1>1, <1>2, <1>5 DEF LoopState
  <2>2. next \in LoopState
    BY <2>1, LeftStepIs
  <2>. SUFFICES Good(next, e + 1)
    OBVIOUS
  <2>3. CASE acc.need /\ e \in C
    <3>1. Open(C, from, acc.start, e)
      BY <1>5, <2>3
    <3>2. /\ e > acc.start =>
               Closed(C, from, to, e + 1) = G \cup {<<acc.start, e - 1>>}
          /\ ~(e > acc.start) => Closed(C, from, to, e + 1) = G
      <4>1. Closed(C, from, to, e + 1) = ClosedAfter(C, from, to, acc.start, e)
        BY <1>1, <2>3, <3>1, ClosedGrows
      <4>. QED
        BY <4>1 DEF ClosedAfter
    <3>3. next = [list  |-> IF e > acc.start
                            THEN Append(acc.list, <<acc.start, e - 1>>)
                            ELSE acc.list,
                  start |-> acc.start, need |-> FALSE]
      BY <2>1, <2>3, LeftStepIs
    <3>4. \A g \in G : g[2] < acc.start
      <4>1. SUFFICES ASSUME NEW g \in G PROVE g[2] < acc.start
        OBVIOUS
      <4>2. g[2] \in from..to /\ g[2] + 1 \in C /\ g[2] + 1 < e
        BY DEF Closed
      <4>3. /\ acc.start \in from..e
            /\ \A h \in acc.start..(e - 1) : h \notin C
        BY <3>1 DEF Open
      <4>. QED
        BY <1>1, <2>1, <4>2, <4>3
    <3>5. Lists(next.list, Closed(C, from, to, e + 1))
      <4>1. CASE e > acc.start
        <5>1. next.list = Append(acc.list, <<acc.start, e - 1>>)
          BY <3>3, <4>1
        <5>2. Closed(C, from, to, e + 1) = G \cup {<<acc.start, e - 1>>}
          BY <3>2, <4>1
        <5>3. e - 1 \in Int
          BY <2>1
        <5>. HIDE DEF next, G
        <5>4. Lists(Append(acc.list, <<acc.start, e - 1>>),
                    G \cup {<<acc.start, e - 1>>})
          BY <2>1, <3>4, <5>3, ListGrows
        <5>. QED
          BY <5>1, <5>2, <5>4
      <4>2. CASE ~(e > acc.start)
        <5>1. Closed(C, from, to, e + 1) = G
          BY <3>2, <4>2
        <5>2. next.list = acc.list
          BY <3>3, <4>2
        <5>. QED
          BY <2>1, <5>1, <5>2
      <4>. QED
        BY <4>1, <4>2
    <3>6. ~next.need
      BY <3>3
    <3>. QED
      BY <2>1, <2>2, <2>3, <3>5, <3>6
  <2>4. CASE acc.need /\ e \notin C
    <3>1. Closed(C, from, to, e + 1) = G
      BY <1>1, <2>4, ClosedSame
    <3>2. next = acc
      <4>1. acc.need <=> ~ContainsHeight(r, e)
        BY <2>1, <2>4
      <4>. QED
        BY <2>1, <4>1, LeftStepIs
    <3>3. Open(C, from, acc.start, e) /\ (e = from \/ acc.start < e)
      BY <1>5, <2>4
    <3>4. Open(C, from, acc.start, e + 1) /\ acc.start < e + 1
      <4>1. /\ acc.start \in from..e
            /\ \A h \in acc.start..(e - 1) : h \notin C
            /\ acc.start = from \/ acc.start - 1 \in C
        BY <3>3 DEF Open
      <4>2. acc.start \in from..(e + 1) /\ acc.start < e + 1
        BY <1>1, <2>1, <4>1
      <4>3. \A h \in acc.start..e : h \notin C
        <5>1. \A h \in acc.start..e : h = e \/ h \in acc.start..(e - 1)
          BY <2>1
        <5>. QED
          BY <2>4, <4>1, <5>1
      <4>. QED
        BY <2>1, <4>1, <4>2, <4>3 DEF Open
    <3>. HIDE DEF next, G
    <3>. QED
      BY <2>1, <2>2, <2>4, <3>1, <3>2, <3>4
  <2>5. CASE ~acc.need /\ e \notin C
    <3>1. Closed(C, from, to, e + 1) = G
      BY <1>1, <2>5, ClosedSame
    <3>2. next = [list |-> acc.list, start |-> e, need |-> TRUE]
      BY <2>1, <2>5, LeftStepIs
    <3>3. Open(C, from, e, e + 1) /\ e < e + 1
      <4>1. e - 1 \in C
        BY <1>5, <2>5
      <4>2. e \in from..(e + 1) /\ e < e + 1 /\ \A h \in e..e : h = e
        BY <1>1, <2>1
      <4>. QED
        BY <2>1, <2>5, <4>1, <4>2 DEF Open
    <3>4. next.list = acc.list /\ next.start = e /\ next.need = TRUE
      BY <3>2
    <3>. HIDE DEF next, G
    <3>. QED
      BY <2>1, <2>2, <3>1, <3>3, <3>4
  <2>6. CASE ~acc.need /\ e \in C
    <3>1. e # from /\ e - 1 \in C
      BY <1>5, <2>6
    <3>2. Closed(C, from, to, e + 1) = G
      BY <1>1, <3>1, ClosedSame
    <3>3. next = acc
      <4>1. acc.need <=> ~ContainsHeight(r, e)
        BY <2>1, <2>6
      <4>. QED
        BY <2>1, <4>1, LeftStepIs
    <3>. HIDE DEF next, G
    <3>. QED
      BY <2>1, <2>2, <2>6, <3>2, <3>3
  <2>. QED
    BY <2>3, <2>4, <2>5, <2>6
<1>6. ASSUME NEW k \in 1..m, k - 1 \in S PROVE k \in S
  <2>1. /\ k \in 0..m /\ from + (k - 1) = from + k - 1
        /\ from + k - 1 \in from..to /\ (from + k - 1) + 1 = from + k
    BY <1>1
  <2>2. Good(f[k - 1], from + k - 1)
    BY <1>6, <2>1
  <2>. HIDE DEF Good
  <2>3. Good(LeftStep(r, f[k - 1], from + k - 1), from + k)
    BY <1>5, <2>1, <2>2
  <2>. QED
    BY <1>3, <2>1, <2>3
<1>7. Good(f[m], to + 1)
  <2>1. m \in 0..m
    BY <1>1
  <2>. HIDE DEF S
  <2>2. m \in S
    BY <1>1, <1>4, <1>6, <2>1, LoopInduction
  <2>. HIDE DEF Good
  <2>. QED
    BY <1>1, <2>2 DEF S
<1>. DEFINE acc == f[m]
            G == Closed(C, from, to, to + 1)
            left == BlocksLeftToFetch(r, from, to)
<1>8. /\ acc \in LoopState /\ Lists(acc.list, G)
      /\ acc.start \in Int /\ to + 1 \in Int /\ to + 1 # from
      /\ acc.need => Open(C, from, acc.start, to + 1) /\ acc.start < to + 1
      /\ ~acc.need => (to + 1) - 1 \in C
      /\ (to + 1) - 1 = to
  BY <1>1, <1>7 DEF LoopState
<1>9. CASE acc.need
  <2>1. left = Append(acc.list, <<acc.start, to>>)
    BY <1>3, <1>9
  <2>2. Open(C, from, acc.start, to + 1) /\ acc.start <= to
    BY <1>1, <1>8, <1>9
  <2>3. H!Gaps(C, from, to) = G \cup {<<acc.start, to>>}
    BY <1>1, <2>2, GapsAre
  <2>4. \A g \in G : g[2] < acc.start
    <3>1. SUFFICES ASSUME NEW g \in G PROVE g[2] < acc.start
      OBVIOUS
    <3>2. g[2] \in from..to /\ g[2] + 1 \in C /\ g[2] + 1 < to + 1
      BY DEF Closed
    <3>3. \A h \in acc.start..to : h \notin C
      BY <1>8, <2>2 DEF Open
    <3>. QED
      BY <1>1, <1>8, <3>2, <3>3
  <2>. HIDE DEF acc, G, left
  <2>5. Lists(Append(acc.list, <<acc.start, to>>), G \cup {<<acc.start, to>>})
    BY <1>1, <1>8, <2>4, ListGrows
  <2>. QED
    BY <2>1, <2>3, <2>5 DEF left, C
<1>10. CASE ~acc.need
  <2>1. left = acc.list
    BY <1>3, <1>10
  <2>2. to \in C
    BY <1>8, <1>10
  <2>3. H!Gaps(C, from, to) = G
    BY <1>1, <2>2, GapsAre
  <2>. HIDE DEF acc, G, left
  <2>. QED
    BY <1>8, <2>1, <2>3 DEF left, C
<1>. QED
  BY <1>9, <1>10

(* In every state and for every request, blocks_left_to_fetch returns the  *)
(* maximal uncovered intervals, in order and each once, as the model of    *)
(* the fetcher takes it to do.                                             *)
THEOREM LeftToFetchIsCorrect == Spec => []BlocksLeftAreGaps
<1>1. ASSUME TypeOK PROVE BlocksLeftAreGaps
  <2>1. Canonical(ranges)
    BY <1>1 DEF TypeOK, Canonical
  <2>2. ASSUME NEW x \in Intervals
        PROVE  LET left == BlocksLeftToFetch(ranges, x[1], x[2])
               IN  /\ ToSet(left) = H!Gaps(Covered(ranges), x[1], x[2])
                   /\ \A i \in 1..(Len(left) - 1) : left[i][2] < left[i + 1][1]
    <3>. DEFINE left == BlocksLeftToFetch(ranges, x[1], x[2])
                G == H!Gaps(Covered(ranges), x[1], x[2])
    <3>1. x[1] \in 1..MaxHeight /\ x[2] \in 1..MaxHeight /\ x[1] <= x[2]
      BY DEF Intervals
    <3>2. Lists(left, G)
      BY <2>1, <3>1, LeftIs
    <3>. HIDE DEF left, G
    <3>3. /\ left \in Seq(Int \X Int)
          /\ \A i \in 1..Len(left) : left[i] \in G
          /\ \A g \in G : \E i \in 1..Len(left) : left[i] = g
          /\ \A i \in 1..(Len(left) - 1) : left[i][2] < left[i + 1][1]
      BY <3>2 DEF Lists
    <3>4. ToSet(left) = G
      <4>1. DOMAIN left = 1..Len(left)
        BY <3>3
      <4>. QED
        BY <3>3, <4>1 DEF ToSet
    <3>. QED
      BY <3>3, <3>4 DEF left, G
  <2>. QED
    BY <2>2 DEF BlocksLeftAreGaps
<1>. QED
  BY <1>1, RangesCanonical, PTL

=============================================================================
