--------------------------- MODULE HeightsProofs ---------------------------
(***************************************************************************)
(* Facts about the operators of Heights, for every set of heights, and     *)
(* about loops.                                                            *)
(***************************************************************************)
EXTENDS Heights, TLAPS, WellFoundedInduction

(* A non-empty set of naturals has a least element.                        *)
LEMMA LowestIsLeast ==
  ASSUME NEW S \in SUBSET Nat, S # {}
  PROVE  Lowest(S) \in S /\ \A n \in S : Lowest(S) <= n
<1>. DEFINE R == {ss \in Nat \X Nat : ss[1] < ss[2]}
<1>0. IsWellFoundedOn(R, Nat)
  BY NatLessThanWellFounded DEF OpToRel
<1>. HIDE DEF R
<1>1. PICK m \in S : \A n \in S : ~(<<n, m>> \in R)
  BY <1>0, WFMin
<1>2. \A n, k \in Nat : n < k => <<n, k>> \in R
  BY DEF R
<1>3. ASSUME NEW n \in S PROVE m <= n
  <2>1. n \in Nat /\ m \in Nat
    OBVIOUS
  <2>2. ~(n < m)
    BY <1>1, <1>2, <2>1, Zenon
  <2>. QED
    BY <2>1, <2>2
<1>. QED
  BY <1>3 DEF Lowest

-----------------------------------------------------------------------------
(* Loops: facts that the proofs about FetchedRanges and Framing share.     *)

(* What holds at the start of a loop and is kept by each of its turns      *)
(* holds after any number of turns.                                        *)
LEMMA LoopInduction ==
  ASSUME NEW n \in Nat, NEW S,
         0 \in S, \A k \in 1..n : k - 1 \in S => k \in S
  PROVE  \A k \in 0..n : k \in S
<1>. DEFINE Bad == {k \in 0..n : k \notin S}
<1>1. SUFFICES ASSUME Bad # {} PROVE FALSE
  OBVIOUS
<1>2. Bad \in SUBSET Nat
  OBVIOUS
<1>3. Lowest(Bad) \in Bad /\ \A k \in Bad : Lowest(Bad) <= k
  <2>. HIDE DEF Bad
  <2>. QED
    BY <1>1, <1>2, LowestIsLeast
<1>4. PICK m \in Bad : \A k \in Bad : m <= k
  BY <1>3
<1>5. m \in 1..n /\ m - 1 \in 0..n /\ m - 1 \notin Bad
  BY <1>4
<1>. QED
  BY <1>4, <1>5

(* A loop over 1..n, whose turns are a function on its states, has a state *)
(* after each of its turns.                                                *)
IsLoop(f, n, base, step) ==
  f = [k \in 0..n |-> IF k = 0 THEN base ELSE step[<<f[k - 1], k>>]]

LEMMA LoopExists ==
  ASSUME NEW n \in Nat, NEW T, NEW base \in T, NEW step \in [T \X (1..n) -> T]
  PROVE  \E f \in [0..n -> T] : IsLoop(f, n, base, step)
<1>. DEFINE S == {m \in 0..n : \E f \in [0..m -> T] : IsLoop(f, m, base, step)}
<1>1. 0 \in S
  <2>. DEFINE f == [k \in 0..0 |-> base]
  <2>1. f \in [0..0 -> T] /\ 0 \in 0..n
    OBVIOUS
  <2>2. IsLoop(f, 0, base, step)
    BY DEF IsLoop
  <2>. QED
    BY <2>1, <2>2
<1>2. ASSUME NEW m \in 1..n, m - 1 \in S
      PROVE  m \in S
  <2>1. PICK f \in [0..(m - 1) -> T] : IsLoop(f, m - 1, base, step)
    BY <1>2
  <2>. DEFINE g == [k \in 0..m |-> IF k = m THEN step[<<f[m - 1], m>>] ELSE f[k]]
  <2>2. f[m - 1] \in T /\ step[<<f[m - 1], m>>] \in T
    BY <2>1
  <2>3. g \in [0..m -> T]
    BY <2>2
  <2>4. ASSUME NEW k \in 0..m
        PROVE  g[k] = IF k = 0 THEN base ELSE step[<<g[k - 1], k>>]
    <3>1. CASE k = m
      <4>1. g[k - 1] = f[m - 1] /\ k # 0
        BY <3>1
      <4>2. g[k] = step[<<f[m - 1], m>>]
        BY <3>1
      <4>. HIDE DEF g
      <4>. QED
        BY <3>1, <4>1, <4>2
    <3>2. CASE k # m
      <4>1. k \in 0..(m - 1) /\ g[k] = f[k]
        BY <3>2
      <4>2. f[k] = IF k = 0 THEN base ELSE step[<<f[k - 1], k>>]
        BY <2>1, <4>1 DEF IsLoop
      <4>3. k # 0 => g[k - 1] = f[k - 1]
        BY <3>2, <4>1
      <4>. QED
        BY <4>1, <4>2, <4>3
    <3>. QED
      BY <3>1, <3>2
  <2>5. IsLoop(g, m, base, step)
    <3>1. g = [k \in 0..m |-> g[k]]
      OBVIOUS
    <3>. HIDE DEF g
    <3>. QED
      BY <2>4, <3>1 DEF IsLoop
  <2>. QED
    BY <2>3, <2>5
<1>3. n \in 0..n
  OBVIOUS
<1>. HIDE DEF S
<1>4. n \in S
  BY <1>1, <1>2, <1>3, LoopInduction
<1>. QED
  BY <1>4 DEF S

-----------------------------------------------------------------------------
(* A bounded one has a greatest element.                                   *)
LEMMA GreatestExists ==
  ASSUME NEW m \in Int, NEW S \in SUBSET Int, S # {}, \A n \in S : n <= m
  PROVE  \E g \in S : \A n \in S : n <= g
<1>. DEFINE D == {d \in Nat : m - d \in S}
<1>1. D # {}
  <2>1. PICK n \in S : TRUE
    OBVIOUS
  <2>2. m - n \in Nat /\ m - (m - n) = n
    BY <2>1
  <2>3. m - n \in D
    BY <2>1, <2>2
  <2>. QED
    BY <2>3
<1>2. Lowest(D) \in D /\ \A d \in D : Lowest(D) <= d
  BY <1>1, LowestIsLeast
<1>3. \A n \in S : n <= m - Lowest(D)
  <2>1. SUFFICES ASSUME NEW n \in S PROVE n <= m - Lowest(D)
    OBVIOUS
  <2>2. m - n \in Nat /\ m - (m - n) = n
    BY <2>1
  <2>3. m - n \in D
    BY <2>2
  <2>. HIDE DEF D
  <2>4. Lowest(D) <= m - n /\ Lowest(D) \in Nat
    BY <2>3, <1>2 DEF D
  <2>. QED
    BY <2>4
<1>. QED
  BY <1>2, <1>3

(* What `first` returns: the height after the lowest fetched interval.     *)
LEMMA FirstProperty ==
  ASSUME NEW m \in Nat, NEW S \in SUBSET (1..m)
  PROVE  /\ First(S) \in 1..(m + 1)
         /\ First(S) \notin S
         /\ S # {} => /\ Lowest(S) \in S
                     /\ Lowest(S)..(First(S) - 1) \subseteq S
<1>1. CASE S = {}
  BY <1>1 DEF First
<1>2. CASE S # {}
  <2>. DEFINE a == Lowest(S)
              T == {k \in 1..(m + 1) : k > a /\ k \notin S}
              f == Lowest(T)
  <2>1. a \in S /\ \A n \in S : a <= n
    BY <1>2, LowestIsLeast
  <2>. HIDE DEF a
  <2>2. T # {} /\ T \in SUBSET Nat
    <3>1. a \in 1..m /\ m + 1 \notin S
      BY <2>1
    <3>2. m + 1 \in T
      BY <3>1
    <3>. QED
      BY <3>2
  <2>3. f \in T /\ \A n \in T : f <= n
    <3>. HIDE DEF T
    <3>. QED
      BY <2>2, LowestIsLeast
  <2>. HIDE DEF f
  <2>4. a..(f - 1) \subseteq S
    BY <2>1, <2>3
  <2>5. f \in After(S)
    <3>1. f - 1 \in S
      BY <2>1, <2>3, <2>4
    <3>. QED
      BY <3>1, <2>3 DEF After
  <2>6. \A h \in After(S) : h \in T
    BY <2>1 DEF After
  <2>7. /\ Lowest(After(S)) \in After(S)
        /\ \A h \in After(S) : Lowest(After(S)) <= h
    <3>1. After(S) \in SUBSET Nat
      BY DEF After
    <3>. QED
      BY <2>5, <3>1, LowestIsLeast
  <2>8. Lowest(After(S)) = f
    <3>1. Lowest(After(S)) \in T
      BY <2>6, <2>7
    <3>2. Lowest(After(S)) <= f /\ f <= Lowest(After(S))
      BY <2>3, <2>5, <2>7, <3>1
    <3>3. Lowest(After(S)) \in Int /\ f \in Int
      BY <2>3, <3>1
    <3>. QED
      BY <3>2, <3>3
  <2>9. First(S) = f
    BY <1>2, <2>8 DEF First
  <2>. QED
    BY <2>1, <2>3, <2>4, <2>9 DEF a
<1>. QED
  BY <1>1, <1>2

(* The gaps of an interval lie in it, are not empty and meet neither S nor *)
(* each other.                                                             *)
LEMMA GapsAreDisjoint ==
  ASSUME NEW from \in Int, NEW to \in Int, NEW S,
         NEW r \in Gaps(S, from, to), NEW s \in Gaps(S, from, to)
  PROVE  /\ r[1] \in from..to /\ r[2] \in from..to /\ r[1] <= r[2]
         /\ (r[1]..r[2]) \cap S = {}
         /\ r # s => (r[1]..r[2]) \cap (s[1]..s[2]) = {}
<1>1. /\ r \in (from..to) \X (from..to)
      /\ s \in (from..to) \X (from..to)
  BY DEF Gaps
<1>2. /\ r[1] \in from..to /\ r[2] \in from..to
      /\ s[1] \in from..to /\ s[2] \in from..to
      /\ r = <<r[1], r[2]>> /\ s = <<s[1], s[2]>>
  BY <1>1
<1>3. /\ r[1] <= r[2] /\ (r[1]..r[2]) \cap S = {}
      /\ r[1] = from \/ r[1] - 1 \in S
      /\ r[2] = to \/ r[2] + 1 \in S
  BY DEF Gaps
<1>4. /\ s[1] <= s[2] /\ (s[1]..s[2]) \cap S = {}
      /\ s[1] = from \/ s[1] - 1 \in S
      /\ s[2] = to \/ s[2] + 1 \in S
  BY DEF Gaps
<1>5. ASSUME NEW h \in (r[1]..r[2]) \cap (s[1]..s[2])
      PROVE  r = s
  <2>1. r[1] = s[1]
    BY <1>2, <1>3, <1>4, <1>5
  <2>2. r[2] = s[2]
    BY <1>2, <1>3, <1>4, <1>5
  <2>. QED
    BY <1>2, <2>1, <2>2
<1>. QED
  BY <1>2, <1>3, <1>5

(* Together the gaps are all that S leaves of the interval.                *)
LEMMA GapsCover ==
  ASSUME NEW from \in Int, NEW to \in Int, NEW S \in SUBSET Int,
         NEW h \in from..to, h \notin S
  PROVE  \E r \in Gaps(S, from, to) : h \in r[1]..r[2]
<1>. DEFINE Below == {k \in (from - 1)..h : k = from - 1 \/ k \in S}
            Above == {d \in Nat : h + d = to + 1 \/ h + d \in S}
<1>1. PICK g \in Below : \A k \in Below : k <= g
  <2>1. from - 1 \in Below
    OBVIOUS
  <2>2. Below \in SUBSET Int /\ \A k \in Below : k <= h
    OBVIOUS
  <2>. HIDE DEF Below
  <2>3. Below # {} /\ h \in Int
    BY <2>1
  <2>. QED
    BY <2>2, <2>3, GreatestExists
<1>2. /\ Lowest(Above) \in Above
      /\ \A d \in Above : Lowest(Above) <= d
  <2>1. to + 1 - h \in Above
    OBVIOUS
  <2>. QED
    BY <2>1, LowestIsLeast
<1>. DEFINE l == g + 1
            u == h + Lowest(Above) - 1
<1>3. /\ l \in from..h
      /\ l = from \/ l - 1 \in S
      /\ \A k \in l..h : k \notin S
  BY <1>1
<1>4. \A k \in h..to : k \in S => k - h \in Above
  OBVIOUS
<1>5. to + 1 - h \in Above
  OBVIOUS
<1>6. Lowest(Above) \in Nat /\ Lowest(Above) # 0
  BY <1>2
<1>7. h + Lowest(Above) = to + 1 \/ h + Lowest(Above) \in S
  BY <1>2
<1>. HIDE DEF Above
<1>8. /\ u \in h..to
      /\ u = to \/ u + 1 \in S
      /\ \A k \in h..u : k \notin S
  <2>1. Lowest(Above) <= to + 1 - h
    BY <1>2, <1>5
  <2>2. \A k \in h..u : k \notin S
    <3>1. SUFFICES ASSUME NEW k \in h..u, k \in S PROVE FALSE
      OBVIOUS
    <3>2. k \in h..to /\ k - h < Lowest(Above)
      BY <2>1, <1>6
    <3>3. Lowest(Above) <= k - h
      BY <1>2, <1>4, <3>1, <3>2
    <3>. QED
      BY <1>6, <3>2, <3>3
  <2>. QED
    BY <1>6, <1>7, <2>1, <2>2
<1>. HIDE DEF l, u
<1>9. <<l, u>> \in Gaps(S, from, to)
  BY <1>3, <1>8 DEF Gaps
<1>10. h \in l..u
  BY <1>3, <1>8
<1>. QED
  BY <1>9, <1>10
=============================================================================
