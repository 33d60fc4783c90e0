---------------------------- MODULE ClientProofs ----------------------------
(***************************************************************************)
(* The safety properties of a user's commands, for every set of services,  *)
(* every chain, every detection and every number of services in the file,  *)
(* registrations and faults.                                               *)
(***************************************************************************)
EXTENDS Client, HeightsProofs, SequenceTheorems, FiniteSetTheorems

-----------------------------------------------------------------------------
(* What `combine` computes, for all lists of indices.                      *)

Indices(m) == (1..m) \X Nat

(* The last index of a list that is not empty is at its top.               *)
LEMMA TopIsGreatest ==
  ASSUME NEW m \in Nat, NEW a \in SUBSET Indices(m)
  PROVE  /\ Top(a) \in 0..m
         /\ \A i \in a : i[1] \in 1..m /\ i[1] <= Top(a)
         /\ a # {} => \E i \in a : i[1] = Top(a)
<1>. DEFINE heights == {i[1] : i \in a}
<1>1. \A i \in a : i[1] \in 1..m /\ i[1] \in heights
  BY DEF Indices
<1>2. CASE a = {}
  BY <1>2 DEF Top
<1>3. CASE a # {}
  <2>1. heights # {} /\ heights \in SUBSET Int /\ \A h \in heights : h \in 1..m
    BY <1>1, <1>3
  <2>2. PICK g \in heights : \A h \in heights : h <= g
    <3>. HIDE DEF heights
    <3>1. \A h \in heights : h <= m
      BY <2>1
    <3>2. m \in Int
      OBVIOUS
    <3>. QED
      BY <2>1, <3>1, <3>2, GreatestExists
  <2>3. Top(a) = CHOOSE h \in heights : \A k \in heights : k <= h
    BY <1>3 DEF Top
  <2>4. Top(a) \in heights /\ \A h \in heights : h <= Top(a)
    <3>. HIDE DEF heights
    <3>. QED
      BY <2>2, <2>3
  <2>. QED
    BY <1>1, <2>1, <2>4
<1>. QED
  BY <1>2, <1>3

(* Combining two lists keeps an index if every list that goes as far has   *)
(* it, whichever of the two goes further (db.rs:162-195).                  *)
THEOREM CombineAgrees ==
  ASSUME NEW m \in Nat, NEW a \in SUBSET Indices(m), NEW b \in SUBSET Indices(m)
  PROVE  Combine(a, b) = Agreement(a, b)
<1>1. /\ Top(a) \in 0..m /\ Top(b) \in 0..m
      /\ \A i \in a : i[1] \in 1..m /\ i[1] <= Top(a)
      /\ \A i \in b : i[1] \in 1..m /\ i[1] <= Top(b)
  BY TopIsGreatest
<1>2. CASE a = {}
  <2>1. Top(a) = 0
    BY <1>2 DEF Top
  <2>2. Agreement(a, b) = b
    BY <1>1, <1>2, <2>1 DEF Agreement
  <2>. QED
    BY <1>2, <2>2 DEF Combine
<1>3. CASE a # {} /\ b = {}
  <2>1. Top(b) = 0
    BY <1>3 DEF Top
  <2>2. Agreement(a, b) = a
    BY <1>1, <1>3, <2>1 DEF Agreement
  <2>. QED
    BY <1>3, <2>2 DEF Combine
<1>4. CASE a # {} /\ b # {} /\ Top(a) < Top(b)
  <2>1. Agreement(a, b) = Kept(b, a, Top(a))
    BY <1>1, <1>4 DEF Agreement, Kept
  <2>. QED
    BY <1>4, <2>1 DEF Combine
<1>5. CASE a # {} /\ b # {} /\ ~(Top(a) < Top(b))
  <2>1. Agreement(a, b) = Kept(a, b, Top(b))
    BY <1>1, <1>5 DEF Agreement, Kept
  <2>. QED
    BY <1>5, <2>1 DEF Combine
<1>. QED
  BY <1>2, <1>3, <1>4, <1>5

(* A list that a service has synced to h holds what is relevant up to h.   *)
Complete(a, h, relevant) ==
  /\ a \in SUBSET Indices(h)
  /\ \A i \in relevant : i[1] <= h => i \in a

(* Lists that are complete up to different heights combine to a list that  *)
(* is complete up to the greater one, whichever is combined into the other *)
(* (db.rs:162-195).  A list is not complete if its service missed a row;   *)
(* the index is then dropped, also if the other list has it.               *)
THEOREM CombineLosesNothing ==
  ASSUME NEW m \in Nat, NEW relevant \in SUBSET Indices(m),
         NEW g \in Nat, NEW h \in Nat, g <= h,
         NEW a, NEW b, Complete(a, g, relevant), Complete(b, h, relevant)
  PROVE  /\ Complete(Combine(a, b), h, relevant)
         /\ Complete(Combine(b, a), h, relevant)
<1>1. a \in SUBSET Indices(h) /\ b \in SUBSET Indices(h)
  BY DEF Complete, Indices
<1>2. /\ Combine(a, b) = Agreement(a, b)
      /\ Combine(b, a) = Agreement(b, a)
  BY <1>1, CombineAgrees
<1>3. Agreement(a, b) = Agreement(b, a)
  BY DEF Agreement
<1>4. Agreement(a, b) \in SUBSET Indices(h)
  BY <1>1 DEF Agreement
<1>5. ASSUME NEW i \in relevant, i[1] <= h
      PROVE  i \in Agreement(a, b)
  <2>1. i \in b
    BY <1>5 DEF Complete
  <2>2. i \in a \/ Top(a) < i[1]
    <3>1. i[1] <= g => i \in a
      BY DEF Complete
    <3>2. a \in SUBSET Indices(g)
      BY DEF Complete
    <3>3. Top(a) \in 0..g
      BY <3>2, TopIsGreatest
    <3>4. i[1] \in Nat
      BY DEF Indices
    <3>. QED
      BY <3>1, <3>3, <3>4
  <2>. QED
    BY <2>1, <2>2 DEF Agreement
<1>. QED
  BY <1>2, <1>3, <1>4, <1>5 DEF Complete

-----------------------------------------------------------------------------
(* The configuration file.                                                 *)
Service == [url : Services, index : Nat]

IsFile(f) ==
  /\ f \in Seq(Service) /\ Len(f) <= MaxServices
  /\ \A i \in DOMAIN f : f[i].index = i

(* What IsFile says of its services.                                       *)
LEMMA FileIs ==
  ASSUME NEW f, IsFile(f)
  PROVE  /\ Len(f) \in Nat /\ DOMAIN f = 1..Len(f)
         /\ f \in [1..Len(f) -> Service]
         /\ \A i \in 1..Len(f) :
              /\ f[i].url \in Services /\ f[i].index = i
              /\ f[i] \in [url : Services, index : {i}]
<1>1. /\ f \in Seq(Service) /\ Len(f) \in Nat /\ DOMAIN f = 1..Len(f)
      /\ f \in [1..Len(f) -> Service]
  BY LenProperties DEF IsFile
<1>2. ASSUME NEW i \in 1..Len(f)
      PROVE  /\ f[i].url \in Services /\ f[i].index = i
             /\ f[i] \in [url : Services, index : {i}]
  <2>1. f[i] \in Service /\ f[i].index = i
    BY <1>1 DEF IsFile
  <2>. QED
    BY <2>1 DEF Service
<1>. QED
  BY <1>1, <1>2

(* A file that cannot be parsed is not one that can.                       *)
LEMMA TornIsNoFile == ~IsFile(Torn)
<1>1. SUFFICES ASSUME IsFile(Torn) PROVE FALSE
  OBVIOUS
<1>2. 1 \in DOMAIN Torn /\ Torn[1].index = 0
  BY DEF Torn
<1>. QED
  BY <1>1, <1>2 DEF IsFile

(* The empty file.                                                         *)
LEMMA EmptyFile == IsFile(<<>>) /\ Len(<<>>) = 0
<1>1. <<>> \in Seq(Service) /\ Len(<<>>) = 0 /\ MaxServices \in Nat
  BY EmptySeq, ClientAssumption
<1>. QED
  BY <1>1 DEF IsFile

(* The services are numbered in order, so that a new one gets the next     *)
(* number (config.rs:74-93).                                               *)
LEMMA NewIndexIsNext ==
  ASSUME NEW f, IsFile(f)
  PROVE  NewIndex(f) = Len(f) + 1
<1>1. /\ Len(f) \in Nat /\ DOMAIN f = 1..Len(f)
      /\ \A i \in 1..Len(f) : f[i].index = i
  BY FileIs
<1>2. CASE f = <<>>
  BY <1>2, EmptyFile DEF NewIndex
<1>3. CASE f # <<>>
  <2>1. Len(f) \in Nat \ {0}
    BY <1>3, EmptySeq DEF IsFile
  <2>2. Taken(f) = 1..Len(f)
    BY <1>1 DEF Taken
  <2>. DEFINE P(ix) == ix \in 1..Len(f) /\ \A jx \in 1..Len(f) : jx <= ix
  <2>3. \A ix : P(ix) <=> ix = Len(f)
    BY <1>1, <2>1
  <2>4. (CHOOSE ix \in 1..Len(f) : \A jx \in 1..Len(f) : jx <= ix) = Len(f)
    BY <2>3
  <2>5. NewIndex(f) = 1 + Len(f)
    BY <1>3, <2>2, <2>4 DEF NewIndex
  <2>. QED
    BY <1>1, <2>5
<1>. QED
  BY <1>2, <1>3

(* A file with a new service.                                              *)
LEMMA FileGrows ==
  ASSUME NEW f, IsFile(f), Len(f) < MaxServices, NEW url \in Services
  PROVE  LET g == Append(f, [url |-> url, index |-> NewIndex(f)])
         IN  /\ IsFile(g) /\ Len(g) = Len(f) + 1
             /\ \A i \in 1..Len(f) : g[i] = f[i]
<1>. DEFINE p == [url |-> url, index |-> NewIndex(f)]
            g == Append(f, p)
<1>1. Len(f) \in Nat /\ DOMAIN f = 1..Len(f) /\ NewIndex(f) = Len(f) + 1
  BY FileIs, NewIndexIsNext
<1>2. p \in Service /\ p.index = Len(f) + 1
  BY <1>1 DEF Service
<1>. HIDE DEF p
<1>3. f \in Seq(Service) /\ MaxServices \in Nat
  BY ClientAssumption DEF IsFile
<1>4. /\ g \in Seq(Service) /\ Len(g) = Len(f) + 1
      /\ DOMAIN g = 1..(Len(f) + 1)
      /\ \A i \in 1..Len(f) : g[i] = f[i]
      /\ g[Len(f) + 1] = p
  BY <1>2, <1>3
<1>5. \A i \in 1..(Len(f) + 1) : g[i].index = i
  BY <1>1, <1>2, <1>4, FileIs
<1>6. Len(g) <= MaxServices
  BY <1>1, <1>3, <1>4
<1>7. IsFile(g)
  BY <1>4, <1>5, <1>6 DEF IsFile
<1>. QED
  BY <1>4, <1>7 DEF p

(* The part of a file that ends after a service.                           *)
LEMMA FileIsCut ==
  ASSUME NEW f, IsFile(f), NEW n \in 1..(Len(f) - 1)
  PROVE  IsFile(SubSeq(f, 1, n))
<1>1. /\ Len(f) \in Nat /\ DOMAIN f = 1..Len(f) /\ f \in Seq(Service)
      /\ \A i \in 1..Len(f) : f[i].index = i /\ f[i] \in Service
  BY FileIs DEF IsFile
<1>2. \A i \in 1..n : i \in 1..Len(f)
  BY <1>1
<1>3. 1 \in Int /\ n \in Int /\ 1 <= n
  OBVIOUS
<1>4. /\ SubSeq(f, 1, n) \in Seq(Service) /\ Len(SubSeq(f, 1, n)) = n
      /\ \A i \in 1..n : SubSeq(f, 1, n)[i] = f[i]
  <2>1. \A i \in 1..n : f[i] \in Service
    BY <1>1, <1>2
  <2>2. /\ SubSeq(f, 1, n) \in Seq(Service)
        /\ Len(SubSeq(f, 1, n)) = IF 1 <= n THEN n - 1 + 1 ELSE 0
        /\ \A i \in 1..(n - 1 + 1) : SubSeq(f, 1, n)[i] = f[1 + i - 1]
    BY <1>3, <2>1, SubSeqProperties
  <2>3. /\ n - 1 + 1 = n /\ \A i \in 1..n : 1 + i - 1 = i
    OBVIOUS
  <2>. QED
    BY <1>3, <2>2, <2>3
<1>5. DOMAIN SubSeq(f, 1, n) = 1..n
  BY <1>4, LenProperties
<1>6. n <= MaxServices
  <2>1. n < Len(f) /\ Len(f) <= MaxServices /\ MaxServices \in Nat
    BY <1>1, ClientAssumption DEF IsFile
  <2>. QED
    BY <1>1, <2>1
<1>. QED
  BY <1>1, <1>2, <1>4, <1>5, <1>6 DEF IsFile

(* A function on 1..n that only grows is the identity.                     *)
LEMMA GrowingIsIdentity ==
  ASSUME NEW n \in Nat, NEW g \in [1..n -> 1..n],
         \A i, j \in 1..n : i < j => g[i] < g[j]
  PROVE  \A i \in 1..n : g[i] = i
<1>. DEFINE Less == {i \in 1..n : g[i] < i}
            More == {d \in 0..n : d < n /\ g[n - d] > n - d}
<1>1. Less = {}
  <2>1. SUFFICES ASSUME Less # {} PROVE FALSE
    OBVIOUS
  <2>. DEFINE k == Lowest(Less)
  <2>2. k \in Less /\ \A i \in Less : k <= i
    <3>1. Less \in SUBSET Nat
      OBVIOUS
    <3>. QED
      BY <2>1, <3>1, LowestIsLeast
  <2>. HIDE DEF k
  <2>3. k \in 1..n /\ g[k] < k /\ g[k] \in 1..n
    BY <2>2
  <2>4. k - 1 \in 1..n /\ k - 1 < k
    BY <2>3
  <2>5. g[k - 1] < g[k] /\ g[k - 1] \in 1..n
    BY <2>3, <2>4
  <2>6. ~(g[k - 1] < k - 1)
    BY <2>2, <2>3, <2>4
  <2>. QED
    BY <2>3, <2>5, <2>6
<1>2. More = {}
  <2>1. SUFFICES ASSUME More # {} PROVE FALSE
    OBVIOUS
  <2>. DEFINE k == Lowest(More)
  <2>2. k \in More /\ \A i \in More : k <= i
    <3>1. More \in SUBSET Nat
      OBVIOUS
    <3>. QED
      BY <2>1, <3>1, LowestIsLeast
  <2>. HIDE DEF k
  <2>3. k \in 0..n /\ k < n /\ g[n - k] > n - k /\ n - k \in 1..n
    BY <2>2
  <2>4. g[n - k] \in 1..n
    BY <2>3
  <2>5. k - 1 \in 0..n /\ k - 1 < n /\ n - (k - 1) = (n - k) + 1
    BY <2>3, <2>4
  <2>6. (n - k) + 1 \in 1..n /\ n - k < (n - k) + 1
    BY <2>3, <2>4
  <2>7. g[n - k] < g[(n - k) + 1] /\ g[(n - k) + 1] \in 1..n
    BY <2>3, <2>6
  <2>8. ~(g[n - (k - 1)] > n - (k - 1))
    <3>1. SUFFICES ASSUME g[n - (k - 1)] > n - (k - 1) PROVE FALSE
      OBVIOUS
    <3>2. k - 1 \in More
      BY <2>5, <3>1
    <3>3. k <= k - 1
      BY <2>2, <3>2
    <3>. QED
      BY <2>3, <3>3
  <2>. QED
    BY <2>3, <2>4, <2>5, <2>6, <2>7, <2>8
<1>3. ASSUME NEW i \in 1..n PROVE g[i] = i
  <2>1. ~(g[i] < i)
    BY <1>1
  <2>2. n - i \in 0..n /\ n - i < n /\ n - (n - i) = i
    OBVIOUS
  <2>3. ~(g[i] > i)
    BY <1>2, <2>2
  <2>. QED
    BY <2>1, <2>3
<1>. QED
  BY <1>3

(* Saving leaves the services as they are: they are sorted already, and no *)
(* index is there twice (config.rs:50-72).                                 *)
LEMMA SavedIsSame ==
  ASSUME NEW f, IsFile(f)
  PROVE  Saved(f) = f
<1>. DEFINE n == Len(f)
            first == {k \in DOMAIN f :
                        \A j \in 1..(k - 1) : f[j].index # f[k].index}
            kept == {f[i] : i \in first}
            Sorted(s) == \A i, j \in DOMAIN s : i < j => s[i].index < s[j].index
<1>1. /\ n \in Nat /\ DOMAIN f = 1..n /\ f \in [1..n -> Service]
      /\ \A i \in 1..n : f[i].index = i
  BY FileIs
<1>2. first = 1..n
  <2>1. ASSUME NEW k \in 1..n, NEW j \in 1..(k - 1)
        PROVE  f[j].index # f[k].index
    BY <1>1
  <2>. QED
    BY <1>1, <2>1
<1>3. kept = {f[i] : i \in 1..n}
  BY <1>2
<1>. HIDE DEF n, first
<1>4. f \in [1..n -> kept]
  BY <1>1, <1>3
<1>5. Cardinality(kept) = n
  <2>1. f \in Bijection(1..n, kept)
    <3>1. \A i, j \in 1..n : f[i] = f[j] => i = j
      BY <1>1
    <3>2. \A p \in kept : \E i \in 1..n : f[i] = p
      BY <1>3
    <3>. QED
      BY <1>4, <3>1, <3>2 DEF Bijection, Injection, Surjection, IsInjective
  <2>. QED
    BY <1>1, <2>1, FS_CountingElements DEF ExistsBijection
<1>6. Sorted(f)
  BY <1>1
<1>7. ASSUME NEW s \in [1..n -> kept], Sorted(s)
      PROVE  s = f
  <2>. DEFINE g == [i \in 1..n |-> s[i].index]
  <2>1. ASSUME NEW i \in 1..n
        PROVE  s[i].index \in 1..n /\ s[i] = f[s[i].index]
    <3>1. PICK k \in 1..n : s[i] = f[k]
      BY <1>3
    <3>. QED
      BY <1>1, <3>1
  <2>2. g \in [1..n -> 1..n]
    BY <2>1
  <2>3. \A i, j \in 1..n : i < j => g[i] < g[j]
    BY <1>7
  <2>4. \A i \in 1..n : g[i] = i
    <3>. HIDE DEF g
    <3>. QED
      BY <1>1, <2>2, <2>3, GrowingIsIdentity
  <2>5. \A i \in 1..n : s[i] = f[i]
    BY <2>1, <2>4
  <2>6. /\ s = [i \in 1..n |-> s[i]]
        /\ f = [i \in 1..n |-> f[i]]
    BY <1>4
  <2>7. [i \in 1..n |-> s[i]] = [i \in 1..n |-> f[i]]
    BY <2>5
  <2>. QED
    BY Zenon, <2>6, <2>7
<1>8. (CHOOSE s \in [1..n -> kept] : Sorted(s)) = f
  <2>. HIDE DEF Sorted, kept
  <2>. QED
    BY <1>4, <1>6, <1>7
<1>9. Saved(f) = CHOOSE s \in [1..Cardinality(kept) -> kept] : Sorted(s)
  BY DEF Saved, first
<1>. QED
  BY <1>5, <1>8, <1>9

-----------------------------------------------------------------------------
(* The invariant.                                                          *)
ShareKey == [owner : Shares, birthday : Nat, syncedTo : Nat,
             indices : SUBSET (Nat \X Nat)]

(* A key has found nothing that its share does not detect.                 *)
OwnKey(k) == k.indices \subseteq Detects(k.owner)

(* What the shares detect that a service has in a file.                    *)
OwnOf(s, f) ==
  UNION {Detects(f[j].index) : j \in {k \in DOMAIN f : f[k].url = s}}

(* The types of the variables; a command is at a service of the file it    *)
(* has loaded, which nothing changes until it ends.                        *)
Phase ==
  /\ file = Torn \/ IsFile(file)
  /\ command \in {"none", "save", "register", "query"}
  /\ IsFile(config) /\ next \in 1..(Len(config) + 1)
  /\ birthday \in Birthdays \cup {NoBirthday}
  /\ command = "none" => config = <<>>
  /\ command = "save" => file = Torn
  /\ command \in {"register", "query"} => file = config
  /\ faults \in [saves : 0..MaxFaults, restarts : 0..MaxFaults]

Registries == registry \in [Services -> Seq(ShareKey)]

(* What the services and the commands hold is of the chain, and what the   *)
(* keys have found is their own.                                           *)
Found ==
  /\ rows \in [Services -> Seq(SUBSET Txs)] /\ lists \in Seq(SUBSET Txs)
  /\ \A s \in Services : rows[s] = <<>> \/ \E a \in SUBSET Txs : rows[s] = <<a>>
  /\ \A s \in Services : \A i \in DOMAIN registry[s] : OwnKey(registry[s][i])

(* A key was registered at the service that has its number in the file,    *)
(* and a number is never given to another service; what a service has      *)
(* stored was found with its numbers.                                      *)
TheFile == IF command = "save" THEN config ELSE file

Apart ==
  faults.saves = 0 =>
    /\ file = Torn => command = "save"
    /\ \A s \in Services : \A i \in DOMAIN registry[s] :
         /\ registry[s][i].owner \in DOMAIN TheFile
         /\ TheFile[registry[s][i].owner].url = s
    /\ \A s \in Services : \A i \in DOMAIN rows[s] :
         rows[s][i] \subseteq OwnOf(s, TheFile)

(* query-indices has the answers of the services it has passed.            *)
Asked ==
  /\ command # "query" => lists = <<>>
  /\ command = "query" => Len(lists) = next - 1
  /\ command = "query" /\ faults.saves = 0 =>
       \A i \in DOMAIN lists : lists[i] \subseteq OwnOf(config[i].url, config)

(* register-key has registered its key with the services it has passed.    *)
Told ==
  command = "register" /\ faults.restarts = 0 =>
    \A i \in 1..(next - 1) :
      \E j \in DOMAIN registry[config[i].url] :
        registry[config[i].url][j].owner = config[i].index

ClientInv == Phase /\ Registries /\ Found /\ Apart /\ Asked /\ Told

-----------------------------------------------------------------------------
(* The enclave of a service.                                               *)

(* The keys of an enclave.                                                 *)
LEMMA KeysOfShares == \A s \in Services : Enclave(s)!Key = ShareKey
  BY DEF Enclave!Key, ShareKey

(* A new key has nothing to find yet.                                      *)
LEMMA NewKeyIs ==
  ASSUME NEW s \in Services, NEW o \in Shares,
         NEW b \in Birthdays \cup {NoBirthday}
  PROVE  LET k == Enclave(s)!NewKey(o, b)
         IN  k \in ShareKey /\ k.owner = o /\ OwnKey(k)
<1>. DEFINE k == Enclave(s)!NewKey(o, b)
<1>1. Enclave(s)!Birthday(b) \in Nat
  BY ClientAssumption DEF Enclave!Birthday
<1>2. k = [owner |-> o, birthday |-> Enclave(s)!Birthday(b),
           syncedTo |-> Enclave(s)!Birthday(b), indices |-> {}]
  BY DEF Enclave!NewKey
<1>3. k \in ShareKey
  BY <1>1, <1>2 DEF ShareKey
<1>4. k.owner = o /\ k.indices = {}
  BY <1>2
<1>. HIDE DEF k
<1>5. OwnKey(k)
  BY <1>4 DEF OwnKey
<1>. QED
  BY <1>3, <1>4, <1>5 DEF k

(* A scan finds what the share of the key detects among the rows.          *)
LEMMA ScanIs ==
  ASSUME NEW s \in Services, NEW k \in ShareKey, OwnKey(k),
         NEW there \in SUBSET Txs
  PROVE  LET t == Enclave(s)!Scan(k, FlagsOf(there))
         IN  t \in ShareKey /\ t.owner = k.owner /\ OwnKey(t)
<1>. DEFINE t == Enclave(s)!Scan(k, FlagsOf(there))
            D == Enclave(s)!Detections(k, FlagsOf(there))
<1>1. /\ k.owner \in Shares /\ k.birthday \in Nat /\ k.syncedTo \in Nat
      /\ k.indices \in SUBSET (Nat \X Nat)
  BY DEF ShareKey
<1>2. Txs \subseteq Nat \X Nat
  BY ClientAssumption
<1>3. \A n \in D : n \in Txs /\ n \in Detects(k.owner)
  <2>1. SUFFICES ASSUME NEW n \in D PROVE n \in Txs /\ n \in Detects(k.owner)
    OBVIOUS
  <2>2. PICK f \in FlagsOf(there) :
          n = f[1] /\ (f[2] = <<>> \/ <<k.owner, f[2]>> \in (Shares \X Relevant) \cup Noise)
    BY DEF Enclave!Detections
  <2>3. PICK tx \in there : f = <<tx, tx>>
    BY DEF FlagsOf
  <2>4. n = tx /\ f[2] = tx /\ tx \in Txs
    BY <2>2, <2>3
  <2>5. tx # <<>>
    BY <1>2, <2>4
  <2>6. tx \in Relevant \/ <<k.owner, tx>> \in Noise
    BY <2>2, <2>4, <2>5
  <2>. QED
    BY <2>4, <2>6 DEF Detects
<1>4. t.owner = k.owner /\ t.indices = k.indices \cup D
  BY DEF Enclave!Scan, ShareKey
<1>5. t \in ShareKey
  <2>1. k.indices \cup D \in SUBSET (Nat \X Nat)
    BY <1>1, <1>2, <1>3
  <2>2. k.syncedTo + 1 \in Nat
    BY <1>1
  <2>. QED
    BY <2>1, <2>2 DEF Enclave!Scan, Enclave!NextHeight, ShareKey
<1>. HIDE DEF t, D
<1>6. OwnKey(t)
  BY <1>3, <1>4 DEF OwnKey
<1>. QED
  BY <1>4, <1>5, <1>6 DEF t

-----------------------------------------------------------------------------
(* The steps that change a registry.                                       *)

(* A service that register-key is at gets the share of its number, behind  *)
(* the keys it holds.                                                      *)
LEMMA RegisteredIs ==
  ASSUME ClientInv, next \in DOMAIN config, Registered
  PROVE  /\ config[next].url \in Services /\ config[next].index = next
         /\ registry' \in [Services -> Seq(ShareKey)]
         /\ \A t \in Services : \A i \in DOMAIN registry'[t] :
              \/ i \in DOMAIN registry[t] /\ registry'[t][i] = registry[t][i]
              \/ /\ t = config[next].url
                 /\ registry'[t][i].owner = next /\ OwnKey(registry'[t][i])
         /\ \A t \in Services : \A i \in DOMAIN registry[t] :
              i \in DOMAIN registry'[t] /\ registry'[t][i] = registry[t][i]
         /\ \E j \in DOMAIN registry'[config[next].url] :
              registry'[config[next].url][j].owner = next
<1>. DEFINE u == config[next].url
            k == Enclave(u)!NewKey(next, birthday)
<1>1. /\ u \in Services /\ config[next].index = next /\ next \in 1..Len(config)
      /\ Len(config) \in Nat
  BY FileIs DEF ClientInv, Phase
<1>2. next \in Shares
  BY <1>1, ClientAssumption DEF Shares, ClientInv, Phase, IsFile
<1>3. k \in ShareKey /\ k.owner = next /\ OwnKey(k)
  <2>1. birthday \in Birthdays \cup {NoBirthday}
    BY DEF ClientInv, Phase
  <2>. QED
    BY <1>1, <1>2, <2>1, NewKeyIs
<1>4. /\ registry \in [Services -> Seq(ShareKey)]
      /\ registry' = [registry EXCEPT ![u] = Append(registry[u], k)]
  BY <1>1 DEF ClientInv, Registries, Registered, Current
<1>. HIDE DEF u, k
<1>. DEFINE q == registry[u]
<1>5. q \in Seq(ShareKey)
  BY <1>1, <1>4
<1>. HIDE DEF q
<1>6. /\ Append(q, k) \in Seq(ShareKey) /\ Len(q) \in Nat
      /\ DOMAIN q = 1..Len(q) /\ DOMAIN Append(q, k) = 1..(Len(q) + 1)
      /\ \A i \in 1..Len(q) : Append(q, k)[i] = q[i]
      /\ Append(q, k)[Len(q) + 1] = k
  BY <1>3, <1>5
<1>7. /\ \A i \in DOMAIN Append(q, k) :
           (i \in DOMAIN q /\ Append(q, k)[i] = q[i]) \/ Append(q, k)[i] = k
      /\ \A i \in DOMAIN q : i \in DOMAIN Append(q, k) /\ Append(q, k)[i] = q[i]
      /\ \E j \in DOMAIN Append(q, k) : Append(q, k)[j] = k
  BY <1>6
<1>8. /\ registry' \in [Services -> Seq(ShareKey)]
      /\ registry'[u] = Append(q, k)
      /\ \A t \in Services : t # u => registry'[t] = registry[t]
  BY <1>1, <1>4, <1>6 DEF q
<1>9. ASSUME NEW t \in Services
      PROVE  /\ \A i \in DOMAIN registry'[t] :
                  \/ i \in DOMAIN registry[t] /\ registry'[t][i] = registry[t][i]
                  \/ /\ t = u
                     /\ registry'[t][i].owner = next
                     /\ OwnKey(registry'[t][i])
             /\ \A i \in DOMAIN registry[t] :
                  i \in DOMAIN registry'[t] /\ registry'[t][i] = registry[t][i]
  <2>1. CASE t = u
    BY <1>3, <1>7, <1>8, <2>1 DEF q
  <2>2. CASE t # u
    BY <1>8, <2>2
  <2>. QED
    BY <2>1, <2>2
<1>10. \E j \in DOMAIN registry'[u] : registry'[u][j].owner = next
  BY <1>3, <1>7, <1>8
<1>. QED
  BY <1>1, <1>8, <1>9, <1>10 DEF u

(* A round scans the keys that lag, and stores what it has found for the   *)
(* last of them.                                                           *)
LEMMA RoundIs ==
  ASSUME ClientInv, NEW s \in Services, NEW height \in 1..MaxHeight,
         NEW there \in SUBSET Txs, Round(s, height, there)
  PROVE  /\ registry' \in [Services -> Seq(ShareKey)]
         /\ \A t \in Services : DOMAIN registry'[t] = DOMAIN registry[t]
         /\ \A t \in Services : \A i \in DOMAIN registry[t] :
              /\ registry'[t][i].owner = registry[t][i].owner
              /\ OwnKey(registry'[t][i])
         /\ rows' \in [Services -> Seq(SUBSET Txs)]
         /\ \A t \in Services :
              \/ rows'[t] = rows[t]
              \/ \E i \in DOMAIN registry'[t] :
                   /\ registry'[t][i].indices \in SUBSET Txs
                   /\ rows'[t] = <<registry'[t][i].indices>>
<1>. DEFINE q == registry[s]
            lagging == {i \in DOMAIN q : Enclave(s)!Lags(q[i], height)}
            scanned == [i \in DOMAIN q |->
                          IF i \in lagging
                          THEN Enclave(s)!Scan(q[i], FlagsOf(there))
                          ELSE q[i]]
            last == CHOOSE i \in lagging : \A j \in lagging : j <= i
            a == scanned[last].indices
<1>1. /\ registry \in [Services -> Seq(ShareKey)]
      /\ rows \in [Services -> Seq(SUBSET Txs)]
      /\ \A t \in Services : \A i \in DOMAIN registry[t] : OwnKey(registry[t][i])
  BY DEF ClientInv, Registries, Found
<1>2. /\ lagging # {}
      /\ registry' = [registry EXCEPT ![s] = scanned]
      /\ rows' = [rows EXCEPT ![s] = <<a>>]
  BY DEF Round
<1>3. /\ q \in Seq(ShareKey) /\ \A i \in DOMAIN q : OwnKey(q[i])
      /\ Len(q) \in Nat /\ DOMAIN q = 1..Len(q)
      /\ \A i \in DOMAIN q : q[i] \in ShareKey
  BY <1>1
<1>4. last \in DOMAIN q
  <2>1. lagging \in SUBSET Int /\ \A i \in lagging : i <= Len(q)
    BY <1>3
  <2>2. \E g \in lagging : \A i \in lagging : i <= g
    <3>1. Len(q) \in Int
      BY <1>3
    <3>. HIDE DEF lagging, q
    <3>. QED
      BY <1>2, <2>1, <3>1, GreatestExists
  <2>3. last \in lagging
    <3>. HIDE DEF lagging
    <3>. QED
      BY <2>2
  <2>. QED
    BY <2>3
<1>. HIDE DEF last
<1>5. ASSUME NEW i \in DOMAIN q
      PROVE  /\ scanned[i] \in ShareKey /\ OwnKey(scanned[i])
             /\ scanned[i].owner = q[i].owner
  <2>1. CASE i \in lagging
    <3>1. scanned[i] = Enclave(s)!Scan(q[i], FlagsOf(there))
      BY <2>1
    <3>2. q[i] \in ShareKey /\ OwnKey(q[i])
      BY <1>3
    <3>. QED
      BY <3>1, <3>2, ScanIs
  <2>2. CASE i \notin lagging
    BY <1>3, <2>2
  <2>. QED
    BY <2>1, <2>2
<1>6. DOMAIN scanned = DOMAIN q
  OBVIOUS
<1>7. scanned \in Seq(ShareKey)
  <2>1. scanned = [i \in 1..Len(q) |-> scanned[i]]
    BY <1>3
  <2>. HIDE DEF scanned, q
  <2>. QED
    BY <1>3, <1>5, <2>1
<1>. HIDE DEF scanned
<1>8. a \in SUBSET Txs
  <2>1. a \subseteq Detects(scanned[last].owner)
    BY <1>4, <1>5 DEF OwnKey
  <2>2. Detects(scanned[last].owner) \subseteq Txs
    BY ClientAssumption DEF Detects
  <2>. QED
    BY <2>1, <2>2
<1>9. <<a>> \in Seq(SUBSET Txs)
  BY <1>8
<1>10. /\ registry' \in [Services -> Seq(ShareKey)]
       /\ registry'[s] = scanned
       /\ \A t \in Services : t # s => registry'[t] = registry[t]
  BY <1>1, <1>2, <1>7
<1>11. /\ rows' \in [Services -> Seq(SUBSET Txs)]
       /\ rows'[s] = <<a>>
       /\ \A t \in Services : t # s => rows'[t] = rows[t]
  <2>. HIDE DEF a
  <2>. QED
    BY <1>1, <1>2, <1>9
<1>12. ASSUME NEW t \in Services
       PROVE  /\ DOMAIN registry'[t] = DOMAIN registry[t]
              /\ \A i \in DOMAIN registry[t] :
                   /\ registry'[t][i].owner = registry[t][i].owner
                   /\ OwnKey(registry'[t][i])
              /\ \/ rows'[t] = rows[t]
                 \/ \E i \in DOMAIN registry'[t] :
                      /\ registry'[t][i].indices \in SUBSET Txs
                      /\ rows'[t] = <<registry'[t][i].indices>>
  <2>1. CASE t = s
    <3>1. registry'[t] = scanned /\ rows'[t] = <<a>> /\ registry[t] = q
      BY <1>10, <1>11, <2>1
    <3>. HIDE DEF q
    <3>. QED
      BY <1>4, <1>5, <1>6, <1>8, <3>1
  <2>2. CASE t # s
    BY <1>1, <1>10, <1>11, <2>2
  <2>. QED
    BY <2>1, <2>2
<1>. QED
  BY <1>10, <1>11, <1>12

-----------------------------------------------------------------------------
(* The invariant, a part at a time.                                        *)

(* The file, and the position of a command in it.                          *)
LEMMA PhaseStep ==
  ASSUME ClientInv, ClientNext
  PROVE  Phase'
<1>0. /\ Phase /\ Len(config) \in Nat /\ MaxServices \in Nat /\ MaxFaults \in Nat
      /\ DOMAIN config = 1..Len(config)
      /\ faults \in [saves : 0..MaxFaults, restarts : 0..MaxFaults]
  BY FileIs, ClientAssumption DEF ClientInv, Phase
<1>1. ASSUME Idle, file' = Torn \/ IsFile(file'),
             faults' \in [saves : 0..MaxFaults, restarts : 0..MaxFaults]
      PROVE  Phase'
  <2>1. IsFile(config') /\ Len(config') = 0
    BY <1>1, EmptyFile DEF Idle
  <2>2. next' \in 1..(Len(config') + 1)
    BY <1>1, <2>1 DEF Idle
  <2>. QED
    BY <1>1, <2>1, <2>2 DEF Phase, Idle
<1>2. ASSUME NEW c \in {"register", "query"},
             NEW b \in Birthdays \cup {NoBirthday},
             Begin(c, file, b), UNCHANGED <<file, faults>>
      PROVE  Phase'
  <2>1. IsFile(file) /\ config = <<>>
    BY <1>0, <1>2 DEF Begin, Phase
  <2>2. next = 1 /\ Len(file) \in Nat
    BY <1>0, <2>1, EmptyFile, FileIs DEF Phase
  <2>3. next' \in 1..(Len(config') + 1)
    BY <1>2, <2>2 DEF Begin
  <2>. QED
    BY <1>0, <1>2, <2>1, <2>3 DEF Phase, Begin
<1>3. CASE \E s \in Services : AddService(s)
  <2>1. PICK s \in Services : AddService(s)
    BY <1>3
  <2>. DEFINE g == Append(file, [url |-> s, index |-> NewIndex(file)])
  <2>2. /\ file # Torn /\ command = "none" /\ Len(file) < MaxServices
        /\ config' = g /\ file' = Torn /\ command' = "save"
        /\ birthday' = NoBirthday /\ next' = next /\ faults' = faults
    BY <2>1 DEF AddService, Begin
  <2>. HIDE DEF g
  <2>3. IsFile(file) /\ config = <<>>
    BY <1>0, <2>2 DEF Phase
  <2>4. IsFile(g) /\ Len(g) = Len(file) + 1 /\ Len(file) \in Nat
    BY <2>2, <2>3, FileGrows, FileIs DEF g
  <2>5. next = 1
    BY <1>0, <2>3, EmptyFile DEF Phase
  <2>6. next' \in 1..(Len(config') + 1)
    BY <2>2, <2>4, <2>5
  <2>. QED
    BY <1>0, <2>2, <2>4, <2>6 DEF Phase
<1>4. CASE SaveEnds
  BY <1>0, <1>1, <1>4, SavedIsSame DEF SaveEnds, Phase
<1>5. CASE SaveFails
  <2>1. Saved(config) = config
    BY <1>0, SavedIsSame DEF Phase
  <2>2. file' = Torn \/ \E n \in 1..(Len(config) - 1) : file' = SubSeq(config, 1, n)
    BY <1>5, <2>1 DEF SaveFails
  <2>3. file' = Torn \/ IsFile(file')
    BY <1>0, <2>2, FileIsCut DEF Phase
  <2>4. faults' \in [saves : 0..MaxFaults, restarts : 0..MaxFaults]
    BY <1>0, <1>5 DEF SaveFails
  <2>. QED
    BY <1>1, <1>5, <2>3, <2>4 DEF SaveFails
<1>6. CASE RemoveFile
  BY <1>0, <1>6, EmptyFile DEF RemoveFile, Phase, commandVars
<1>7. CASE \E b \in Birthdays : BeginRegister(b)
  BY <1>2, <1>7 DEF BeginRegister
<1>8. CASE BeginQuery
  BY <1>2, <1>8 DEF BeginQuery
<1>9. CASE RegisterOne \/ QueryOne
  <2>1. next \in 1..Len(config) /\ next' = next + 1
        /\ UNCHANGED <<file, command, config, birthday, faults>>
    BY <1>0, <1>9 DEF RegisterOne, QueryOne, serviceVars
  <2>2. next' \in 1..(Len(config') + 1)
    BY <1>0, <2>1
  <2>. QED
    BY <1>0, <2>1, <2>2 DEF Phase
<1>10. CASE RegisterFails \/ RegisterEnds \/ QueryEnds
  BY <1>0, <1>1, <1>10 DEF RegisterFails, RegisterEnds, QueryEnds, Phase
<1>11. CASE \E s \in Services : RestartEnclave(s)
  <2>1. /\ UNCHANGED <<file, command, config, next, birthday>>
        /\ faults.restarts < MaxFaults
        /\ faults' = [faults EXCEPT !.restarts = @ + 1]
    BY <1>11 DEF RestartEnclave, commandVars
  <2>2. faults' \in [saves : 0..MaxFaults, restarts : 0..MaxFaults]
    BY <1>0, <2>1
  <2>. QED
    BY <1>0, <2>1, <2>2 DEF Phase
<1>12. CASE \E s \in Services, height \in 1..MaxHeight, there \in SUBSET Txs :
               Round(s, height, there)
  BY <1>0, <1>12 DEF Round, commandVars, Phase
<1>. QED
  BY <1>3, <1>4, <1>5, <1>6, <1>7, <1>8, <1>9, <1>10, <1>11, <1>12
  DEF ClientNext

(* What the services hold and have found, and the answers of a query.      *)
LEMMA FoundStep ==
  ASSUME ClientInv, ClientNext
  PROVE  Registries' /\ Found'
<1>0. /\ Phase /\ Registries /\ Found
      /\ DOMAIN config = 1..Len(config)
  BY FileIs DEF ClientInv, Phase
<1>1. ASSUME lists' = lists \/ lists' = <<>>
      PROVE  lists' \in Seq(SUBSET Txs)
  <2>1. CASE lists' = lists
    BY <1>0, <2>1 DEF Found
  <2>2. CASE lists' = <<>>
    BY <2>2
  <2>. QED
    BY <1>1, <2>1, <2>2
<1>2. CASE UNCHANGED <<registry, rows>> /\ (lists' = lists \/ lists' = <<>>)
  BY <1>0, <1>1, <1>2 DEF Registries, Found
<1>3. CASE /\ next \in DOMAIN config /\ Registered
           /\ UNCHANGED rows /\ (lists' = lists \/ lists' = <<>>)
  <2>1. /\ registry' \in [Services -> Seq(ShareKey)]
        /\ \A t \in Services : \A i \in DOMAIN registry'[t] :
             \/ i \in DOMAIN registry[t] /\ registry'[t][i] = registry[t][i]
             \/ OwnKey(registry'[t][i])
    BY <1>3, RegisteredIs
  <2>2. \A t \in Services : \A i \in DOMAIN registry'[t] : OwnKey(registry'[t][i])
    BY <1>0, <2>1 DEF Found
  <2>. QED
    BY <1>0, <1>1, <1>3, <2>1, <2>2 DEF Registries, Found
<1>4. CASE QueryOne
  <2>. DEFINE u == config[next].url
  <2>1. u \in Services
    BY <1>0, <1>4, FileIs DEF QueryOne, Phase
  <2>2. /\ lists' = lists \o rows[u] /\ UNCHANGED <<registry, rows>>
        /\ lists \in Seq(SUBSET Txs) /\ rows[u] \in Seq(SUBSET Txs)
    BY <1>0, <1>4, <2>1 DEF QueryOne, Current, serviceVars, Found
  <2>. HIDE DEF u
  <2>3. lists' \in Seq(SUBSET Txs)
    BY <2>2, ConcatProperties
  <2>. QED
    BY <1>0, <2>2, <2>3 DEF Registries, Found
<1>5. CASE \E s \in Services : RestartEnclave(s)
  <2>1. PICK s \in Services : RestartEnclave(s)
    BY <1>5
  <2>2. /\ registry' = [registry EXCEPT ![s] = <<>>]
        /\ UNCHANGED <<rows, lists>>
    BY <2>1 DEF RestartEnclave, commandVars
  <2>3. /\ registry' \in [Services -> Seq(ShareKey)]
        /\ registry'[s] = <<>>
        /\ \A t \in Services : t # s => registry'[t] = registry[t]
    BY <1>0, <2>2 DEF Registries
  <2>4. \A t \in Services : \A i \in DOMAIN registry'[t] : OwnKey(registry'[t][i])
    <3>1. SUFFICES ASSUME NEW t \in Services, NEW i \in DOMAIN registry'[t]
                   PROVE  OwnKey(registry'[t][i])
      OBVIOUS
    <3>2. CASE t = s
      BY <2>3, <3>2
    <3>3. CASE t # s
      BY <1>0, <2>3, <3>3 DEF Found
    <3>. QED
      BY <3>2, <3>3
  <2>. QED
    BY <1>0, <2>2, <2>3, <2>4 DEF Registries, Found
<1>6. CASE \E s \in Services, height \in 1..MaxHeight, there \in SUBSET Txs :
             Round(s, height, there)
  <2>1. PICK s \in Services, height \in 1..MaxHeight, there \in SUBSET Txs :
          Round(s, height, there)
    BY <1>6
  <2>2. /\ registry' \in [Services -> Seq(ShareKey)]
        /\ \A t \in Services : DOMAIN registry'[t] = DOMAIN registry[t]
        /\ \A t \in Services : \A i \in DOMAIN registry[t] : OwnKey(registry'[t][i])
        /\ rows' \in [Services -> Seq(SUBSET Txs)]
        /\ \A t \in Services :
             rows'[t] = rows[t] \/ \E a \in SUBSET Txs : rows'[t] = <<a>>
    BY <2>1, RoundIs
  <2>3. lists' = lists
    BY <2>1 DEF Round, commandVars
  <2>. QED
    BY <1>0, <2>2, <2>3 DEF Registries, Found
<1>7. ASSUME \/ SaveEnds \/ SaveFails \/ RemoveFile \/ RegisterEnds
             \/ BeginQuery \/ QueryEnds
             \/ \E b \in Birthdays : BeginRegister(b)
             \/ \E s \in Services : AddService(s)
      PROVE  UNCHANGED <<registry, rows>> /\ (lists' = lists \/ lists' = <<>>)
  BY <1>7 DEF SaveEnds, SaveFails, RemoveFile, RegisterEnds, BeginQuery,
     QueryEnds, BeginRegister, AddService, Begin, Idle, serviceVars, commandVars
<1>8. ASSUME RegisterOne \/ RegisterFails
      PROVE  /\ UNCHANGED rows /\ (lists' = lists \/ lists' = <<>>)
             /\ \/ next \in DOMAIN config /\ Registered
                \/ UNCHANGED registry
  BY <1>8 DEF RegisterOne, RegisterFails, Idle
<1>. QED
  BY <1>2, <1>3, <1>4, <1>5, <1>6, <1>7, <1>8 DEF ClientNext

(* Who holds which share.                                                  *)
Holders(reg, f) ==
  \A s \in Services : \A i \in DOMAIN reg[s] :
    reg[s][i].owner \in DOMAIN f /\ f[reg[s][i].owner].url = s

(* Where the stored rows come from.                                        *)
Stored(rs, f) ==
  \A s \in Services : \A i \in DOMAIN rs[s] : rs[s][i] \subseteq OwnOf(s, f)

(* What a share detects is own to the service that has it in a file, and   *)
(* stays so in a file that has more services.                              *)
LEMMA OwnIs ==
  ASSUME NEW f, IsFile(f), NEW j \in DOMAIN f
  PROVE  Detects(j) \subseteq OwnOf(f[j].url, f)
<1>1. f[j].index = j
  BY DEF IsFile
<1>. QED
  BY <1>1 DEF OwnOf

LEMMA OwnGrows ==
  ASSUME NEW f, NEW g, \A i \in DOMAIN f : i \in DOMAIN g /\ g[i] = f[i],
         NEW s
  PROVE  OwnOf(s, f) \subseteq OwnOf(s, g)
BY DEF OwnOf

(* A number stays with its service, while the file is saved, too.          *)
LEMMA ApartStep ==
  ASSUME ClientInv, ClientNext
  PROVE  Apart'
<1>0. /\ Phase /\ Registries /\ Apart
      /\ faults \in [saves : 0..MaxFaults, restarts : 0..MaxFaults]
      /\ MaxFaults \in Nat
  BY ClientAssumption DEF ClientInv, Phase
<1>. SUFFICES ASSUME faults'.saves = 0
              PROVE  /\ file' = Torn => command' = "save"
                     /\ Holders(registry', TheFile') /\ Stored(rows', TheFile')
  BY DEF Apart, Holders, Stored
<1>1. faults.saves = 0 /\ ~SaveFails
  <2>1. CASE SaveFails
    <3>1. faults'.saves = faults.saves + 1 /\ faults.saves \in 0..MaxFaults
      BY <1>0, <2>1 DEF SaveFails
    <3>. QED
      BY <1>0, <3>1
  <2>2. CASE \E s \in Services : RestartEnclave(s)
    BY <1>0, <2>2 DEF RestartEnclave, SaveFails, serviceVars
  <2>3. CASE UNCHANGED faults
    <3>1. ~SaveFails
      <4>1. SUFFICES ASSUME SaveFails PROVE FALSE
        OBVIOUS
      <4>2. faults'.saves = faults.saves + 1 /\ faults.saves \in 0..MaxFaults
        BY <1>0, <4>1 DEF SaveFails
      <4>. QED
        BY <1>0, <2>3, <4>2
    <3>. QED
      BY <2>3, <3>1
  <2>. QED
    BY <2>1, <2>2, <2>3 DEF ClientNext, SaveEnds, RemoveFile, RegisterOne,
       RegisterFails, RegisterEnds, BeginQuery, QueryOne, QueryEnds,
       BeginRegister, AddService, Round
<1>2. /\ file = Torn => command = "save"
      /\ Holders(registry, TheFile) /\ Stored(rows, TheFile)
  BY <1>0, <1>1 DEF Apart, Holders, Stored
<1>3. CASE UNCHANGED <<registry, rows>> /\ TheFile' = TheFile /\ (file' = Torn => command' = "save")
  BY <1>2, <1>3
<1>4. CASE \E s \in Services : AddService(s)
  <2>1. PICK s \in Services : AddService(s)
    BY <1>4
  <2>. DEFINE g == Append(file, [url |-> s, index |-> NewIndex(file)])
  <2>2. /\ file # Torn /\ command = "none" /\ Len(file) < MaxServices
        /\ config' = g /\ command' = "save" /\ UNCHANGED <<registry, rows>>
    BY <2>1 DEF AddService, Begin, serviceVars
  <2>. HIDE DEF g
  <2>3. IsFile(file) /\ TheFile = file /\ TheFile' = g
    BY <1>0, <2>2 DEF Phase, TheFile
  <2>4. /\ \A i \in 1..Len(file) : g[i] = file[i]
        /\ Len(g) = Len(file) + 1 /\ IsFile(g)
    BY <2>2, <2>3, FileGrows DEF g
  <2>5. Len(file) \in Nat /\ DOMAIN file = 1..Len(file) /\ DOMAIN g = 1..Len(g)
    BY <2>3, <2>4, FileIs
  <2>6. \A i \in DOMAIN file : i \in DOMAIN g /\ g[i] = file[i]
    BY <2>4, <2>5
  <2>7. Holders(registry', g)
    BY <1>2, <2>2, <2>3, <2>6 DEF Holders
  <2>8. \A t : OwnOf(t, file) \subseteq OwnOf(t, g)
    BY <2>6, OwnGrows
  <2>9. Stored(rows', g)
    BY <1>2, <2>2, <2>3, <2>8 DEF Stored
  <2>. QED
    BY <2>2, <2>3, <2>7, <2>9
<1>5. CASE SaveEnds
  <2>1. Saved(config) = config /\ config # Torn
    BY <1>0, SavedIsSame, TornIsNoFile DEF Phase
  <2>2. /\ file' = config /\ command' = "none" /\ command = "save"
        /\ UNCHANGED <<registry, rows>>
    BY <1>5, <2>1 DEF SaveEnds, Idle, serviceVars
  <2>. QED
    BY <1>2, <2>1, <2>2 DEF TheFile
<1>6. CASE RemoveFile
  BY <1>2, <1>6 DEF RemoveFile
<1>7. ASSUME \/ \E b \in Birthdays : BeginRegister(b)
             \/ BeginQuery
      PROVE  /\ UNCHANGED <<registry, rows>> /\ TheFile' = TheFile
             /\ file' = Torn => command' = "save"
  BY <1>7 DEF BeginRegister, BeginQuery, Begin, TheFile, serviceVars
<1>8. ASSUME RegisterEnds \/ QueryEnds \/ QueryOne
      PROVE  /\ UNCHANGED <<registry, rows>> /\ TheFile' = TheFile
             /\ file' = Torn => command' = "save"
  BY <1>2, <1>8 DEF RegisterEnds, QueryEnds, QueryOne, Idle, TheFile, serviceVars
<1>9. CASE RegisterOne \/ RegisterFails
  <2>1. /\ command = "register" /\ next \in DOMAIN config
        /\ file' = file /\ command' # "save" /\ file = config
        /\ Registered \/ UNCHANGED registry
        /\ UNCHANGED rows
    BY <1>0, <1>9 DEF RegisterOne, RegisterFails, Idle, Phase
  <2>2. TheFile = config /\ TheFile' = config /\ file' # Torn
    BY <1>2, <2>1 DEF TheFile
  <2>3. CASE Registered
    <3>1. \A t \in Services : \A i \in DOMAIN registry'[t] :
            \/ i \in DOMAIN registry[t] /\ registry'[t][i] = registry[t][i]
            \/ t = config[next].url /\ registry'[t][i].owner = next
      BY <2>1, <2>3, RegisteredIs
    <3>2. Holders(registry', config)
      BY <1>2, <2>1, <2>2, <3>1 DEF Holders
    <3>. QED
      BY <1>2, <2>1, <2>2, <3>2
  <2>4. CASE UNCHANGED registry
    BY <1>2, <2>1, <2>2, <2>4
  <2>. QED
    BY <2>1, <2>3, <2>4
<1>10. CASE \E s \in Services : RestartEnclave(s)
  <2>1. PICK s \in Services : RestartEnclave(s)
    BY <1>10
  <2>2. /\ registry' = [registry EXCEPT ![s] = <<>>]
        /\ TheFile' = TheFile /\ UNCHANGED <<file, command, rows>>
    BY <2>1 DEF RestartEnclave, commandVars, TheFile
  <2>3. \A t \in Services : registry'[t] = registry[t] \/ registry'[t] = <<>>
    BY <1>0, <2>2 DEF Registries
  <2>4. \A t \in Services : \A i \in DOMAIN registry'[t] : registry'[t] = registry[t]
    BY <2>3
  <2>5. Holders(registry', TheFile)
    BY <1>2, <2>2, <2>4 DEF Holders
  <2>. QED
    BY <1>2, <2>2, <2>5
<1>11. CASE \E s \in Services, height \in 1..MaxHeight, there \in SUBSET Txs :
               Round(s, height, there)
  <2>1. PICK s \in Services, height \in 1..MaxHeight, there \in SUBSET Txs :
          Round(s, height, there)
    BY <1>11
  <2>2. /\ \A t \in Services : DOMAIN registry'[t] = DOMAIN registry[t]
        /\ \A t \in Services : \A i \in DOMAIN registry[t] :
             registry'[t][i].owner = registry[t][i].owner
        /\ \A t \in Services : \A i \in DOMAIN registry[t] : OwnKey(registry'[t][i])
        /\ \A t \in Services :
             \/ rows'[t] = rows[t]
             \/ \E i \in DOMAIN registry'[t] : rows'[t] = <<registry'[t][i].indices>>
    BY <2>1, RoundIs
  <2>3. TheFile' = TheFile /\ UNCHANGED <<file, command>>
    BY <2>1 DEF Round, commandVars, TheFile
  <2>4. Holders(registry', TheFile)
    BY <1>2, <2>2 DEF Holders
  <2>5. IsFile(TheFile)
    BY <1>0, <1>2 DEF Phase, TheFile
  <2>6. ASSUME NEW t \in Services, NEW i \in DOMAIN registry'[t]
        PROVE  registry'[t][i].indices \subseteq OwnOf(t, TheFile)
    <3>. DEFINE o == registry'[t][i].owner
    <3>1. o \in DOMAIN TheFile /\ TheFile[o].url = t
      BY <2>4, <2>6 DEF Holders
    <3>2. registry'[t][i].indices \subseteq Detects(o)
      BY <2>2, <2>6 DEF OwnKey
    <3>. HIDE DEF o
    <3>3. Detects(o) \subseteq OwnOf(t, TheFile)
      BY <2>5, <3>1, OwnIs
    <3>. QED
      BY <3>2, <3>3
  <2>7. Stored(rows', TheFile)
    <3>1. SUFFICES ASSUME NEW t \in Services, NEW i \in DOMAIN rows'[t]
                   PROVE  rows'[t][i] \subseteq OwnOf(t, TheFile)
      BY DEF Stored
    <3>2. CASE rows'[t] = rows[t]
      BY <1>2, <3>2 DEF Stored
    <3>3. ASSUME NEW k \in DOMAIN registry'[t], rows'[t] = <<registry'[t][k].indices>>
          PROVE  rows'[t][i] \subseteq OwnOf(t, TheFile)
      <4>1. rows'[t][i] = registry'[t][k].indices
        BY <3>3
      <4>. QED
        BY <2>6, <4>1
    <3>. QED
      BY <2>2, <3>2, <3>3
  <2>. QED
    BY <1>2, <2>3, <2>4, <2>7
<1>. QED
  BY <1>1, <1>3, <1>4, <1>5, <1>6, <1>7, <1>8, <1>9, <1>10, <1>11
  DEF ClientNext

(* The answers of a query are of the services it has asked.                *)
LEMMA AskedStep ==
  ASSUME ClientInv, ClientNext
  PROVE  Asked'
<1>0. /\ Phase /\ Found /\ Apart /\ Asked
      /\ Len(config) \in Nat /\ DOMAIN config = 1..Len(config)
      /\ next \in 1..(Len(config) + 1)
      /\ \A i \in 1..Len(config) : config[i].url \in Services
      /\ faults \in [saves : 0..MaxFaults, restarts : 0..MaxFaults]
      /\ MaxFaults \in Nat
  BY FileIs, ClientAssumption DEF ClientInv, Phase
<1>1. CASE Idle
  BY <1>1 DEF Idle, Asked
<1>2. CASE \E s \in Services : AddService(s)
  BY <1>0, <1>2 DEF AddService, Begin, Asked
<1>3. CASE \E b \in Birthdays : BeginRegister(b)
  BY <1>0, <1>3 DEF BeginRegister, Begin, Asked
<1>4. CASE BeginQuery
  <2>1. config = <<>> /\ lists' = <<>> /\ next' = next
    BY <1>0, <1>4 DEF BeginQuery, Begin, Asked, Phase
  <2>2. next' = 1
    BY <1>0, <2>1, EmptyFile
  <2>3. Len(lists') = next' - 1 /\ DOMAIN lists' = {}
    BY <2>1, <2>2
  <2>. QED
    BY <1>4, <2>3 DEF BeginQuery, Begin, Asked
<1>5. CASE RemoveFile
  BY <1>0, <1>5 DEF RemoveFile, commandVars, Asked
<1>6. CASE RegisterOne
  BY <1>0, <1>6 DEF RegisterOne, Asked
<1>7. CASE QueryOne
  <2>. DEFINE u == config[next].url
  <2>1. /\ command = "query" /\ command' = "query" /\ next \in 1..Len(config)
        /\ next' = next + 1 /\ UNCHANGED <<config, faults>>
        /\ rows[u] # <<>> /\ lists' = lists \o rows[u] /\ u \in Services
    BY <1>0, <1>7 DEF QueryOne, Current
  <2>2. PICK a \in SUBSET Txs : rows[u] = <<a>>
    BY <1>0, <2>1 DEF Found
  <2>3. Len(lists) = next - 1 /\ lists \in Seq(SUBSET Txs)
    BY <1>0, <2>1 DEF Found, Asked
  <2>4. lists' = Append(lists, a)
    BY <2>1, <2>2, <2>3
  <2>5. /\ Len(lists') = next /\ DOMAIN lists' = 1..next
        /\ \A i \in 1..(next - 1) : i \in DOMAIN lists /\ lists'[i] = lists[i]
        /\ lists'[next] = a
    BY <1>0, <2>3, <2>4
  <2>6. ASSUME faults.saves = 0
        PROVE  a \subseteq OwnOf(u, config)
    <3>1. TheFile = config
      BY <1>0, <2>1 DEF Phase, TheFile
    <3>2. 1 \in DOMAIN rows[u] /\ rows[u][1] = a
      BY <2>2
    <3>. QED
      BY <1>0, <2>1, <2>6, <3>1, <3>2 DEF Apart
  <2>. HIDE DEF u
  <2>7. ASSUME faults.saves = 0, NEW i \in DOMAIN lists'
        PROVE  lists'[i] \subseteq OwnOf(config[i].url, config)
    <3>1. CASE i = next
      BY <2>5, <2>6, <2>7, <3>1 DEF u
    <3>2. CASE i # next
      <4>1. i \in DOMAIN lists /\ lists'[i] = lists[i]
        BY <1>0, <2>5, <3>2
      <4>. QED
        BY <1>0, <2>1, <2>7, <4>1 DEF Asked
    <3>. QED
      BY <3>1, <3>2
  <2>8. Len(lists') = next' - 1
    BY <1>0, <2>1, <2>5
  <2>. QED
    BY <2>1, <2>7, <2>8 DEF Asked
<1>8. CASE \E s \in Services : RestartEnclave(s)
  <2>1. UNCHANGED <<command, config, next, lists>> /\ faults'.saves = faults.saves
    BY <1>0, <1>8 DEF RestartEnclave, commandVars
  <2>. QED
    BY <1>0, <2>1 DEF Asked
<1>9. CASE \E s \in Services, height \in 1..MaxHeight, there \in SUBSET Txs :
             Round(s, height, there)
  <2>1. UNCHANGED <<command, config, next, lists, faults>>
    BY <1>9 DEF Round, commandVars
  <2>. QED
    BY <1>0, <2>1 DEF Asked
<1>10. SaveEnds \/ SaveFails \/ RegisterFails \/ RegisterEnds \/ QueryEnds => Idle
  BY DEF SaveEnds, SaveFails, RegisterFails, RegisterEnds, QueryEnds
<1>. QED
  BY <1>1, <1>2, <1>3, <1>4, <1>5, <1>6, <1>7, <1>8, <1>9, <1>10 DEF ClientNext

(* What register-key has passed stays registered while no enclave is       *)
(* restarted.                                                              *)
LEMMA ToldStep ==
  ASSUME ClientInv, ClientNext
  PROVE  Told'
<1>0. /\ Phase /\ Told
      /\ faults \in [saves : 0..MaxFaults, restarts : 0..MaxFaults]
      /\ MaxFaults \in Nat
      /\ DOMAIN config = 1..Len(config) /\ Len(config) \in Nat
      /\ next \in 1..(Len(config) + 1)
      /\ \A i \in 1..Len(config) : config[i].url \in Services /\ config[i].index = i
  BY FileIs, ClientAssumption DEF ClientInv, Phase
<1>1. ASSUME \/ SaveEnds \/ SaveFails \/ RegisterFails \/ RegisterEnds
             \/ QueryEnds \/ BeginQuery \/ RemoveFile \/ QueryOne
             \/ \E s \in Services : AddService(s)
      PROVE  command' # "register"
  BY <1>1 DEF SaveEnds, SaveFails, RegisterFails, RegisterEnds, QueryEnds,
     BeginQuery, RemoveFile, QueryOne, AddService, Begin, Idle, commandVars
<1>2. CASE command' # "register"
  BY <1>2 DEF Told
<1>3. CASE \E b \in Birthdays : BeginRegister(b)
  <2>1. next' = next /\ config = <<>>
    BY <1>0, <1>3 DEF BeginRegister, Begin, Phase
  <2>2. 1..(next' - 1) = {}
    BY <1>0, <2>1, EmptyFile
  <2>. QED
    BY <2>2 DEF Told
<1>4. CASE RegisterOne
  <2>1. /\ command = "register" /\ next \in DOMAIN config /\ Registered
        /\ next' = next + 1 /\ UNCHANGED <<config, faults>>
    BY <1>4 DEF RegisterOne
  <2>2. /\ config[next].url \in Services /\ config[next].index = next
        /\ \A t \in Services : \A i \in DOMAIN registry[t] :
             i \in DOMAIN registry'[t] /\ registry'[t][i] = registry[t][i]
        /\ \E j \in DOMAIN registry'[config[next].url] :
             registry'[config[next].url][j].owner = next
    BY <2>1, RegisteredIs
  <2>3. ASSUME faults.restarts = 0, NEW i \in 1..next
        PROVE  \E j \in DOMAIN registry'[config[i].url] :
                 registry'[config[i].url][j].owner = config[i].index
    <3>1. CASE i = next
      BY <2>2, <3>1
    <3>2. CASE i # next
      <4>1. i \in 1..(next - 1) /\ i \in 1..Len(config)
        BY <1>0, <3>2
      <4>2. PICK j \in DOMAIN registry[config[i].url] :
              registry[config[i].url][j].owner = config[i].index
        BY <1>0, <2>1, <2>3, <4>1 DEF Told
      <4>3. config[i].url \in Services
        BY <1>0, <4>1
      <4>. QED
        BY <2>2, <4>2, <4>3
    <3>. QED
      BY <3>1, <3>2
  <2>4. next' - 1 = next
    BY <1>0, <2>1
  <2>. QED
    BY <2>1, <2>3, <2>4 DEF Told
<1>5. CASE \E s \in Services : RestartEnclave(s)
  <2>1. faults' = [faults EXCEPT !.restarts = @ + 1]
    BY <1>5 DEF RestartEnclave
  <2>2. faults'.restarts # 0
    BY <1>0, <2>1
  <2>. QED
    BY <2>2 DEF Told
<1>6. CASE \E s \in Services, height \in 1..MaxHeight, there \in SUBSET Txs :
               Round(s, height, there)
  <2>1. PICK s \in Services, height \in 1..MaxHeight, there \in SUBSET Txs :
          Round(s, height, there)
    BY <1>6
  <2>2. /\ \A t \in Services : DOMAIN registry'[t] = DOMAIN registry[t]
        /\ \A t \in Services : \A i \in DOMAIN registry[t] :
             registry'[t][i].owner = registry[t][i].owner
    BY <2>1, RoundIs
  <2>3. UNCHANGED <<command, config, next, faults>>
    BY <2>1 DEF Round, commandVars
  <2>4. SUFFICES ASSUME command = "register", faults.restarts = 0,
                        NEW i \in 1..(next - 1)
                 PROVE  \E j \in DOMAIN registry'[config[i].url] :
                          registry'[config[i].url][j].owner = config[i].index
    BY <2>3 DEF Told
  <2>5. config[i].url \in Services
    BY <1>0
  <2>6. PICK j \in DOMAIN registry[config[i].url] :
          registry[config[i].url][j].owner = config[i].index
    BY <1>0, <2>4 DEF Told
  <2>. QED
    BY <2>2, <2>5, <2>6
<1>. QED
  BY <1>1, <1>2, <1>3, <1>4, <1>5, <1>6 DEF ClientNext

-----------------------------------------------------------------------------
(* The theorems.                                                           *)

(* The invariant holds at first.                                           *)
LEMMA InitClientInv ==
  ASSUME ClientInit
  PROVE  ClientInv
<1>. USE DEF ClientInit
<1>1. IsFile(<<>>) /\ Len(<<>>) = 0 /\ <<>> # Torn
  BY EmptyFile, TornIsNoFile
<1>2. MaxFaults \in Nat
  BY ClientAssumption
<1>3. 0 \in 0..MaxFaults
  BY <1>2
<1>4. faults \in [saves : 0..MaxFaults, restarts : 0..MaxFaults]
  BY <1>3
<1>5. Phase
  BY <1>1, <1>4 DEF Phase
<1>6. Registries
  BY DEF Registries
<1>7. Found
  BY <1>1, EmptySeq DEF Found
<1>8. Apart
  BY <1>1 DEF Apart
<1>9. Asked /\ Told
  BY DEF Asked, Told
<1>. QED
  BY <1>5, <1>6, <1>7, <1>8, <1>9 DEF ClientInv

(* The invariant of the commands and the services.                         *)
LEMMA ClientInvariance == ClientSpec => []ClientInv
<1>1. ClientInit => ClientInv
  BY InitClientInv
<1>2. ASSUME ClientInv, ClientNext PROVE ClientInv'
  BY <1>2, PhaseStep, FoundStep, ApartStep, AskedStep, ToldStep DEF ClientInv
<1>3. ASSUME ClientInv, UNCHANGED clientVars PROVE ClientInv'
  BY <1>3 DEF ClientInv, Phase, Registries, Found, Apart, Asked, Told, TheFile,
     clientVars, commandVars, serviceVars
<1>4. ClientInv /\ [ClientNext]_clientVars => ClientInv'
  BY <1>2, <1>3
<1>. QED
  BY <1>1, <1>4, PTL DEF ClientSpec

(* The types of the variables: whatever part of the file a failed save has *)
(* left, the services of a file that can be parsed are numbered from 1, so *)
(* that each has a share (config.rs:50-93, ratls.rs:29-45).                *)
THEOREM ClientTypeCorrect == ClientSpec => []ClientTypeOK
<1>1. ASSUME ClientInv PROVE ClientTypeOK
  <2>1. \A f : IsFile(f) => Numbered(f) /\ Len(f) <= MaxServices /\ Len(f) \in Nat
    BY FileIs DEF Numbered, IsFile
  <2>2. file = Torn \/ (Numbered(file) /\ Len(file) <= MaxServices)
    BY <1>1, <2>1 DEF ClientInv, Phase
  <2>3. Numbered(config) /\ next \in 1..(MaxServices + 1)
    <3>1. IsFile(config) /\ next \in 1..(Len(config) + 1)
      BY <1>1 DEF ClientInv, Phase
    <3>2. Numbered(config) /\ Len(config) <= MaxServices /\ Len(config) \in Nat
      BY <2>1, <3>1
    <3>3. MaxServices \in Nat
      BY ClientAssumption
    <3>. QED
      BY <3>1, <3>2, <3>3
  <2>4. birthday \in Nat \cup {NoBirthday}
    BY <1>1, ClientAssumption DEF ClientInv, Phase
  <2>5. ASSUME NEW s \in Services
        PROVE  /\ Enclave(s)!EnclaveTypeOK
               /\ rows[s] = <<>> \/ \E a \in SUBSET Txs : rows[s] = <<a>>
    <3>1. registry[s] \in Seq(ShareKey)
      BY <1>1 DEF ClientInv, Registries
    <3>2. Enclave(s)!EnclaveTypeOK
      BY <3>1, KeysOfShares DEF Enclave!EnclaveTypeOK
    <3>. QED
      BY <1>1, <3>2 DEF ClientInv, Found
  <2>6. \A i \in DOMAIN lists : lists[i] \subseteq Txs
    <3>1. lists \in Seq(SUBSET Txs)
      BY <1>1 DEF ClientInv, Found
    <3>. QED
      BY <3>1
  <2>. QED
    BY <1>1, <2>2, <2>3, <2>4, <2>5, <2>6 DEF ClientTypeOK, ClientInv, Phase
<1>2. ClientInv => ClientTypeOK
  BY <1>1
<1>. QED
  BY <1>2, ClientInvariance, PTL

(* Two services never hold the same share, whichever registrations failed  *)
(* and were repeated after more services were added, unless a save of the  *)
(* file has failed: the number of a service never changes                  *)
(* (config.rs:74-93, ratls.rs:35-45).                                      *)
THEOREM SharesStayApart == ClientSpec => []SharesApart
<1>1. ClientInv => SharesApart
  BY DEF ClientInv, Apart, SharesApart
<1>. QED
  BY <1>1, ClientInvariance, PTL

(* When register-key has ended well, every service that was in the file    *)
(* holds its share, unless one was restarted (ratls.rs:35-46).             *)
THEOREM OkIsRegistered == ClientSpec => []OkMeansRegistered
<1>1. ASSUME ClientInv, next \notin DOMAIN config PROVE next - 1 = Len(config)
  BY <1>1, FileIs DEF ClientInv, Phase
<1>2. ClientInv => DOMAIN config = 1..Len(config)
  BY FileIs DEF ClientInv, Phase
<1>3. ClientInv => OkMeansRegistered
  BY <1>1, <1>2 DEF ClientInv, Told, OkMeansRegistered
<1>. QED
  BY <1>3, ClientInvariance, PTL

(* An answer is of the service that was asked: each of its indices is one  *)
(* that a share of the user detects which this service has in the file,    *)
(* unless a save of the file has failed (query.rs:15-24, ratls.rs:35-45).  *)
THEOREM AnswersAreOfService == ClientSpec => []AnswersAreOwn
<1>1. ClientInv => AnswersAreOwn
  BY DEF ClientInv, Asked, OwnOf, AnswersAreOwn
<1>. QED
  BY <1>1, ClientInvariance, PTL

(* Any two answers of a query combine to what all the lists agree on that  *)
(* go as far (db.rs:162-195).                                              *)
THEOREM AnswersAgree == ClientSpec => []AnswersCombine
<1>1. Txs \subseteq Indices(MaxHeight) /\ MaxHeight \in Nat
  BY ClientAssumption DEF Indices
<1>2. ASSUME ClientInv, NEW i \in DOMAIN lists, NEW j \in DOMAIN lists
      PROVE  Combine(lists[i], lists[j]) = Agreement(lists[i], lists[j])
  <2>1. lists[i] \in SUBSET Txs /\ lists[j] \in SUBSET Txs
    BY <1>2 DEF ClientInv, Found
  <2>. QED
    BY <1>1, <2>1, CombineAgrees
<1>3. ClientInv => AnswersCombine
  BY <1>2 DEF AnswersCombine
<1>. QED
  BY <1>3, ClientInvariance, PTL
=============================================================================
