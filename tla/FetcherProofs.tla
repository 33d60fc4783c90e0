--------------------------- MODULE FetcherProofs ---------------------------
(***************************************************************************)
(* The safety properties of the fetcher, for every chain, batch size,      *)
(* buffer size and number of restarts and faults.                          *)
(***************************************************************************)
EXTENDS Fetcher, HeightsProofs

-----------------------------------------------------------------------------
(* The intervals of a sync.                                                *)

(* Two multiples of the batch size are a batch apart.                      *)
LEMMA MultiplesAreApart ==
  ASSUME NEW B \in Nat, NEW i \in Nat, NEW j \in Nat, i < j
  PROVE  i * B + B <= j * B
<1>1. PICK d \in Nat : j = i + 1 + d
  <2>1. j - i - 1 \in Nat /\ j = i + 1 + (j - i - 1)
    OBVIOUS
  <2>. QED
    BY <2>1
<1>2. j * B = i * B + B + d * B
  BY <1>1
<1>3. d * B \in Nat /\ i * B \in Nat
  OBVIOUS
<1>. QED
  BY <1>2, <1>3

(* The batches of first..latest: they do not overlap and leave nothing     *)
(* out.                                                                    *)
LEMMA BatchesAreDisjoint ==
  ASSUME NEW first \in Nat, NEW latest \in Nat,
         NEW f \in BatchStarts(first, latest),
         NEW g \in BatchStarts(first, latest), f < g
  PROVE  BatchEnd(f, latest) < g
<1>1. PICK i \in 0..latest : f = first + i * BatchSize
  BY DEF BatchStarts
<1>2. PICK j \in 0..latest : g = first + j * BatchSize
  BY DEF BatchStarts
<1>3. BatchSize \in Nat /\ i \in Nat /\ j \in Nat
  BY FetcherAssumption
<1>4. i < j
  <2>1. CASE j <= i
    <3>1. j = i \/ j < i
      BY <1>3, <2>1
    <3>2. j < i => j * BatchSize + BatchSize <= i * BatchSize
      BY <1>3, MultiplesAreApart
    <3>3. j * BatchSize \in Nat /\ i * BatchSize \in Nat
      BY <1>3
    <3>. QED
      BY <1>1, <1>2, <1>3, <3>1, <3>2, <3>3
  <2>. QED
    BY <1>3, <2>1
<1>5. i * BatchSize + BatchSize <= j * BatchSize
  BY <1>3, <1>4, MultiplesAreApart
<1>6. i * BatchSize \in Nat /\ j * BatchSize \in Nat
  BY <1>3
<1>. QED
  BY <1>1, <1>2, <1>3, <1>5, <1>6 DEF BatchEnd

(* Every height of first..latest is in a batch.                            *)
LEMMA BatchesCover ==
  ASSUME NEW first \in Nat, NEW latest \in Nat, NEW h \in first..latest
  PROVE  \E f \in BatchStarts(first, latest) :
           h \in f..BatchEnd(f, latest)
<1>. DEFINE Past == {i \in Nat : h < first + i * BatchSize + BatchSize}
<1>1. BatchSize \in Nat /\ BatchSize >= 1
  BY FetcherAssumption
<1>2. h \in Past
  <2>1. h * BatchSize >= h
    <3>1. 0 * BatchSize = 0
      BY <1>1
    <3>2. PICK c \in Nat : BatchSize = 1 + c
      <4>1. BatchSize - 1 \in Nat /\ BatchSize = 1 + (BatchSize - 1)
        BY <1>1
      <4>. QED
        BY <4>1
    <3>3. h * BatchSize = h + h * c /\ h * c \in Nat
      BY <3>2
    <3>. QED
      BY <3>3
  <2>2. h * BatchSize \in Nat
    BY <1>1
  <2>. QED
    BY <1>1, <2>1, <2>2
<1>3. Lowest(Past) \in Past /\ \A i \in Past : Lowest(Past) <= i
  BY <1>2, LowestIsLeast
<1>. DEFINE k == Lowest(Past)
            f == first + k * BatchSize
<1>. HIDE DEF k
<1>4. k \in Nat /\ k <= h /\ h < first + k * BatchSize + BatchSize
  BY <1>2, <1>3 DEF k
<1>5. f <= h
  <2>1. CASE k = 0
    BY <1>1, <2>1
  <2>2. CASE k # 0
    <3>1. k - 1 \in Nat /\ k - 1 \notin Past
      BY <1>3, <1>4, <2>2 DEF k
    <3>2. ~(h < first + (k - 1) * BatchSize + BatchSize)
      BY <3>1
    <3>3. (k - 1) * BatchSize + BatchSize = k * BatchSize
      BY <1>1, <1>4
    <3>4. k * BatchSize \in Nat /\ (k - 1) * BatchSize \in Nat
      BY <1>1, <1>4, <3>1
    <3>. QED
      BY <3>2, <3>3, <3>4, <1>1
  <2>. QED
    BY <2>1, <2>2
<1>6. k * BatchSize \in Nat
  BY <1>1, <1>4
<1>7. f \in BatchStarts(first, latest)
  BY <1>4, <1>5, <1>6 DEF BatchStarts
<1>8. h \in f..BatchEnd(f, latest)
  BY <1>1, <1>4, <1>5, <1>6 DEF BatchEnd
<1>. QED
  BY <1>7, <1>8

(* What a sync asks for: intervals of 1..latest that meet neither what is  *)
(* fetched nor each other, and that leave no hole above the lowest fetched *)
(* block.                                                                  *)
LEMMA MissingProperty ==
  ASSUME NEW latest \in Nat, NEW S \in SUBSET (1..latest)
  PROVE  /\ Missing(S, latest) \in SUBSET ((1..latest) \X (1..latest))
         /\ \A r \in Missing(S, latest) :
              /\ First(S) <= r[1] /\ r[1] <= r[2]
              /\ (r[1]..r[2]) \cap S = {}
              /\ \A s \in Missing(S, latest) :
                   r # s => (r[1]..r[2]) \cap (s[1]..s[2]) = {}
         /\ \A h \in First(S)..latest :
              h \in S \cup Spanned(Missing(S, latest))
<1>1. First(S) \in 1..(latest + 1)
  BY FirstProperty
<1>2. \A f \in BatchStarts(First(S), latest) :
        /\ f \in 1..latest /\ First(S) <= f
        /\ BatchEnd(f, latest) \in f..latest
  BY <1>1, FetcherAssumption DEF BatchStarts, BatchEnd
<1>3. \A r \in Missing(S, latest) :
        \E f \in BatchStarts(First(S), latest) :
          r \in Gaps(S, f, BatchEnd(f, latest))
  BY DEF Missing
<1>4. ASSUME NEW r \in Missing(S, latest),
             NEW f \in BatchStarts(First(S), latest),
             r \in Gaps(S, f, BatchEnd(f, latest))
      PROVE  /\ r \in (1..latest) \X (1..latest)
             /\ r[1] \in f..BatchEnd(f, latest)
             /\ r[2] \in f..BatchEnd(f, latest)
             /\ First(S) <= r[1] /\ r[1] <= r[2]
             /\ (r[1]..r[2]) \cap S = {}
  <2>1. /\ f \in 1..latest /\ First(S) <= f
        /\ BatchEnd(f, latest) \in f..latest
    BY <1>2
  <2>2. r \in (f..BatchEnd(f, latest)) \X (f..BatchEnd(f, latest))
    BY <1>4 DEF Gaps
  <2>3. /\ r[1] \in f..BatchEnd(f, latest)
        /\ r[2] \in f..BatchEnd(f, latest)
        /\ r = <<r[1], r[2]>>
    BY <2>2
  <2>4. /\ r[1] \in 1..latest /\ r[2] \in 1..latest
        /\ First(S) <= r[1]
    BY <1>1, <2>1, <2>3
  <2>5. r[1] <= r[2] /\ (r[1]..r[2]) \cap S = {}
    BY <1>4 DEF Gaps
  <2>. QED
    BY <2>3, <2>4, <2>5
<1>5. ASSUME NEW r \in Missing(S, latest), NEW s \in Missing(S, latest), r # s
      PROVE  (r[1]..r[2]) \cap (s[1]..s[2]) = {}
  <2>1. PICK f \in BatchStarts(First(S), latest) :
          r \in Gaps(S, f, BatchEnd(f, latest))
    BY <1>3
  <2>2. PICK g \in BatchStarts(First(S), latest) :
          s \in Gaps(S, g, BatchEnd(g, latest))
    BY <1>3
  <2>3. /\ f \in Nat /\ BatchEnd(f, latest) \in Nat
        /\ g \in Nat /\ BatchEnd(g, latest) \in Nat
    BY <1>2
  <2>4. CASE f = g
    BY <1>5, <2>1, <2>2, <2>3, <2>4, GapsAreDisjoint
  <2>5. CASE f < g
    <3>1. BatchEnd(f, latest) < g
      BY <1>1, <2>5, BatchesAreDisjoint
    <3>. QED
      BY <1>4, <2>1, <2>2, <2>3, <3>1
  <2>6. CASE g < f
    <3>1. BatchEnd(g, latest) < f
      BY <1>1, <2>6, BatchesAreDisjoint
    <3>. QED
      BY <1>4, <2>1, <2>2, <2>3, <3>1
  <2>. QED
    BY <2>3, <2>4, <2>5, <2>6
<1>6. ASSUME NEW h \in First(S)..latest, h \notin S
      PROVE  h \in Spanned(Missing(S, latest))
  <2>1. PICK f \in BatchStarts(First(S), latest) : h \in f..BatchEnd(f, latest)
    BY <1>1, BatchesCover
  <2>2. PICK r \in Gaps(S, f, BatchEnd(f, latest)) : h \in r[1]..r[2]
    BY <1>2, <1>6, <2>1, GapsCover
  <2>3. r \in Missing(S, latest)
    BY <2>2 DEF Missing
  <2>. QED
    BY <2>2, <2>3 DEF Spanned
<1>. QED
  BY <1>3, <1>4, <1>5, <1>6

(* Fetching what is missing leaves no hole (the set a sync ends with).     *)
LEMMA MissingFillsHoles ==
  ASSUME NEW latest \in Nat, NEW S \in SUBSET (1..latest)
  PROVE  LET P == S \cup Spanned(Missing(S, latest))
         IN  /\ Convex(P)
             /\ First(S) <= latest /\ (S = {} \/ 1 \in S) => 1 \in P
<1>. DEFINE P == S \cup Spanned(Missing(S, latest))
<1>1. /\ First(S) \in 1..(latest + 1)
      /\ S # {} => Lowest(S)..(First(S) - 1) \subseteq S
  BY FirstProperty
<1>2. \A h \in First(S)..latest : h \in P
  BY MissingProperty
<1>3. \A h \in P : h \in 1..latest /\ (h \in S \/ First(S) <= h)
  <2>1. SUFFICES ASSUME NEW h \in Spanned(Missing(S, latest))
                 PROVE  h \in 1..latest /\ First(S) <= h
    OBVIOUS
  <2>2. PICK r \in Missing(S, latest) : h \in r[1]..r[2]
    BY DEF Spanned
  <2>3. /\ r \in (1..latest) \X (1..latest)
        /\ First(S) <= r[1]
    BY MissingProperty
  <2>4. r[1] \in 1..latest /\ r[2] \in 1..latest
    BY <2>3
  <2>. QED
    BY <1>1, <2>2, <2>3, <2>4
<1>4. S # {} => /\ Lowest(S) \in Nat
                /\ \A n \in S : Lowest(S) <= n
  <2>1. S \in SUBSET Nat
    OBVIOUS
  <2>. QED
    BY <2>1, LowestIsLeast
<1>5. ASSUME NEW a \in P, NEW b \in P, NEW k \in a..b
      PROVE  k \in P
  <2>1. a \in 1..latest /\ b \in 1..latest /\ k \in 1..latest
    BY <1>3
  <2>2. CASE First(S) <= k
    BY <1>1, <1>2, <2>1, <2>2
  <2>3. CASE k < First(S)
    <3>1. a \in S
      BY <1>1, <1>3, <2>1, <2>3
    <3>2. k \in Lowest(S)..(First(S) - 1)
      BY <1>1, <1>4, <2>1, <2>3, <3>1
    <3>. QED
      BY <1>1, <3>1, <3>2
  <2>. QED
    BY <1>1, <2>1, <2>2, <2>3
<1>6. ASSUME First(S) <= latest, S = {} \/ 1 \in S
      PROVE  1 \in P
  <2>1. CASE S = {}
    <3>1. First(S) = 1
      BY <2>1 DEF First
    <3>. QED
      BY <1>2, <1>6, <3>1
  <2>. QED
    BY <1>6, <2>1
<1>. QED
  BY <1>5, <1>6 DEF Convex

-----------------------------------------------------------------------------
(* The inductive invariant.                                                *)

FetchesOrdered == \A r \in fetches : r[1] <= r[2]

EmptyWhere ==
  /\ pc \notin {"loop", "receive", "extend", "flush"} => fetches = {}
  /\ pc \notin {"extend", "flush"} => hand = {}
  /\ pc \in {"flush", "stopped"} => wal = {}
  /\ pc \in {"unwind", "stopped"} => fetched = {}

FlagFollowsSignal == interruptFlag => shutdownSignal

FileIsSaved ==
  /\ faults = 0 => fetcherDat # Torn /\ pc # "unwind"
  /\ pc = "drop" => fetcherDat = fetched

(* The transactions of the blocks in memory, and of those in the file.     *)
FetchedAccounted ==
  \A n \in Notes :
    n[1] \in fetched => txs[n] > 0 \/ n \in wal \/ n \in hand \/ n \in lost

SavedAccounted ==
  fetcherDat # Torn =>
    \A n \in Notes :
      n[1] \in fetcherDat =>
        txs[n] > 0 \/ n \in lost \/ (pc = "drop" /\ n \in wal)

(* How often a transaction is stored, by the faults so far: once less if   *)
(* its block is not recorded.                                              *)
RowsBounded ==
  \A n \in Notes :
    /\ txs[n] + InFlight(n) <= 1 + faults
    /\ Recorded # Torn /\ n[1] \notin Recorded => txs[n] + InFlight(n) <= faults

(* During a sync, what is fetched, in flight or abandoned has no hole.     *)
Pending == fetched \cup Spanned(fetches) \cup abandoned

PendingConvex ==
  pc \in {"loop", "receive", "extend", "flush"} /\ ~interruptFlag =>
    Convex(Pending) /\ (FirstLife => 1 \in Pending)

StartsAtFirstBlock ==
  pc = "top" /\ FirstLife => fetched = {} \/ 1 \in fetched

(* Between two syncs, what the last one abandoned is its only hole.        *)
AbandonedByFaults ==
  /\ faults = 0 \/ pc = "stopped" => abandoned = {}
  /\ pc = "top" /\ abandoned # {} => Convex(fetched \cup abandoned)

IInv ==
  /\ TypeOK
  /\ FetchesOrdered /\ FetchesDisjoint
  /\ EmptyWhere /\ FlagFollowsSignal /\ FileIsSaved
  /\ ExactlyOnce /\ RowsBounded
  /\ FetchedAccounted /\ SavedAccounted
  /\ PendingConvex /\ StartsAtFirstBlock /\ AbandonedByFaults /\ NoHoleAfterSync

-----------------------------------------------------------------------------
(* One lemma per part of the invariant, one step per action.               *)

(* Every step keeps the variables in their types.                          *)
LEMMA TypeOKStep ==
  ASSUME TypeOK, [Next]_vars
  PROVE  TypeOK'
<1>. USE FetcherAssumption DEF TypeOK, Blocks
<1>1. CASE ExtendChain
  BY <1>1 DEF ExtendChain, memory, disk, bounds
<1>2. CASE Signal
  BY <1>2 DEF Signal, memory, disk, bounds
<1>3. CASE StopRequested
  BY <1>3 DEF StopRequested, disk, bounds, CheckExit, StopNow
<1>4. CASE IndexerDown
  BY <1>4 DEF IndexerDown, memory, disk, bounds, StopNow
<1>5. CASE AlreadySynced
  BY <1>5 DEF AlreadySynced, memory, disk, bounds, StopNow, Synced
<1>6. CASE SpawnFetches
  <2>1. Missing(fetched, tip) \in SUBSET ((1..tip) \X (1..tip))
    BY MissingProperty
  <2>. QED
    BY <1>6, <2>1 DEF SpawnFetches, disk, bounds
<1>7. CASE \E r \in fetches : TaskSeesShutdown(r)
  BY <1>7 DEF TaskSeesShutdown, disk, bounds
<1>8. CASE Wait
  BY <1>8 DEF Wait, disk, bounds, CheckExit
<1>9. CASE \E r \in fetches : ReceiveFetched(r)
  <2>1. PICK r \in fetches : ReceiveFetched(r)
    BY <1>9
  <2>2. r[1] \in 1..tip /\ r[2] \in 1..tip
    OBVIOUS
  <2>3. (r[1]..r[2]) \in SUBSET (1..tip)
    BY <2>2
  <2>4. fetched' \in SUBSET (1..tip)
    BY <2>1, <2>3 DEF ReceiveFetched
  <2>5. First(fetched') \in 1..(tip + 1)
    BY <2>4, FirstProperty
  <2>6. NotesIn(r[1], r[2]) \in SUBSET Notes
    BY DEF NotesIn
  <2>. QED
    BY <2>1, <2>4, <2>5, <2>6 DEF ReceiveFetched, CheckExit, disk, bounds
<1>10. CASE \E r \in fetches : ReceiveError(r)
  BY <1>10 DEF ReceiveError, disk, bounds, CheckExit
<1>11. CASE EndReceive
  BY <1>11 DEF EndReceive, disk, bounds, CheckExit
<1>12. CASE Wake
  BY <1>12 DEF Wake, memory, disk, bounds
<1>13. CASE ExtendWal
  BY <1>13 DEF ExtendWal, disk, bounds
<1>14. CASE \E n \in Notes : FlushRow(n)
  BY <1>14 DEF FlushRow, bounds, AddRow
<1>15. CASE EndFlush
  BY <1>15 DEF EndFlush, memory, disk, bounds
<1>16. CASE Save
  BY <1>16 DEF Save, memory, bounds
<1>17. CASE \E n \in Notes : DropRow(n)
  BY <1>17 DEF DropRow, Dropping, bounds, AddRow
<1>18. CASE Stop
  BY <1>18 DEF Stop, Dropping, disk, bounds, Halt
<1>19. CASE Restart
  BY <1>19 DEF Restart, Start, disk
<1>20. CASE Kill
  <2>1. faults' \in 0..MaxFaults
    BY <1>20 DEF Kill, Fault
  <2>2. /\ tip' = tip /\ txs' = txs /\ restarts' = restarts
        /\ syncedTo' = syncedTo
        /\ lost' \in SUBSET Notes
        /\ fetcherDat' = Torn \/ fetcherDat' \in SUBSET (1..tip)
    BY <1>20 DEF Kill, disk
  <2>3. Halt
    BY <1>20 DEF Kill
  <2>. QED
    BY <2>1, <2>2, <2>3 DEF Halt
<1>21. CASE FlushFails
  <2>1. faults' \in 0..MaxFaults
    BY <1>21 DEF FlushFails, Fault
  <2>2. /\ tip' = tip /\ txs' = txs /\ restarts' = restarts
        /\ syncedTo' = syncedTo
        /\ lost' \in SUBSET Notes
        /\ fetcherDat' = Torn \/ fetcherDat' \in SUBSET (1..tip)
    BY <1>21 DEF FlushFails, disk
  <2>3. Halt
    BY <1>21 DEF FlushFails
  <2>. QED
    BY <2>1, <2>2, <2>3 DEF Halt
<1>22. CASE DropFails
  <2>1. faults' \in 0..MaxFaults
    BY <1>22 DEF DropFails, Fault
  <2>2. /\ tip' = tip /\ txs' = txs /\ restarts' = restarts
        /\ syncedTo' = syncedTo
        /\ lost' \in SUBSET Notes
        /\ fetcherDat' = Torn \/ fetcherDat' \in SUBSET (1..tip)
    BY <1>22 DEF DropFails, disk
  <2>3. Halt
    BY <1>22 DEF DropFails
  <2>. QED
    BY <2>1, <2>2, <2>3 DEF Halt
<1>23. CASE UNCHANGED vars
  BY <1>23 DEF vars, memory, disk, bounds
<1>24. CASE Cancel
  <2>1. faults' \in 0..MaxFaults
    BY <1>24 DEF Cancel, Fault
  <2>2. fetcherDat' = fetcherDat
    BY <1>24 DEF Cancel
  <2>3. Unwind
    BY <1>24 DEF Cancel
  <2>. QED
    BY <2>1, <2>2, <2>3 DEF Unwind
<1>25. CASE SaveFails
  <2>1. faults' \in 0..MaxFaults
    BY <1>25 DEF SaveFails, Fault
  <2>2. fetcherDat' \in {fetcherDat, Torn}
    BY <1>25 DEF SaveFails
  <2>3. Unwind
    BY <1>25 DEF SaveFails
  <2>. QED
    BY <2>1, <2>2, <2>3 DEF Unwind
<1>26. CASE RestartUnread
  <2>1. faults' \in 0..MaxFaults /\ Start({})
    BY <1>26 DEF RestartUnread, Fault
  <2>. QED
    BY <2>1 DEF Start, disk
<1>27. CASE \E r \in fetches : TaskPanics(r)
  <2>1. PICK r \in fetches : TaskPanics(r)
    BY <1>27
  <2>2. faults' \in 0..MaxFaults
    BY <2>1 DEF TaskPanics, Fault
  <2>3. (r[1]..r[2]) \in SUBSET Blocks
    OBVIOUS
  <2>. QED
    BY <2>1, <2>2, <2>3 DEF TaskPanics, disk
<1>. QED
  BY <1>1, <1>2, <1>3, <1>4, <1>5, <1>6, <1>7, <1>8, <1>9, <1>10, <1>11,
       <1>12, <1>13, <1>14, <1>15, <1>16, <1>17, <1>18, <1>19, <1>20, <1>21,
       <1>22, <1>23, <1>24, <1>25, <1>26, <1>27
     DEF Next, Environment, Tasks, Steps, Faults

(* Every step keeps the intervals in flight disjoint.                      *)
LEMMA FetchesStep ==
  ASSUME TypeOK, EmptyWhere, FetchesOrdered, FetchesDisjoint, [Next]_vars
  PROVE  FetchesOrdered' /\ FetchesDisjoint'
<1>. USE DEF FetchesOrdered, FetchesDisjoint
<1>1. CASE ExtendChain
  BY <1>1 DEF ExtendChain, memory, disk, bounds
<1>2. CASE Signal
  BY <1>2 DEF Signal, memory, disk, bounds
<1>3. CASE StopRequested
  BY <1>3 DEF StopRequested, disk, bounds
<1>4. CASE IndexerDown
  BY <1>4 DEF IndexerDown, memory, disk, bounds
<1>5. CASE AlreadySynced
  BY <1>5 DEF AlreadySynced, memory, disk, bounds
<1>6. CASE SpawnFetches
  <2>1. fetched \in SUBSET (1..tip) /\ tip \in Nat
    BY DEF TypeOK, Blocks
  <2>2. fetches' = Missing(fetched, tip) /\ fetched' = fetched
    BY <1>6 DEF SpawnFetches
  <2>. QED
    BY <2>1, <2>2, MissingProperty
<1>7. CASE \E r \in fetches : TaskSeesShutdown(r)
  BY <1>7 DEF TaskSeesShutdown, disk, bounds
<1>8. CASE Wait
  BY <1>8 DEF Wait, CheckExit
<1>9. CASE \E r \in fetches : ReceiveFetched(r)
  <2>1. PICK r \in fetches : ReceiveFetched(r)
    BY <1>9
  <2>2. /\ fetches' = fetches \ {r}
        /\ fetched' = fetched \cup (r[1]..r[2])
    BY <2>1 DEF ReceiveFetched
  <2>. QED
    BY <2>2
<1>10. CASE \E r \in fetches : ReceiveError(r)
  BY <1>10 DEF ReceiveError, disk, bounds
<1>11. CASE EndReceive
  BY <1>11 DEF EndReceive, disk, bounds
<1>12. CASE Wake
  BY <1>12 DEF Wake, memory, disk, bounds
<1>13. CASE ExtendWal
  BY <1>13 DEF ExtendWal, disk, bounds
<1>14. CASE \E n \in Notes : FlushRow(n)
  BY <1>14 DEF FlushRow, bounds
<1>15. CASE EndFlush
  BY <1>15 DEF EndFlush, memory, disk, bounds
<1>16. CASE Save
  BY <1>16 DEF Save, memory, bounds
<1>17. CASE \E n \in Notes : DropRow(n)
  BY <1>17 DEF DropRow, Dropping, bounds
<1>18. CASE Stop
  BY <1>18 DEF Stop, Dropping, disk, bounds, Halt
<1>19. CASE Restart
  BY <1>19 DEF Restart, Start, EmptyWhere
<1>20. CASE Kill
  BY <1>20 DEF Kill, Halt
<1>21. CASE FlushFails
  BY <1>21 DEF FlushFails, disk, Halt
<1>22. CASE DropFails
  BY <1>22 DEF DropFails, disk, Halt
<1>23. CASE UNCHANGED vars
  BY <1>23 DEF vars, memory, disk, bounds
<1>24. CASE Cancel
  BY <1>24 DEF Cancel, Unwind
<1>25. CASE SaveFails
  BY <1>25 DEF SaveFails, Unwind
<1>26. CASE RestartUnread
  BY <1>26 DEF RestartUnread, Start, EmptyWhere
<1>27. CASE \E r \in fetches : TaskPanics(r)
  BY <1>27 DEF TaskPanics
<1>. QED
  BY <1>1, <1>2, <1>3, <1>4, <1>5, <1>6, <1>7, <1>8, <1>9, <1>10, <1>11,
       <1>12, <1>13, <1>14, <1>15, <1>16, <1>17, <1>18, <1>19, <1>20, <1>21,
       <1>22, <1>23, <1>24, <1>25, <1>26, <1>27
     DEF Next, Environment, Tasks, Steps, Faults

(* Every step keeps what follows from the place the fetcher is at.         *)
LEMMA ControlStep ==
  ASSUME TypeOK, EmptyWhere, FlagFollowsSignal, FileIsSaved, [Next]_vars
  PROVE  EmptyWhere' /\ FlagFollowsSignal' /\ FileIsSaved'
<1>. USE DEF EmptyWhere, FlagFollowsSignal, FileIsSaved
<1>1. CASE ExtendChain
  BY <1>1 DEF ExtendChain, memory, disk, bounds
<1>2. CASE Signal
  BY <1>2 DEF Signal, memory, disk, bounds
<1>3. CASE StopRequested
  BY <1>3 DEF StopRequested, disk, bounds, CheckExit
<1>4. CASE IndexerDown
  BY <1>4 DEF IndexerDown, memory, disk, bounds
<1>5. CASE AlreadySynced
  BY <1>5 DEF AlreadySynced, memory, disk, bounds
<1>6. CASE SpawnFetches
  BY <1>6 DEF SpawnFetches, disk, bounds
<1>7. CASE \E r \in fetches : TaskSeesShutdown(r)
  BY <1>7 DEF TaskSeesShutdown, disk, bounds, TypeOK
<1>8. CASE Wait
  BY <1>8 DEF Wait, disk, bounds, CheckExit
<1>9. CASE \E r \in fetches : ReceiveFetched(r)
  <2>1. PICK r \in fetches : ReceiveFetched(r)
    BY <1>9
  <2>2. /\ pc = "receive" /\ pc' = "extend"
        /\ shutdownSignal' = shutdownSignal /\ wal' = wal
        /\ faults' = faults /\ fetcherDat' = fetcherDat
        /\ interruptFlag' = (interruptFlag \/ shutdownSignal)
    BY <2>1 DEF ReceiveFetched, CheckExit, disk, bounds
  <2>. QED
    BY <2>2
<1>10. CASE \E r \in fetches : ReceiveError(r)
  <2>1. PICK r \in fetches : ReceiveError(r)
    BY <1>10
  <2>2. /\ pc = "receive" /\ pc' = "loop" /\ hand' = hand
        /\ shutdownSignal' = shutdownSignal /\ wal' = wal
        /\ faults' = faults /\ fetcherDat' = fetcherDat
        /\ interruptFlag' = (interruptFlag \/ shutdownSignal)
    BY <2>1 DEF ReceiveError, CheckExit, disk, bounds
  <2>. QED
    BY <2>2
<1>11. CASE EndReceive
  BY <1>11 DEF EndReceive, disk, bounds, CheckExit
<1>12. CASE Wake
  BY <1>12 DEF Wake, memory, disk, bounds
<1>13. CASE ExtendWal
  BY <1>13 DEF ExtendWal, disk, bounds
<1>14. CASE \E n \in Notes : FlushRow(n)
  BY <1>14 DEF FlushRow, bounds
<1>15. CASE EndFlush
  BY <1>15 DEF EndFlush, memory, disk, bounds
<1>16. CASE Save
  <2>1. fetched # Torn
    <3>1. fetched \in SUBSET (1..MaxHeight)
      <4>1. tip \in 1..MaxHeight /\ fetched \in SUBSET (1..tip)
        BY DEF TypeOK, Blocks
      <4>2. MaxHeight \in Nat
        BY FetcherAssumption
      <4>. QED
        BY <4>1, <4>2
    <3>. QED
      BY <3>1, FetcherAssumption
  <2>. QED
    BY <1>16, <2>1 DEF Save, memory, bounds
<1>17. CASE \E n \in Notes : DropRow(n)
  BY <1>17 DEF DropRow, Dropping, bounds
<1>18. CASE Stop
  BY <1>18 DEF Stop, Dropping, disk, bounds, Halt
<1>19. CASE Restart
  BY <1>19 DEF Restart, Start, disk
<1>20. CASE Kill
  <2>1. faults' # 0
    BY <1>20 DEF Kill, Fault, TypeOK
  <2>2. Halt
    BY <1>20 DEF Kill
  <2>. QED
    BY <2>1, <2>2 DEF Halt
<1>21. CASE FlushFails
  <2>1. faults' # 0
    BY <1>21 DEF FlushFails, Fault, TypeOK
  <2>2. Halt
    BY <1>21 DEF FlushFails
  <2>. QED
    BY <2>1, <2>2 DEF Halt
<1>22. CASE DropFails
  <2>1. faults' # 0
    BY <1>22 DEF DropFails, Fault, TypeOK
  <2>2. Halt
    BY <1>22 DEF DropFails
  <2>. QED
    BY <2>1, <2>2 DEF Halt
<1>23. CASE UNCHANGED vars
  BY <1>23 DEF vars, memory, disk, bounds
<1>24. CASE Cancel
  <2>1. faults' # 0
    BY <1>24 DEF Cancel, Fault, TypeOK
  <2>2. Unwind /\ pc \in {"top", "receive", "sleep"}
    BY <1>24 DEF Cancel
  <2>. QED
    BY <2>1, <2>2 DEF Unwind
<1>25. CASE SaveFails
  <2>1. faults' # 0
    BY <1>25 DEF SaveFails, Fault, TypeOK
  <2>2. Unwind /\ pc = "save"
    BY <1>25 DEF SaveFails
  <2>. QED
    BY <2>1, <2>2 DEF Unwind
<1>26. CASE RestartUnread
  <2>1. faults' # 0
    BY <1>26 DEF RestartUnread, Fault, TypeOK
  <2>. QED
    BY <1>26, <2>1 DEF RestartUnread, Start, disk
<1>27. CASE \E r \in fetches : TaskPanics(r)
  <2>1. faults' # 0
    BY <1>27 DEF TaskPanics, Fault, TypeOK
  <2>. QED
    BY <1>27, <2>1 DEF TaskPanics, disk
<1>. QED
  BY <1>1, <1>2, <1>3, <1>4, <1>5, <1>6, <1>7, <1>8, <1>9, <1>10, <1>11,
       <1>12, <1>13, <1>14, <1>15, <1>16, <1>17, <1>18, <1>19, <1>20, <1>21,
       <1>22, <1>23, <1>24, <1>25, <1>26, <1>27
     DEF Next, Environment, Tasks, Steps, Faults

(* Every step without a fault moves a transaction, and never copies it.    *)
LEMMA ExactlyOnceStep ==
  ASSUME TypeOK, FetchesDisjoint, EmptyWhere, FileIsSaved, ExactlyOnce,
         [Next]_vars
  PROVE  ExactlyOnce'
<1>. USE DEF ExactlyOnce, Recorded, InFlight
<1>1. CASE ExtendChain
  BY <1>1 DEF ExtendChain, memory, disk, bounds
<1>2. CASE Signal
  BY <1>2 DEF Signal, memory, disk, bounds
<1>3. CASE StopRequested
  BY <1>3 DEF StopRequested, disk, bounds
<1>4. CASE IndexerDown
  BY <1>4 DEF IndexerDown, memory, disk, bounds
<1>5. CASE AlreadySynced
  BY <1>5 DEF AlreadySynced, memory, disk, bounds
<1>6. CASE SpawnFetches
  BY <1>6 DEF SpawnFetches, disk, bounds
<1>7. CASE \E r \in fetches : TaskSeesShutdown(r)
  BY <1>7 DEF TaskSeesShutdown, disk, bounds
<1>8. CASE Wait
  BY <1>8 DEF Wait, disk, bounds
<1>9. CASE \E r \in fetches : ReceiveFetched(r)
  <2>1. PICK r \in fetches : ReceiveFetched(r)
    BY <1>9
  <2>2. /\ pc = "receive" /\ pc' = "extend" /\ hand = {}
        /\ fetched' = fetched \cup (r[1]..r[2])
        /\ hand' = NotesIn(r[1], r[2]) /\ wal' = wal
        /\ txs' = txs /\ faults' = faults
    BY <2>1 DEF ReceiveFetched, disk, bounds, EmptyWhere
  <2>3. (r[1]..r[2]) \cap fetched = {}
    BY <2>1 DEF FetchesDisjoint
  <2>4. SUFFICES ASSUME faults = 0, NEW n \in Notes
                 PROVE  txs[n] + InFlight(n)' =
                          IF n[1] \in fetched' THEN 1 ELSE 0
    BY <2>2
  <2>5. /\ txs[n] \in Nat
        /\ txs[n] + InFlight(n) = IF n[1] \in fetched THEN 1 ELSE 0
    BY <2>2, <2>4 DEF TypeOK
  <2>6. CASE n[1] \in r[1]..r[2]
    <3>1. n \in hand' /\ n[1] \notin fetched /\ n[1] \in fetched'
      BY <2>2, <2>3, <2>6 DEF NotesIn
    <3>. QED
      BY <2>2, <2>5, <3>1
  <2>7. CASE n[1] \notin r[1]..r[2]
    <3>1. n \notin hand' /\ (n[1] \in fetched' <=> n[1] \in fetched)
      BY <2>2, <2>7 DEF NotesIn
    <3>. QED
      BY <2>2, <2>5, <3>1
  <2>. QED
    BY <2>6, <2>7
<1>10. CASE \E r \in fetches : ReceiveError(r)
  BY <1>10 DEF ReceiveError, disk, bounds
<1>11. CASE EndReceive
  BY <1>11 DEF EndReceive, disk, bounds
<1>12. CASE Wake
  BY <1>12 DEF Wake, memory, disk, bounds
<1>13. CASE ExtendWal
  <2>1. SUFFICES ASSUME faults = 0, NEW n \in Notes
                 PROVE  txs[n] + InFlight(n)' =
                          IF n[1] \in fetched THEN 1 ELSE 0
    BY <1>13 DEF ExtendWal, disk, bounds
  <2>2. /\ txs[n] \in Nat
        /\ txs[n] + InFlight(n) = IF n[1] \in fetched THEN 1 ELSE 0
    BY <1>13, <2>1 DEF TypeOK, ExtendWal
  <2>3. \/ wal' = {} /\ hand' = wal \cup hand
        \/ wal' = wal \cup hand /\ hand' = {}
    BY <1>13 DEF ExtendWal
  <2>. QED
    BY <2>2, <2>3
<1>14. CASE \E n \in Notes : FlushRow(n)
  <2>1. PICK m \in Notes : FlushRow(m)
    BY <1>14
  <2>2. SUFFICES ASSUME faults = 0, NEW n \in Notes
                 PROVE  txs'[n] + InFlight(n)' =
                          IF n[1] \in fetched THEN 1 ELSE 0
    BY <2>1 DEF FlushRow, bounds
  <2>3. /\ txs[n] \in Nat
        /\ txs[n] + InFlight(n) = IF n[1] \in fetched THEN 1 ELSE 0
    BY <2>1, <2>2 DEF TypeOK, FlushRow
  <2>4. txs'[n] = IF n = m THEN txs[n] + 1 ELSE txs[n]
    BY <2>1 DEF TypeOK, FlushRow, AddRow
  <2>5. /\ m \in hand /\ hand' = hand \ {m}
        /\ wal' = wal
    BY <2>1 DEF FlushRow, IsNextRow
  <2>. QED
    BY <2>3, <2>4, <2>5
<1>15. CASE EndFlush
  BY <1>15 DEF EndFlush, memory, disk, bounds
<1>16. CASE Save
  BY <1>16 DEF Save, memory, bounds
<1>17. CASE \E n \in Notes : DropRow(n)
  <2>1. PICK m \in Notes : DropRow(m)
    BY <1>17
  <2>2. CASE faults # 0
    BY <2>1, <2>2 DEF DropRow, bounds
  <2>3. CASE faults = 0
    <3>1. pc = "drop" /\ pc' = "drop" /\ fetched' = fetched
      BY <2>1, <2>3 DEF DropRow, Dropping, FileIsSaved
    <3>2. SUFFICES ASSUME NEW n \in Notes
                   PROVE  txs'[n] + InFlight(n)' =
                            IF n[1] \in fetched THEN 1 ELSE 0
      BY <3>1
    <3>3. txs[n] + InFlight(n) = IF n[1] \in fetched THEN 1 ELSE 0
      BY <2>3, <3>1
    <3>4. txs[n] \in Nat /\ txs'[n] = IF n = m THEN txs[n] + 1 ELSE txs[n]
      BY <2>1 DEF TypeOK, DropRow, AddRow
    <3>5. m \in wal /\ wal' = wal \ {m} /\ hand' = hand
      BY <2>1 DEF DropRow, IsNextRow
    <3>. QED
      BY <3>3, <3>4, <3>5
  <2>. QED
    BY <2>2, <2>3
<1>18. CASE Stop
  BY <1>18 DEF Stop, Dropping, Halt, disk, bounds, EmptyWhere, FileIsSaved
<1>19. CASE Restart
  BY <1>19 DEF Restart, Start, disk
<1>20. CASE Kill
  <2>1. faults' # 0
    BY <1>20 DEF Kill, Fault, TypeOK
  <2>. QED
    BY <2>1
<1>21. CASE FlushFails
  <2>1. faults' # 0
    BY <1>21 DEF FlushFails, Fault, TypeOK
  <2>. QED
    BY <2>1
<1>22. CASE DropFails
  <2>1. faults' # 0
    BY <1>22 DEF DropFails, Fault, TypeOK
  <2>. QED
    BY <2>1
<1>23. CASE UNCHANGED vars
  BY <1>23 DEF vars, memory, disk, bounds
<1>24. CASE Cancel
  <2>1. faults' # 0
    BY <1>24 DEF Cancel, Fault, TypeOK
  <2>. QED
    BY <2>1
<1>25. CASE SaveFails
  <2>1. faults' # 0
    BY <1>25 DEF SaveFails, Fault, TypeOK
  <2>. QED
    BY <2>1
<1>26. CASE RestartUnread
  <2>1. faults' # 0
    BY <1>26 DEF RestartUnread, Fault, TypeOK
  <2>. QED
    BY <2>1
<1>27. CASE \E r \in fetches : TaskPanics(r)
  <2>1. faults' # 0
    BY <1>27 DEF TaskPanics, Fault, TypeOK
  <2>. QED
    BY <2>1
<1>. QED
  BY <1>1, <1>2, <1>3, <1>4, <1>5, <1>6, <1>7, <1>8, <1>9, <1>10, <1>11,
       <1>12, <1>13, <1>14, <1>15, <1>16, <1>17, <1>18, <1>19, <1>20, <1>21,
       <1>22, <1>23, <1>24, <1>25, <1>26, <1>27
     DEF Next, Environment, Tasks, Steps, Faults

(* How often a transaction is in the table or on its way to it.            *)
Copies(n) == txs[n] + InFlight(n)

(* A fault lets a transaction be stored once more; any other step only     *)
(* does when it records the block.                                         *)
LEMMA RowsBoundedStep ==
  ASSUME TypeOK, FetchesDisjoint, EmptyWhere, FileIsSaved, RowsBounded,
         TypeOK', [Next]_vars
  PROVE  RowsBounded'
<1>1. \A n \in Notes : /\ txs[n] \in Nat /\ Copies(n) \in Nat
                       /\ Copies(n)' \in Nat /\ faults \in Nat
                       /\ Copies(n) <= 1 + faults
  BY FetcherAssumption DEF TypeOK, Copies, InFlight, RowsBounded
<1>2. CASE /\ \A n \in Notes : Copies(n)' <= Copies(n)
           /\ Recorded' = Recorded /\ faults' = faults
  BY <1>1, <1>2 DEF RowsBounded, Copies
<1>3. CASE /\ \A n \in Notes : Copies(n)' <= Copies(n)
           /\ faults' = faults + 1
  <2>1. \A n \in Notes : Copies(n)' <= faults' /\ faults' \in Nat
    BY <1>1, <1>3
  <2>. QED
    BY <1>1, <2>1 DEF RowsBounded, Copies
<1>4. CASE /\ UNCHANGED <<txs, wal, hand, fetched, fetcherDat, faults>>
           /\ pc \in {"unwind", "stopped"} <=> pc' \in {"unwind", "stopped"}
  <2>1. \A n \in Notes : Copies(n)' = Copies(n)
    BY <1>4 DEF Copies, InFlight
  <2>2. Recorded' = Recorded
    BY <1>4 DEF Recorded
  <2>. QED
    BY <1>1, <1>2, <1>4, <2>1, <2>2
<1>5. CASE ExtendChain \/ Signal \/ IndexerDown
  BY <1>4, <1>5 DEF ExtendChain, Signal, IndexerDown, memory, disk, bounds
<1>6. CASE StopRequested \/ AlreadySynced \/ SpawnFetches \/ Wait \/ EndReceive
           \/ Wake \/ EndFlush
  BY <1>4, <1>6 DEF StopRequested, AlreadySynced, SpawnFetches, Wait,
                    EndReceive, Wake, EndFlush, memory, disk, bounds
<1>7. CASE \E r \in fetches : TaskSeesShutdown(r) \/ ReceiveError(r)
  BY <1>4, <1>7 DEF TaskSeesShutdown, ReceiveError, disk, bounds
<1>8. CASE \E r \in fetches : ReceiveFetched(r)
  <2>1. PICK r \in fetches : ReceiveFetched(r)
    BY <1>8
  <2>2. /\ pc = "receive" /\ pc' = "extend" /\ hand = {}
        /\ fetched' = fetched \cup (r[1]..r[2])
        /\ hand' = NotesIn(r[1], r[2]) /\ wal' = wal
        /\ txs' = txs /\ faults' = faults
    BY <2>1 DEF ReceiveFetched, disk, bounds, EmptyWhere
  <2>3. fetched # Torn
    <3>1. tip \in 1..MaxHeight /\ fetched \in SUBSET (1..tip)
      BY DEF TypeOK, Blocks
    <3>2. fetched \in SUBSET (1..MaxHeight)
      BY <3>1, FetcherAssumption
    <3>. QED
      BY <3>2, FetcherAssumption
  <2>4. SUFFICES ASSUME NEW n \in Notes
                 PROVE  /\ Copies(n)' <= 1 + faults
                        /\ n[1] \notin fetched' => Copies(n)' <= faults
    BY <2>2 DEF RowsBounded, Recorded, Copies
  <2>5. n[1] \notin fetched => Copies(n) <= faults
    BY <2>2, <2>3 DEF RowsBounded, Recorded, Copies
  <2>6. CASE n[1] \in r[1]..r[2]
    <3>1. n[1] \notin fetched /\ n[1] \in fetched'
      BY <2>1, <2>2, <2>6 DEF FetchesDisjoint
    <3>2. Copies(n)' <= Copies(n) + 1
      BY <1>1, <2>2 DEF Copies, InFlight
    <3>. QED
      BY <1>1, <2>5, <3>1, <3>2
  <2>7. CASE n[1] \notin r[1]..r[2]
    <3>1. n \notin hand' /\ (n[1] \in fetched' <=> n[1] \in fetched)
      BY <2>2, <2>7 DEF NotesIn
    <3>2. Copies(n)' = Copies(n)
      BY <2>2, <3>1 DEF Copies, InFlight
    <3>. QED
      BY <1>1, <2>5, <3>1, <3>2
  <2>. QED
    BY <2>6, <2>7
<1>9. CASE ExtendWal
  <2>1. \A n \in Notes : Copies(n)' <= Copies(n)
    BY <1>1, <1>9 DEF ExtendWal, Copies, InFlight, disk
  <2>2. Recorded' = Recorded /\ faults' = faults
    BY <1>9 DEF ExtendWal, Recorded, disk, bounds
  <2>. QED
    BY <1>2, <2>1, <2>2
<1>10. ASSUME NEW m \in Notes, FlushRow(m) \/ DropRow(m)
       PROVE  RowsBounded'
  <2>1. \A n \in Notes : txs'[n] = IF n = m THEN txs[n] + 1 ELSE txs[n]
    BY <1>10 DEF TypeOK, FlushRow, DropRow, AddRow
  <2>2. \/ m \in hand /\ hand' = hand \ {m} /\ wal' = wal
        \/ m \in wal /\ wal' = wal \ {m} /\ hand' = hand
    BY <1>10 DEF FlushRow, DropRow, IsNextRow
  <2>3. \A n \in Notes : Copies(n)' <= Copies(n)
    BY <1>1, <2>1, <2>2 DEF Copies, InFlight
  <2>4. Recorded' = Recorded /\ faults' = faults
    BY <1>10 DEF FlushRow, DropRow, Recorded, bounds
  <2>. QED
    BY <1>2, <2>3, <2>4
<1>11. CASE Save
  <2>1. \A n \in Notes : Copies(n)' = Copies(n)
    BY <1>11 DEF Save, Copies, InFlight, memory
  <2>2. Recorded' = Recorded /\ faults' = faults
    BY <1>11 DEF Save, Recorded, memory, bounds
  <2>. QED
    BY <1>1, <1>2, <2>1, <2>2
<1>12. CASE Stop
  <2>1. pc \in {"drop", "unwind"} /\ wal = {} /\ hand = {}
    BY <1>12 DEF Stop, Dropping, EmptyWhere
  <2>2. \A n \in Notes : Copies(n)' = Copies(n)
    BY <1>12, <2>1 DEF Stop, Halt, Copies, InFlight, disk
  <2>3. Recorded' = Recorded /\ faults' = faults
    BY <1>12, <2>1 DEF Stop, Halt, Recorded, FileIsSaved, disk, bounds
  <2>. QED
    BY <1>1, <1>2, <2>2, <2>3
<1>13. CASE Restart
  <2>1. \A n \in Notes : Copies(n)' = Copies(n)
    BY <1>13 DEF Restart, Start, Copies, InFlight, disk
  <2>2. Recorded' = Recorded /\ faults' = faults
    BY <1>13 DEF Restart, Start, Recorded
  <2>. QED
    BY <1>1, <1>2, <2>1, <2>2
<1>14. CASE Kill \/ FlushFails \/ DropFails
  <2>1. Halt /\ txs' = txs /\ faults' = faults + 1
    BY <1>14 DEF Kill, FlushFails, DropFails, Fault, disk
  <2>2. \A n \in Notes : Copies(n)' <= Copies(n)
    BY <1>1, <2>1 DEF Halt, Copies, InFlight
  <2>. QED
    BY <1>3, <2>1, <2>2
<1>15. CASE Cancel \/ SaveFails
  <2>1. Unwind /\ faults' = faults + 1
    BY <1>15 DEF Cancel, SaveFails, Fault
  <2>2. \A n \in Notes : Copies(n)' = Copies(n)
    BY <2>1 DEF Unwind, Copies, InFlight
  <2>. QED
    BY <1>1, <1>3, <2>1, <2>2
<1>16. CASE RestartUnread
  <2>1. \A n \in Notes : Copies(n)' = Copies(n)
    BY <1>16 DEF RestartUnread, Start, Copies, InFlight, disk
  <2>2. faults' = faults + 1
    BY <1>16 DEF RestartUnread, Fault
  <2>. QED
    BY <1>1, <1>3, <2>1, <2>2
<1>17. CASE \E r \in fetches : TaskPanics(r)
  <2>1. \A n \in Notes : Copies(n)' = Copies(n)
    BY <1>17 DEF TaskPanics, Copies, InFlight, disk
  <2>2. faults' = faults + 1
    BY <1>17 DEF TaskPanics, Fault
  <2>. QED
    BY <1>1, <1>3, <2>1, <2>2
<1>18. CASE UNCHANGED vars
  BY <1>4, <1>18 DEF vars, memory, disk, bounds
<1>. QED
  BY <1>5, <1>6, <1>7, <1>8, <1>9, <1>10, <1>11, <1>12, <1>13, <1>14, <1>15,
     <1>16, <1>17, <1>18
     DEF Next, Environment, Tasks, Steps, Faults

(* Every step accounts for the transactions of the recorded blocks.        *)
LEMMA AccountedStep ==
  ASSUME TypeOK, EmptyWhere, FetchedAccounted, SavedAccounted, [Next]_vars
  PROVE  FetchedAccounted' /\ SavedAccounted'
<1>. USE DEF FetchedAccounted, SavedAccounted
<1>1. CASE ExtendChain
  BY <1>1 DEF ExtendChain, memory, disk, bounds
<1>2. CASE Signal
  BY <1>2 DEF Signal, memory, disk, bounds
<1>3. CASE StopRequested
  BY <1>3 DEF StopRequested, disk, bounds
<1>4. CASE IndexerDown
  BY <1>4 DEF IndexerDown, memory, disk, bounds
<1>5. CASE AlreadySynced
  BY <1>5 DEF AlreadySynced, memory, disk, bounds
<1>6. CASE SpawnFetches
  BY <1>6 DEF SpawnFetches, disk, bounds
<1>7. CASE \E r \in fetches : TaskSeesShutdown(r)
  BY <1>7 DEF TaskSeesShutdown, disk, bounds
<1>8. CASE Wait
  BY <1>8 DEF Wait, disk, bounds
<1>9. CASE \E r \in fetches : ReceiveFetched(r)
  <2>1. PICK r \in fetches : ReceiveFetched(r)
    BY <1>9
  <2>2. /\ pc = "receive" /\ pc' = "extend" /\ hand = {}
        /\ fetched' = fetched \cup (r[1]..r[2])
        /\ hand' = NotesIn(r[1], r[2]) /\ wal' = wal
        /\ txs' = txs /\ fetcherDat' = fetcherDat /\ lost' = lost
    BY <2>1 DEF ReceiveFetched, disk, bounds, EmptyWhere
  <2>3. \A n \in Notes : n[1] \in r[1]..r[2] => n \in hand'
    BY <2>2 DEF NotesIn
  <2>. QED
    BY <2>2, <2>3
<1>10. CASE \E r \in fetches : ReceiveError(r)
  BY <1>10 DEF ReceiveError, disk, bounds
<1>11. CASE EndReceive
  BY <1>11 DEF EndReceive, disk, bounds
<1>12. CASE Wake
  BY <1>12 DEF Wake, memory, disk, bounds
<1>13. CASE ExtendWal
  BY <1>13 DEF ExtendWal, disk, bounds
<1>14. CASE \E n \in Notes : FlushRow(n)
  <2>1. PICK m \in Notes : FlushRow(m)
    BY <1>14
  <2>2. /\ hand' = hand \ {m} /\ wal' = wal /\ pc' = pc
        /\ fetched' = fetched /\ fetcherDat' = fetcherDat /\ lost' = lost
    BY <2>1 DEF FlushRow, bounds
  <2>3. txs'[m] > 0 /\ \A n \in Notes \ {m} : txs'[n] = txs[n]
    BY <2>1 DEF TypeOK, FlushRow, AddRow
  <2>. QED
    BY <2>2, <2>3
<1>15. CASE EndFlush
  BY <1>15 DEF EndFlush, memory, disk, bounds
<1>16. CASE Save
  BY <1>16 DEF Save, memory, bounds, EmptyWhere
<1>17. CASE \E n \in Notes : DropRow(n)
  <2>1. PICK m \in Notes : DropRow(m)
    BY <1>17
  <2>2. /\ wal' = wal \ {m} /\ hand' = hand /\ pc' = pc
        /\ fetched' = fetched /\ fetcherDat' = fetcherDat /\ lost' = lost
    BY <2>1 DEF DropRow, bounds
  <2>3. txs'[m] > 0 /\ \A n \in Notes \ {m} : txs'[n] = txs[n]
    BY <2>1 DEF TypeOK, DropRow, AddRow
  <2>. QED
    BY <2>2, <2>3
<1>18. CASE Stop
  BY <1>18 DEF Stop, Dropping, disk, bounds, Halt
<1>19. CASE Restart
  BY <1>19 DEF Restart, Start, disk, EmptyWhere
<1>20. CASE Kill
  BY <1>20 DEF Kill, Halt
<1>21. CASE FlushFails
  BY <1>21 DEF FlushFails, disk, Halt
<1>22. CASE DropFails
  BY <1>22 DEF DropFails, disk, Halt
<1>23. CASE UNCHANGED vars
  BY <1>23 DEF vars, memory, disk, bounds
<1>24. CASE Cancel
  BY <1>24 DEF Cancel, Unwind
<1>25. CASE SaveFails
  BY <1>25 DEF SaveFails, Unwind
<1>26. CASE RestartUnread
  BY <1>26 DEF RestartUnread, Start, disk, EmptyWhere
<1>27. CASE \E r \in fetches : TaskPanics(r)
  BY <1>27 DEF TaskPanics, disk
<1>. QED
  BY <1>1, <1>2, <1>3, <1>4, <1>5, <1>6, <1>7, <1>8, <1>9, <1>10, <1>11,
       <1>12, <1>13, <1>14, <1>15, <1>16, <1>17, <1>18, <1>19, <1>20, <1>21,
       <1>22, <1>23, <1>24, <1>25, <1>26, <1>27
     DEF Next, Environment, Tasks, Steps, Faults

(* Every step of a sync keeps fetched and in flight together without hole. *)
LEMMA NoHoleStep ==
  ASSUME TypeOK, EmptyWhere, FlagFollowsSignal,
         PendingConvex, StartsAtFirstBlock, AbandonedByFaults,
         NoHoleAfterSync, [Next]_vars
  PROVE  /\ PendingConvex' /\ StartsAtFirstBlock' /\ AbandonedByFaults'
         /\ NoHoleAfterSync'
<1>. USE DEF PendingConvex, Pending, StartsAtFirstBlock, AbandonedByFaults,
             NoHoleAfterSync, FirstLife
<1>1. CASE ExtendChain
  BY <1>1 DEF ExtendChain, memory, disk, bounds
<1>2. CASE Signal
  BY <1>2 DEF Signal, memory, disk, bounds
<1>3. CASE StopRequested
  BY <1>3 DEF StopRequested, disk, bounds, CheckExit
<1>4. CASE IndexerDown
  BY <1>4 DEF IndexerDown, memory, disk, bounds
<1>5. CASE AlreadySynced
  <2>1. /\ tip \in Nat \ {0} /\ fetched \in SUBSET (1..tip)
        /\ fetched # {}
        /\ First(fetched) > tip
    BY <1>5 DEF TypeOK, Blocks, AlreadySynced, Synced, First
  <2>2. /\ First(fetched) \in Nat
        /\ Lowest(fetched)..(First(fetched) - 1) \subseteq fetched
        /\ Lowest(fetched) \in Nat
        /\ \A n \in fetched : Lowest(fetched) <= n
    <3>1. fetched \in SUBSET Nat
      BY <2>1
    <3>2. /\ Lowest(fetched) \in fetched
          /\ \A n \in fetched : Lowest(fetched) <= n
      BY <2>1, <3>1, LowestIsLeast
    <3>3. /\ First(fetched) \in 1..(tip + 1)
          /\ Lowest(fetched)..(First(fetched) - 1) \subseteq fetched
      BY <2>1, FirstProperty
    <3>4. Lowest(fetched) \in Nat
      BY <3>1, <3>2, Zenon
    <3>5. First(fetched) \in Nat
      <4>1. ASSUME NEW t \in Nat, NEW f \in 1..(t + 1) PROVE f \in Nat
        OBVIOUS
      <4>. QED
        BY <2>1, <3>3, <4>1, Zenon
    <3>. QED
      BY <3>2, <3>3, <3>4, <3>5, Zenon
  <2>3. Convex(fetched)
    BY <2>1, <2>2 DEF Convex
  <2>4. Convex(fetched \cup abandoned)
    <3>1. abandoned = {} => fetched \cup abandoned = fetched
      OBVIOUS
    <3>. QED
      BY <1>5, <2>3, <3>1 DEF AlreadySynced
  <2>. QED
    BY <1>5, <2>1, <2>4 DEF AlreadySynced, memory, bounds
<1>6. CASE SpawnFetches
  <2>1. tip \in Nat /\ fetched \in SUBSET (1..tip)
    BY DEF TypeOK, Blocks
  <2>2. First(fetched) <= tip
    <3>1. First(fetched) \in 1..(tip + 1)
      BY <2>1, FirstProperty
    <3>. QED
      BY <1>6, <2>1, <3>1 DEF SpawnFetches, Synced
  <2>3. /\ pc = "top" /\ pc' = "loop"
        /\ fetches' = Missing(fetched, tip) /\ fetched' = fetched
        /\ restarts' = restarts /\ faults' = faults /\ abandoned' = {}
    BY <1>6 DEF SpawnFetches
  <2>4. Pending' = fetched \cup Spanned(Missing(fetched, tip))
    BY <2>3
  <2>. QED
    BY <2>1, <2>2, <2>3, <2>4, MissingFillsHoles
<1>7. CASE \E r \in fetches : TaskSeesShutdown(r)
  <2>1. /\ interruptFlag' = TRUE /\ pc' = pc
        /\ fetched' = fetched /\ restarts' = restarts
        /\ faults' = faults /\ abandoned' = abandoned
        /\ pc \in {"loop", "receive", "extend", "flush"}
    BY <1>7 DEF EmptyWhere, TaskSeesShutdown, bounds
  <2>. QED
    BY <2>1
<1>8. CASE Wait
  BY <1>8 DEF Wait, disk, bounds, CheckExit
<1>9. CASE \E r \in fetches : ReceiveFetched(r)
  <2>1. PICK r \in fetches : ReceiveFetched(r)
    BY <1>9
  <2>2. /\ pc = "receive" /\ pc' = "extend" /\ restarts' = restarts
        /\ faults' = faults /\ abandoned' = abandoned
        /\ fetches' = fetches \ {r}
        /\ fetched' = fetched \cup (r[1]..r[2])
        /\ interruptFlag' = (interruptFlag \/ shutdownSignal)
    BY <2>1 DEF ReceiveFetched, CheckExit, bounds
  <2>3. Pending' = Pending
    BY <2>1, <2>2 DEF Spanned
  <2>. QED
    BY <2>2, <2>3
<1>10. CASE \E r \in fetches : ReceiveError(r)
  <2>1. PICK r \in fetches : ReceiveError(r)
    BY <1>10
  <2>2. /\ pc = "receive" /\ pc' = "loop" /\ restarts' = restarts
        /\ faults' = faults /\ abandoned' = abandoned
        /\ fetched' = fetched
        /\ interruptFlag' = (interruptFlag \/ shutdownSignal)
        /\ ~shutdownSignal => fetches' = fetches
    BY <2>1 DEF ReceiveError, CheckExit, bounds
  <2>. QED
    BY <2>2
<1>11. CASE EndReceive
  <2>1. /\ pc = "receive" /\ fetches = {}
        /\ fetched' = fetched /\ restarts' = restarts
        /\ faults' = faults /\ abandoned' = abandoned
        /\ pc' = IF shutdownSignal THEN "save" ELSE "sleep"
    BY <1>11 DEF EndReceive, bounds
  <2>2. Pending = fetched \cup abandoned
    BY <2>1 DEF Spanned
  <2>. QED
    BY <2>1, <2>2 DEF FlagFollowsSignal
<1>12. CASE Wake
  BY <1>12 DEF Wake, memory, disk, bounds
<1>13. CASE ExtendWal
  BY <1>13 DEF ExtendWal, disk, bounds
<1>14. CASE \E n \in Notes : FlushRow(n)
  BY <1>14 DEF FlushRow, bounds
<1>15. CASE EndFlush
  BY <1>15 DEF EndFlush, memory, disk, bounds
<1>16. CASE Save
  BY <1>16 DEF Save, memory, bounds
<1>17. CASE \E n \in Notes : DropRow(n)
  BY <1>17 DEF DropRow, Dropping, bounds
<1>18. CASE Stop
  BY <1>18 DEF Stop, Dropping, disk, bounds, Halt
<1>19. CASE Restart
  <2>1. /\ pc = "stopped" /\ pc' = "top" /\ abandoned' = abandoned
        /\ restarts' = restarts + 1 /\ restarts \in Nat
    BY <1>19, FetcherAssumption DEF Restart, Start, TypeOK
  <2>. QED
    BY <2>1
<1>20. CASE Kill
  <2>1. pc' = "stopped" /\ abandoned' = {}
    BY <1>20 DEF Kill, Halt
  <2>. QED
    BY <2>1
<1>21. CASE FlushFails
  <2>1. pc' = "stopped" /\ abandoned' = {}
    BY <1>21 DEF FlushFails, Halt
  <2>. QED
    BY <2>1
<1>22. CASE DropFails
  <2>1. pc' = "stopped" /\ abandoned' = {}
    BY <1>22 DEF DropFails, Halt
  <2>. QED
    BY <2>1
<1>23. CASE UNCHANGED vars
  BY <1>23 DEF vars, memory, disk, bounds
<1>24. CASE Cancel
  <2>1. pc' = "unwind" /\ abandoned' = abandoned /\ faults' # 0
    BY <1>24 DEF Cancel, Unwind, Fault, TypeOK
  <2>. QED
    BY <2>1
<1>25. CASE SaveFails
  <2>1. pc' = "unwind" /\ abandoned' = abandoned /\ faults' # 0
    BY <1>25 DEF SaveFails, Unwind, Fault, TypeOK
  <2>. QED
    BY <2>1
<1>26. CASE RestartUnread
  <2>1. /\ pc = "stopped" /\ pc' = "top" /\ fetched' = {} /\ abandoned' = abandoned
        /\ restarts' = restarts + 1 /\ restarts \in Nat
    BY <1>26, FetcherAssumption DEF RestartUnread, Start, TypeOK
  <2>. QED
    BY <2>1
<1>27. CASE \E r \in fetches : TaskPanics(r)
  <2>1. PICK r \in fetches : TaskPanics(r)
    BY <1>27
  <2>2. /\ pc' = pc /\ fetched' = fetched /\ interruptFlag' = interruptFlag
        /\ fetches' = fetches \ {r}
        /\ abandoned' = abandoned \cup (r[1]..r[2])
    BY <2>1 DEF TaskPanics
  <2>3. faults' # 0 /\ ~FirstLife'
    BY <2>1 DEF TaskPanics, Fault, TypeOK
  <2>4. Pending' = Pending
    BY <2>1, <2>2 DEF Spanned
  <2>5. pc \in {"loop", "receive", "extend", "flush"}
    BY <2>1 DEF EmptyWhere
  <2>. QED
    BY <2>2, <2>3, <2>4, <2>5
<1>. QED
  BY <1>1, <1>2, <1>3, <1>4, <1>5, <1>6, <1>7, <1>8, <1>9, <1>10, <1>11,
       <1>12, <1>13, <1>14, <1>15, <1>16, <1>17, <1>18, <1>19, <1>20, <1>21,
       <1>22, <1>23, <1>24, <1>25, <1>26, <1>27
     DEF Next, Environment, Tasks, Steps, Faults

-----------------------------------------------------------------------------
(* The invariant holds initially,                                          *)
LEMMA InitIInv == Init => IInv
<1>. SUFFICES ASSUME Init PROVE IInv
  OBVIOUS
<1>. USE DEF Init
<1>1. TypeOK
  <2>1. 0 \in 0..MaxRestarts /\ 0 \in 0..MaxFaults
    BY FetcherAssumption
  <2>2. txs \in [Notes -> Nat]
    OBVIOUS
  <2>. QED
    BY <2>1, <2>2 DEF TypeOK
<1>2. FileIsSaved
  <2>1. {} \in SUBSET (1..MaxHeight)
    OBVIOUS
  <2>2. {} # Torn
    BY <2>1, FetcherAssumption
  <2>. QED
    BY <2>2 DEF FileIsSaved
<1>3. ExactlyOnce /\ RowsBounded
  BY DEF ExactlyOnce, RowsBounded, Recorded, InFlight
<1>. QED
  BY <1>1, <1>2, <1>3
     DEF IInv, FetchesOrdered, FetchesDisjoint, EmptyWhere, FlagFollowsSignal,
         FetchedAccounted, SavedAccounted, PendingConvex, StartsAtFirstBlock,
         AbandonedByFaults, NoHoleAfterSync

(* is preserved by every step,                                             *)
LEMMA NextIInv == IInv /\ [Next]_vars => IInv'
<1>. SUFFICES ASSUME IInv, [Next]_vars PROVE IInv'
  OBVIOUS
<1>. USE DEF IInv
<1>1. TypeOK'
  BY TypeOKStep
<1>2. FetchesOrdered' /\ FetchesDisjoint'
  BY FetchesStep
<1>3. EmptyWhere' /\ FlagFollowsSignal' /\ FileIsSaved'
  BY ControlStep
<1>4. ExactlyOnce' /\ RowsBounded'
  BY <1>1, ExactlyOnceStep, RowsBoundedStep
<1>5. FetchedAccounted' /\ SavedAccounted'
  BY AccountedStep
<1>6. /\ PendingConvex' /\ StartsAtFirstBlock' /\ AbandonedByFaults'
      /\ NoHoleAfterSync'
  BY NoHoleStep
<1>. QED
  BY <1>1, <1>2, <1>3, <1>4, <1>5, <1>6

(* and so always holds.                                                    *)
LEMMA Invariance == Spec => []IInv
  BY InitIInv, NextIInv, PTL DEF Spec

(* Type correctness: nothing beyond the indexer's tip is asked for or      *)
(* recorded (fetch.rs:240).                                                *)
THEOREM TypeCorrect == Spec => []TypeOK
<1>1. IInv => TypeOK
  BY DEF IInv
<1>. QED
  BY <1>1, Invariance, PTL

(* No block is fetched twice (fetch.rs:239-252).                           *)
THEOREM NeverFetchedTwice == Spec => []FetchesDisjoint
<1>1. IInv => FetchesDisjoint
  BY DEF IInv
<1>. QED
  BY <1>1, Invariance, PTL

(* Without faults every recorded transaction is stored exactly once, or on *)
(* its way (fetch.rs:80-128, db.rs:192-197).                               *)
THEOREM StoredExactlyOnce == Spec => []ExactlyOnce
<1>1. IInv => ExactlyOnce
  BY DEF IInv
<1>. QED
  BY <1>1, Invariance, PTL

(* Faults lose nothing but the buffer of a fetcher that has written        *)
(* fetcher.dat (fetch.rs:107-128).                                         *)
THEOREM OnlyTheBufferIsLost == Spec => []NothingElseLost
<1>1. IInv => NothingElseLost
  <2>. SUFFICES ASSUME IInv PROVE NothingElseLost
    OBVIOUS
  <2>1. CASE pc \in {"unwind", "stopped"}
    BY <2>1 DEF IInv, SavedAccounted, NothingElseLost, Recorded
  <2>2. CASE pc \notin {"unwind", "stopped"}
    BY <2>2 DEF IInv, FetchedAccounted, NothingElseLost, Recorded, InFlight
  <2>. QED
    BY <2>1, <2>2
<1>. QED
  BY <1>1, Invariance, PTL

(* A transaction is stored once, and once more per fault at most           *)
(* (fetch.rs:95-127, db.rs:192-197).                                       *)
THEOREM OnlyFaultsDouble == Spec => []DoubledOnlyByFaults
<1>1. IInv => DoubledOnlyByFaults
  BY DEF IInv, RowsBounded, DoubledOnlyByFaults
<1>. QED
  BY <1>1, Invariance, PTL

(* After a sync no block above the lowest fetched one is missing, but      *)
(* those of tasks that panicked (fetch.rs:214-278).                        *)
THEOREM SyncLeavesNoHole == Spec => []NoHoleAfterSync
<1>1. IInv => NoHoleAfterSync
  BY DEF IInv
<1>. QED
  BY <1>1, Invariance, PTL
=============================================================================
