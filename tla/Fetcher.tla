------------------------------ MODULE Fetcher ------------------------------
(***************************************************************************)
(* The fetcher of the host (host/src/db/fetch.rs), the background task     *)
(* that downloads the MASP transactions of every block from an indexer and *)
(* writes one row per transaction to the Txs table (host/src/db.rs).       *)
(*                                                                         *)
(* One sync asks the indexer for the tip of the chain and spawns a fetch   *)
(* task per missing interval of blocks.  The tasks finish in any order and *)
(* send what they fetched over a channel; the fetcher records the interval *)
(* in memory, publishes the height it is synced to, and puts the           *)
(* transactions in a write-ahead buffer (wal), flushed to the table row by *)
(* row when it is full.  On shutdown the recorded intervals go to the file *)
(* fetcher.dat, and then the rest of the buffer goes to the table.         *)
(*                                                                         *)
(* The process may be killed at any moment, its main loop or a fetch task  *)
(* may panic, a write to the table or to the file may fail, as may the     *)
(* reading of the file, and the operator restarts the host.                *)
(***************************************************************************)
EXTENDS Heights, FiniteSets

CONSTANTS
  MaxHeight,      \* bound on the height of the chain
  Notes,          \* the MASP transactions of the chain: <<height, tx>>
  BatchSize,      \* BATCH_SIZE: the most blocks of one fetch task
  MaxWalSize,     \* max_wal_size: the buffer is flushed at this size
  MaxRestarts,    \* bound on the restarts of the host
  MaxFaults,      \* bound on the kills, panics, failed writes and reads
  Torn            \* the contents of a half-written fetcher.dat

ASSUME FetcherAssumption ==
  /\ MaxHeight \in Nat \ {0}
  /\ BatchSize \in Nat \ {0}
  /\ MaxWalSize \in Nat \ {0}
  /\ MaxRestarts \in Nat /\ MaxFaults \in Nat
  /\ Notes \subseteq (1..MaxHeight) \X Nat
  /\ IsFiniteSet(Notes)
  /\ \A S \in SUBSET (1..MaxHeight) : S # Torn

VARIABLES
  tip,             \* the last block the indexer knows
  shutdownSignal,  \* SIGINT or SIGTERM has been received
  fetched,         \* Fetcher.fetched, as the set of heights it stands for
  fetches,         \* the intervals fetched, or waiting in the channel
  interruptFlag,   \* Fetcher.interrupt_flag
  syncedTo,        \* the watch channel Fetcher.synced_to
  wal,             \* DbConn.wal
  hand,            \* the transactions being put in the buffer or flushed
  pc,              \* where the fetcher's task is
  txs,             \* the table Txs: how many rows each transaction has
  fetcherDat,      \* the file fetcher.dat
  restarts,        \* restarts so far
  faults,          \* kills, panics, failed writes and reads so far
  lost,            \* history: buffered when a stopping fetcher was cut short
  abandoned        \* history: the blocks of tasks that panicked in this sync

memory == <<fetched, fetches, interruptFlag, syncedTo, wal, hand>>
disk   == <<txs, fetcherDat>>
bounds == <<restarts, faults, lost, abandoned>>
vars   == <<tip, shutdownSignal, memory, pc, disk, bounds>>

Blocks == 1..MaxHeight
NotesIn(from, to) == {n \in Notes : n[1] \in from..to}

(* The order of the buffer, a BTreeMap: by height, then by position.       *)
Precedes(n, m) == n[1] < m[1] \/ (n[1] = m[1] /\ n[2] <= m[2])
IsNextRow(n, S) == n \in S /\ \A m \in S : Precedes(n, m)

(* The intervals of one sync: first()..latest in batches, each without     *)
(* what is fetched already.                                                *)
BatchStarts(first, latest) ==
  {from \in first..latest : \E i \in 0..latest : from = first + i * BatchSize}
(* Mutant: the last batch is not cut at the tip.                           *)
MutBatchEnd(from, latest) == from + BatchSize - 1

BatchEnd(from, latest) ==
  IF from + BatchSize - 1 <= latest THEN from + BatchSize - 1 ELSE latest

(* Mutant: whole batches, without asking blocks_left_to_fetch.             *)
MutMissing(S, latest) ==
  {<<from, BatchEnd(from, latest)>> : from \in BatchStarts(First(S), latest)}

Missing(S, latest) ==
  UNION {Gaps(S, from, BatchEnd(from, latest)) :
           from \in BatchStarts(First(S), latest)}

Spanned(F) == UNION {r[1]..r[2] : r \in F}

-----------------------------------------------------------------------------
Init ==
  /\ tip \in Blocks
  /\ shutdownSignal = FALSE
  /\ fetched = {} /\ fetches = {} /\ interruptFlag = FALSE /\ syncedTo = 1
  /\ wal = {} /\ hand = {}
  /\ pc = "top"
  /\ txs = [n \in Notes |-> 0] /\ fetcherDat = {}
  /\ restarts = 0 /\ faults = 0 /\ lost = {} /\ abandoned = {}

(* The environment: a new block, and the signal to shut down.              *)
ExtendChain ==
  /\ tip < MaxHeight
  /\ tip' = tip + 1
  /\ UNCHANGED <<shutdownSignal, memory, pc, disk, bounds>>

Signal ==
  /\ pc # "stopped" /\ ~shutdownSignal
  /\ shutdownSignal' = TRUE
  /\ UNCHANGED <<tip, memory, pc, disk, bounds>>

(* check_exit_conditions.                                                  *)
CheckExit == interruptFlag' = (interruptFlag \/ shutdownSignal)

-----------------------------------------------------------------------------
(* run and the beginning of sync.  A signal that arrives while the indexer *)
(* is asked for the tip is noticed later, as one that arrives after it.    *)

(* Mutant: run does not call check_exit_conditions.                        *)
MutStopNow == FALSE

StopNow == shutdownSignal

(* Mutant: the block at the tip is taken for fetched.                      *)
MutSynced == First(fetched) >= tip

Synced == First(fetched) > tip

StopRequested ==
  /\ pc = "top" /\ StopNow
  /\ CheckExit
  /\ pc' = "save"
  /\ UNCHANGED <<tip, shutdownSignal, fetched, fetches, syncedTo, wal, hand,
                 disk, bounds>>

IndexerDown ==
  /\ pc = "top" /\ ~StopNow
  /\ pc' = "save"
  /\ UNCHANGED <<tip, shutdownSignal, memory, disk, bounds>>

AlreadySynced ==
  /\ pc = "top" /\ ~StopNow
  /\ Synced
  /\ pc' = "sleep"
  /\ UNCHANGED <<tip, shutdownSignal, memory, disk, bounds>>

SpawnFetches ==
  /\ pc = "top" /\ ~StopNow
  /\ ~Synced
  /\ fetches' = Missing(fetched, tip)
  /\ abandoned' = {}
  /\ pc' = "loop"
  /\ UNCHANGED <<tip, shutdownSignal, fetched, interruptFlag, syncedTo, wal,
                 hand, disk, restarts, faults, lost>>

(* spawn_fetch_txs, when the shutdown signal wins over the fetch: the task *)
(* ends without a message.                                                 *)
TaskSeesShutdown(r) ==
  /\ r \in fetches /\ shutdownSignal
  /\ fetches' = fetches \ {r}
  /\ interruptFlag' = TRUE
  /\ UNCHANGED <<tip, shutdownSignal, fetched, syncedTo, wal, hand, pc, disk,
                 bounds>>

-----------------------------------------------------------------------------
(* The receive loop of sync.  get_next_message looks at the flag, then     *)
(* waits for a message or for the end of the last task.                    *)
Wait ==
  /\ pc = "loop"
  /\ IF interruptFlag
     THEN pc' = "save" /\ fetches' = {} /\ CheckExit
     ELSE pc' = "receive" /\ UNCHANGED <<fetches, interruptFlag>>
  /\ UNCHANGED <<tip, shutdownSignal, fetched, syncedTo, wal, hand, disk, bounds>>

(* handle_fetched on a downloaded interval: recorded and published here,   *)
(* buffered by ExtendWal.                                                  *)
ReceiveFetched(r) ==
  /\ pc = "receive" /\ r \in fetches
  /\ CheckExit
  /\ fetches' = fetches \ {r}
  /\ fetched' = fetched \cup (r[1]..r[2])
  /\ syncedTo' = First(fetched') - 1
  /\ hand' = NotesIn(r[1], r[2])
  /\ pc' = "extend"
  /\ UNCHANGED <<tip, shutdownSignal, wal, disk, bounds>>

(* Mutant: a failed download is not retried.                               *)
MutReceiveError(r) ==
  /\ pc = "receive" /\ r \in fetches
  /\ CheckExit
  /\ fetches' = fetches \ {r}
  /\ pc' = "loop"
  /\ UNCHANGED <<tip, shutdownSignal, fetched, syncedTo, wal, hand, disk, bounds>>

(* handle_fetched on a failed download: the same interval is fetched       *)
(* again, unless the fetcher is stopping.                                  *)
ReceiveError(r) ==
  /\ pc = "receive" /\ r \in fetches
  /\ CheckExit
  /\ fetches' = IF shutdownSignal THEN fetches \ {r} ELSE fetches
  /\ pc' = "loop"
  /\ UNCHANGED <<tip, shutdownSignal, fetched, syncedTo, wal, hand, disk, bounds>>

(* No task is left and the channel is empty: the sync is over.  Nothing    *)
(* forces this step: the wake-up of the last task can be missed, see       *)
(* module TaskDrain.                                                       *)
EndReceive ==
  /\ pc = "receive" /\ fetches = {}
  /\ CheckExit
  /\ pc' = IF shutdownSignal THEN "save" ELSE "sleep"
  /\ UNCHANGED <<tip, shutdownSignal, fetched, fetches, syncedTo, wal, hand,
                 disk, bounds>>

Wake ==
  /\ pc = "sleep"
  /\ pc' = "top"
  /\ UNCHANGED <<tip, shutdownSignal, memory, disk, bounds>>

-----------------------------------------------------------------------------
(* Mutant: the buffer is copied, not taken, when it is flushed.            *)
MutExtendWal ==
  /\ pc = "extend"
  /\ wal' = wal \cup hand
  /\ IF Cardinality(wal \cup hand) >= MaxWalSize
     THEN hand' = wal \cup hand /\ pc' = "flush"
     ELSE hand' = {} /\ pc' = "loop"
  /\ UNCHANGED <<tip, shutdownSignal, fetched, fetches, interruptFlag, syncedTo,
                 disk, bounds>>

(* DbConn::extend: into the buffer, and from a full buffer to the table.   *)
ExtendWal ==
  /\ pc = "extend"
  /\ IF Cardinality(wal \cup hand) >= MaxWalSize
     THEN wal' = {} /\ hand' = wal \cup hand /\ pc' = "flush"
     ELSE wal' = wal \cup hand /\ hand' = {} /\ pc' = "loop"
  /\ UNCHANGED <<tip, shutdownSignal, fetched, fetches, interruptFlag, syncedTo,
                 disk, bounds>>

AddRow(n) == txs' = [txs EXCEPT ![n] = @ + 1]

FlushRow(n) ==
  /\ pc = "flush" /\ IsNextRow(n, hand)
  /\ AddRow(n)
  /\ hand' = hand \ {n}
  /\ UNCHANGED <<tip, shutdownSignal, fetched, fetches, interruptFlag, syncedTo,
                 wal, pc, fetcherDat, bounds>>

EndFlush ==
  /\ pc = "flush" /\ hand = {}
  /\ pc' = "loop"
  /\ UNCHANGED <<tip, shutdownSignal, memory, disk, bounds>>

-----------------------------------------------------------------------------
(* Mutant: the task ends without the call of save.                         *)
MutSave ==
  /\ pc = "save"
  /\ pc' = "drop"
  /\ UNCHANGED <<tip, shutdownSignal, memory, disk, bounds>>

(* The end of the task (start_updates, Drop for DbConn): fetcher.dat is    *)
(* written, then the buffer is flushed.                                    *)
Save ==
  /\ pc = "save"
  /\ fetcherDat' = fetched
  /\ pc' = "drop"
  /\ UNCHANGED <<tip, shutdownSignal, memory, txs, bounds>>

(* Drop for DbConn, after the save or while the task unwinds.              *)
Dropping == pc \in {"drop", "unwind"}

DropRow(n) ==
  /\ Dropping /\ IsNextRow(n, wal)
  /\ AddRow(n)
  /\ wal' = wal \ {n}
  /\ UNCHANGED <<tip, shutdownSignal, fetched, fetches, interruptFlag, syncedTo,
                 hand, pc, fetcherDat, bounds>>

(* What the task held in memory is gone; the host still reads the last     *)
(* value of the watch channel.                                             *)
Halt ==
  /\ pc' = "stopped"
  /\ shutdownSignal' = FALSE
  /\ fetched' = {} /\ fetches' = {} /\ interruptFlag' = FALSE
  /\ wal' = {} /\ hand' = {}
  /\ abandoned' = {}

Stop ==
  /\ Dropping /\ wal = {}
  /\ Halt
  /\ UNCHANGED <<tip, syncedTo, disk, restarts, faults, lost>>

(* Fetcher::new.                                                           *)
Start(S) ==
  /\ pc = "stopped" /\ restarts < MaxRestarts
  /\ fetched' = S
  /\ syncedTo' = 1
  /\ pc' = "top"
  /\ restarts' = restarts + 1
  /\ UNCHANGED <<tip, shutdownSignal, fetches, interruptFlag, wal, hand, disk,
                 lost, abandoned>>

(* A torn fetcher.dat is read, but not decoded: the host does not start.   *)
Restart ==
  /\ fetcherDat # Torn
  /\ Start(fetcherDat)
  /\ UNCHANGED faults

-----------------------------------------------------------------------------
(* Faults.                                                                 *)
Fault == faults < MaxFaults /\ faults' = faults + 1

(* A file that cannot be read counts as no file.                           *)
RestartUnread == Fault /\ Start({})

(* A fetch task panics: its counter goes down as that of any other, but    *)
(* its interval is neither recorded nor fetched again in this sync.        *)
TaskPanics(r) ==
  /\ r \in fetches /\ Fault
  /\ fetches' = fetches \ {r}
  /\ abandoned' = abandoned \cup (r[1]..r[2])
  /\ UNCHANGED <<tip, shutdownSignal, fetched, interruptFlag, syncedTo, wal,
                 hand, pc, disk, restarts, lost>>

(* The process is killed, possibly while it writes fetcher.dat.            *)
Kill ==
  /\ Fault
  /\ Halt
  /\ lost' = IF pc = "drop" THEN lost \cup wal ELSE lost
  /\ \/ fetcherDat' = fetcherDat
     \/ pc = "save" /\ fetcherDat' = Torn
  /\ UNCHANGED <<tip, syncedTo, txs, restarts>>

(* Mutant: a task that panics still writes fetcher.dat.                    *)
MutFlushFails ==
  /\ pc = "flush" /\ hand # {} /\ Fault
  /\ Halt
  /\ fetcherDat' = fetched
  /\ UNCHANGED <<tip, syncedTo, txs, restarts, lost>>

(* A row cannot be written while a full buffer is flushed: the task        *)
(* panics, the rows not yet written are dropped and nothing is saved.      *)
FlushFails ==
  /\ pc = "flush" /\ hand # {} /\ Fault
  /\ Halt
  /\ UNCHANGED <<tip, syncedTo, disk, restarts, lost>>

(* The table cannot be written in Drop for DbConn, which returns silently  *)
(* or panics.                                                              *)
DropFails ==
  /\ Dropping /\ wal # {} /\ Fault
  /\ Halt
  /\ lost' = IF pc = "drop" THEN lost \cup wal ELSE lost
  /\ UNCHANGED <<tip, syncedTo, disk, restarts>>

(* The task is dropped before it has saved: fetched is gone, the buffer    *)
(* still goes to the table.                                                *)
Unwind ==
  /\ pc' = "unwind"
  /\ fetched' = {} /\ fetches' = {}
  /\ UNCHANGED <<tip, shutdownSignal, interruptFlag, syncedTo, wal, hand, txs,
                 restarts, lost, abandoned>>

(* The main loop of the host panics: the runtime drops the task where it   *)
(* awaits the indexer, a message or the next sync.                         *)
Cancel ==
  /\ pc \in {"top", "receive", "sleep"} /\ Fault
  /\ Unwind
  /\ UNCHANGED fetcherDat

(* fetcher.dat cannot be written: save panics.                             *)
SaveFails ==
  /\ pc = "save" /\ Fault
  /\ Unwind
  /\ fetcherDat' \in {fetcherDat, Torn}

-----------------------------------------------------------------------------
Environment == ExtendChain \/ Signal \/ IndexerDown

Tasks == \E r \in fetches :
  TaskSeesShutdown(r) \/ ReceiveFetched(r) \/ ReceiveError(r)

Steps ==
  \/ StopRequested \/ AlreadySynced \/ SpawnFetches \/ Wait
  \/ Wake \/ ExtendWal \/ EndFlush \/ Save \/ Stop
  \/ \E n \in Notes : FlushRow(n) \/ DropRow(n)

Faults ==
  \/ Kill \/ FlushFails \/ DropFails \/ Cancel \/ SaveFails \/ RestartUnread
  \/ \E r \in fetches : TaskPanics(r)

Next == Environment \/ Tasks \/ Steps \/ EndReceive \/ Faults \/ Restart

Spec == Init /\ [][Next]_vars

(* The runtime schedules the fetcher's task while it can make a step, and  *)
(* the indexer does not answer with errors for ever.  EndReceive is not    *)
(* fair: the fetcher may never hear that its last task has ended.          *)
Fairness ==
  /\ WF_vars(Steps)
  /\ SF_vars(\E r \in fetches : ReceiveFetched(r))

FairSpec == Spec /\ Fairness

-----------------------------------------------------------------------------
(* The types of the variables; no block is asked for, or recorded, that    *)
(* the indexer does not have yet (fetch.rs:240).                           *)
TypeOK ==
  /\ tip \in Blocks
  /\ shutdownSignal \in BOOLEAN /\ interruptFlag \in BOOLEAN
  /\ fetched \in SUBSET (1..tip)
  /\ fetches \in SUBSET ((1..tip) \X (1..tip))
  /\ syncedTo \in Nat
  /\ wal \in SUBSET Notes /\ hand \in SUBSET Notes
  /\ pc \in {"top", "loop", "receive", "extend", "flush", "sleep", "save",
             "drop", "unwind", "stopped"}
  /\ txs \in [Notes -> Nat]
  /\ fetcherDat = Torn \/ fetcherDat \in SUBSET (1..tip)
  /\ restarts \in 0..MaxRestarts /\ faults \in 0..MaxFaults
  /\ lost \in SUBSET Notes
  /\ abandoned \in SUBSET Blocks

(* No block is fetched twice: the intervals in flight are disjoint from    *)
(* each other and from what is fetched (fetch.rs:239-252, and the retry in *)
(* fetch.rs:296-305).                                                      *)
FetchesDisjoint ==
  \A r \in fetches :
    /\ (r[1]..r[2]) \cap fetched = {}
    /\ \A s \in fetches : r # s => (r[1]..r[2]) \cap (s[1]..s[2]) = {}

(* The heights whose transactions are stored, or will be by the next sync: *)
(* those in memory, or those the next start will read.                     *)
Recorded == IF pc \in {"unwind", "stopped"} THEN fetcherDat ELSE fetched

InFlight(n) == (IF n \in wal THEN 1 ELSE 0) + (IF n \in hand THEN 1 ELSE 0)

(* Without kills and failed writes, through any number of shutdowns and    *)
(* restarts, every transaction of a recorded block is exactly once in the  *)
(* table or on its way to it, and no other is (fetch.rs:80-128,            *)
(* db.rs:192-197).                                                         *)
ExactlyOnce ==
  faults = 0 =>
    \A n \in Notes :
      txs[n] + InFlight(n) = IF n[1] \in Recorded THEN 1 ELSE 0

(* Whatever is killed or fails, and however often, a transaction of a      *)
(* recorded block can only be missing if it was in the buffer when a       *)
(* fetcher that had written fetcher.dat was cut short (db.rs:194,          *)
(* fetch.rs:107-128).                                                      *)
NothingElseLost ==
  Recorded # Torn =>
    \A n \in Notes :
      n[1] \in Recorded => txs[n] > 0 \/ InFlight(n) > 0 \/ n \in lost

(* Without a fault no transaction is stored twice, and every fault stores  *)
(* it once more at most: what was fetched since the last save is fetched   *)
(* again, and its rows may have come to the table meanwhile                *)
(* (fetch.rs:95-127, fetch.rs:359, db.rs:192-197).                         *)
DoubledOnlyByFaults ==
  \A n \in Notes : txs[n] + InFlight(n) <= 1 + faults

(* When a sync has ended the fetched blocks have no hole above the lowest  *)
(* one but those of tasks that panicked in it, whatever the order the      *)
(* tasks finished in, the errors they met and the faults and restarts      *)
(* before; in the first life of the service, without faults, that lowest   *)
(* one is the first block (fetch.rs:214-278).                              *)
Convex(S) == \A a, b \in S : a..b \subseteq S

FirstLife == restarts = 0 /\ faults = 0

NoHoleAfterSync ==
  pc = "sleep" =>
    Convex(fetched \cup abandoned) /\ (FirstLife => 1 \in fetched)

(* The fetcher waits for a message, and there is no task to send one.      *)
NeverWoken == pc = "receive" /\ fetches = {}

(* The fetcher catches up with the chain again and again, unless the host  *)
(* stops or the fetcher misses the end of its last task: every block from  *)
(* the lowest fetched one to the tip is fetched, and that lowest one is    *)
(* the first block until the first fault or restart (fetch.rs:194-212      *)
(* "Runs a loop until interrupted").                                       *)
CaughtUp ==
  /\ fetched # {} /\ Lowest(fetched)..tip \subseteq fetched
  /\ FirstLife => 1 \in fetched

ChainIsFetched == []<>(CaughtUp \/ pc = "stopped") \/ <>[]NeverWoken

(* A host told to shut down stops its fetcher, wherever the signal finds   *)
(* it, unless the fetcher misses the end of its last task                  *)
(* (fetch.rs:344-352, db.rs:192-197).                                      *)
ShutdownStops == (shutdownSignal ~> pc = "stopped") \/ <>[]NeverWoken

(* What the host knows as the height it is synced to completely (db.rs:31  *)
(* "to which block height we are completely synced") has no unfetched      *)
(* block below it.                                                         *)
SyncedToIsComplete ==
  pc # "stopped" /\ syncedTo > 1 => 1..syncedTo \subseteq fetched
=============================================================================
