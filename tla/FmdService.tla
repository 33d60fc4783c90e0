---------------------------- MODULE FmdService -----------------------------
(***************************************************************************)
(* The service: the main loop of the host (host/src/main.rs), which drives *)
(* the enclave (Enclave) while the fetcher (Fetcher) runs in another task. *)
(*                                                                         *)
(* A round of FMD asks the enclave which heights its keys need, reads the  *)
(* rows of these heights from the table Txs, one height at a time, then    *)
(* reads the height the fetcher is synced to and sends both to the         *)
(* enclave; the results replace rows of the table Indices.  Nothing        *)
(* stops the fetcher from moving between these steps.                      *)
(*                                                                         *)
(* The messages that host and enclave exchange are those of                *)
(* KeyRegistration; here a reply belongs to the request before it, that    *)
(* is, a host that is started again finds an enclave that has nothing left *)
(* to answer.                                                              *)
(***************************************************************************)
EXTENDS Fetcher, Enclave

CONSTANTS
  Birthdays,        \* the birthdays that clients register
  MaxRegistrations  \* bound on the number of registrations

ASSUME ServiceAssumption ==
  /\ Birthdays \subseteq Nat \cup {NoBirthday}
  /\ MaxRegistrations \in Nat

VARIABLES
  hostPc,         \* where the main loop of the host is
  unread,         \* handle_fmd: the heights still to be read
  flags,          \* handle_fmd: the rows read
  results,        \* handle_fmd: the results still to be stored, by their key
  stored,         \* the table Indices: the row of each owner that has one
  registrations,  \* history: the owners that registered, in order
  late            \* history: rows that came after their height was read

round       == <<unread, flags, results>>
hostVars    == <<hostPc, round, stored>>
serviceVars == <<vars, keys, hostVars, registrations, late>>

Latest(s) == [indices |-> s.indices, height |-> s.height]

ServiceInit ==
  /\ Init /\ EnclaveInit
  /\ hostPc = "idle" /\ unread = {} /\ flags = {} /\ results = <<>>
  /\ stored = <<>>
  /\ registrations = <<>> /\ late = {}

(* Mutant: the interrupt is only noticed while the fetcher stops.          *)
MutInterrupted == pc = "drop"

(* The interrupt flag of the fetcher's task has been dropped; NextQuery    *)
(* looks at it first.                                                      *)
Interrupted == pc \in {"drop", "stopped"}

-----------------------------------------------------------------------------
(* handle_connection.  The host serves one client at a time, and waits for *)
(* it as long as it takes, or for ever: nothing forces it to become idle.  *)
Accept ==
  /\ hostPc = "idle" /\ ~Interrupted
  /\ hostPc' = "serving"
  /\ UNCHANGED <<vars, keys, round, stored, registrations, late>>

(* A registration that succeeds.                                           *)
Register(o, b) ==
  /\ hostPc = "serving"
  /\ Len(registrations) < MaxRegistrations
  /\ RegisterKey(o, b)
  /\ registrations' = Append(registrations, o)
  /\ hostPc' = "idle"
  /\ UNCHANGED <<vars, round, stored, late>>

(* A query, a registration that fails, or a client that is given up.       *)
EndServing ==
  /\ hostPc = "serving"
  /\ hostPc' = "idle"
  /\ UNCHANGED <<vars, keys, round, stored, registrations, late>>

(* handle_fmd: RequiredBlocks, then get_height on each of the heights in   *)
(* order, then synced_to and RequestedFlags, then update_indices.          *)
BeginFmd ==
  /\ hostPc = "idle" /\ ~Interrupted
  /\ BlockRequests # {}
  /\ unread' = BlockRequests
  /\ hostPc' = "reading"
  /\ UNCHANGED <<vars, keys, flags, results, stored, registrations, late>>

Rows(h) == {n \in Notes : n[1] = h /\ txs[n] > 0}

ReadHeight(h) ==
  /\ hostPc = "reading"
  /\ h \in unread /\ \A g \in unread : h <= g
  /\ unread' = unread \ {h}
  /\ flags' = flags \cup {<<n, NoFlag>> : n \in Rows(h)}
  /\ UNCHANGED <<vars, keys, hostPc, results, stored, registrations, late>>

(* The rows that a key passes over: they were not in the table when their  *)
(* height was read, and the height counts as synced now.                   *)
PassedOver(s) ==
  {n \in Notes : n[1] \in BlockRequests /\ n[1] <= s /\ <<n, NoFlag>> \notin flags}

(* Mutant: the height the fetcher is working on is taken for complete.     *)
MutHostSyncedTo == syncedTo + 1

HostSyncedTo == syncedTo

(* Mutant: the rows of this round are sent again in the next.              *)
MutSendFlags ==
  /\ hostPc = "reading" /\ unread = {}
  /\ CheckFlags(HostSyncedTo, flags)
  /\ results' = FmdResults(HostSyncedTo, flags)
  /\ late' = late \cup PassedOver(HostSyncedTo)
  /\ hostPc' = "storing"
  /\ UNCHANGED <<vars, unread, flags, stored, registrations>>

SendFlags ==
  /\ hostPc = "reading" /\ unread = {}
  /\ CheckFlags(HostSyncedTo, flags)
  /\ results' = FmdResults(HostSyncedTo, flags)
  /\ late' = late \cup PassedOver(HostSyncedTo)
  /\ flags' = {}
  /\ hostPc' = "storing"
  /\ UNCHANGED <<vars, unread, stored, registrations>>

(* update_indices: the rows are replaced one by one, in the order of the   *)
(* keys.                                                                   *)
StoreResult(i) ==
  /\ hostPc = "storing"
  /\ i \in DOMAIN results /\ \A j \in DOMAIN results : i <= j
  /\ stored' = [o \in DOMAIN stored \cup {results[i].owner} |->
                  IF o = results[i].owner THEN Latest(results[i]) ELSE stored[o]]
  /\ results' = [j \in DOMAIN results \ {i} |-> results[j]]
  /\ UNCHANGED <<vars, keys, hostPc, unread, flags, registrations, late>>

EndFmd ==
  /\ hostPc = "storing" /\ DOMAIN results = {}
  /\ hostPc' = "idle"
  /\ UNCHANGED <<vars, keys, round, stored, registrations, late>>

-----------------------------------------------------------------------------
(* The interrupt, and DB::close, which waits for the fetcher's task.       *)
Interrupt ==
  /\ hostPc = "idle" /\ Interrupted
  /\ hostPc' = "closing"
  /\ UNCHANGED <<vars, keys, round, stored, registrations, late>>

(* Mutant: close does not wait for the fetcher's task.                     *)
MutClose ==
  /\ hostPc = "closing"
  /\ hostPc' = "down"
  /\ UNCHANGED <<vars, keys, round, stored, registrations, late>>

Close ==
  /\ hostPc = "closing" /\ pc = "stopped"
  /\ hostPc' = "down"
  /\ UNCHANGED <<vars, keys, round, stored, registrations, late>>

(* What a round has read and not stored is gone.                           *)
HostDown ==
  /\ hostPc' = "down"
  /\ unread' = {} /\ flags' = {} /\ results' = <<>>
  /\ UNCHANGED <<keys, stored, registrations, late>>

(* The host is killed, with its fetcher, wherever it is.                   *)
HostKilled == (hostPc # "down" \/ pc # "stopped") /\ Kill /\ HostDown

(* The main loop panics: on a table it cannot read or write, a lost        *)
(* connection to the enclave, or an answer a client does not take.  The    *)
(* runtime drops the fetcher's task, which writes its buffer to the table. *)
HostPanics ==
  /\ hostPc \in {"idle", "serving", "reading", "storing"}
  /\ Cancel
  /\ HostDown

(* The host is started again.  An enclave behind a serial port has kept    *)
(* its keys (tdx), one that ran beside the host has not (transparent).     *)
HostStart ==
  /\ hostPc = "down" /\ (Restart \/ RestartUnread)
  /\ hostPc' = "idle"
  /\ keys' \in {keys, <<>>}
  /\ UNCHANGED <<round, stored, registrations, late>>

-----------------------------------------------------------------------------
FetcherRuns ==
  /\ hostPc # "down" \/ pc = "unwind"
  /\ \/ Tasks \/ Steps \/ EndReceive \/ IndexerDown \/ Signal
     \/ FlushFails \/ DropFails \/ SaveFails
     \/ \E r \in fetches : TaskPanics(r)
  /\ UNCHANGED <<keys, hostVars, registrations, late>>

ChainGrows == ExtendChain /\ UNCHANGED <<keys, hostVars, registrations, late>>

HostSteps ==
  \/ BeginFmd \/ SendFlags \/ EndFmd \/ Interrupt \/ Close
  \/ \E h \in unread : ReadHeight(h)
  \/ \E i \in DOMAIN results : StoreResult(i)

ServiceNext ==
  \/ FetcherRuns \/ ChainGrows \/ HostSteps \/ HostKilled \/ HostPanics
  \/ HostStart \/ Accept \/ EndServing
  \/ \E o \in Owners, b \in Birthdays : Register(o, b)

ServiceSpec == ServiceInit /\ [][ServiceNext]_serviceVars

(* The runtime schedules the fetcher, while it can make a step, and the    *)
(* main loop of the host, while it does not serve a client: neither the    *)
(* end of a service (see KeyRegistration) nor that the fetcher hears of    *)
(* its last task (see Fetcher) can be relied on.                           *)
ServiceFairSpec ==
  /\ ServiceSpec
  /\ WF_serviceVars(HostSteps)
  /\ WF_serviceVars(Steps /\ FetcherRuns)
  /\ SF_serviceVars((\E r \in fetches : ReceiveFetched(r)) /\ FetcherRuns)

-----------------------------------------------------------------------------
(* The types of the variables of the host: a row of Indices holds          *)
(* transactions of the chain only, and the rows and results of a round do  *)
(* not outlive it (main.rs:232-272).                                       *)
ServiceTypeOK ==
  /\ EnclaveTypeOK
  /\ hostPc \in {"idle", "serving", "reading", "storing", "closing", "down"}
  /\ unread \in SUBSET Nat
  /\ flags \in SUBSET (Notes \X {NoFlag})
  /\ \A i \in DOMAIN results :
       results[i] \in [owner : Owners, indices : SUBSET Notes, height : Nat]
  /\ DOMAIN stored \subseteq Owners
  /\ \A o \in DOMAIN stored :
       stored[o] \in [indices : SUBSET Notes, height : Nat]
  /\ registrations \in Seq(Owners)
  /\ late \in SUBSET Notes
  /\ hostPc # "reading" => unread = {} /\ flags = {}
  /\ hostPc # "storing" => DOMAIN results = {}

(* FMD never passes the tip of the chain: a key is synced to a block that  *)
(* exists, or to its birthday, at whatever moment the fetcher published    *)
(* its height, also when the enclave has outlived the host (main.rs:256,   *)
(* fmd.rs:97-99).                                                          *)
NoScanAboveTip ==
  \A i \in DOMAIN keys :
    keys[i].syncedTo <= keys[i].birthday \/ keys[i].syncedTo <= tip

(* A key that has been synced past a transaction has it in its indices,    *)
(* unless the row came to the table after the host had read its height:    *)
(* nothing is lost between the rows the host reads and the keys, in any    *)
(* mix of keys at different heights (main.rs:249-257, fmd.rs:100-112).     *)
OnlyLateRowsAreMissed ==
  \A i \in DOMAIN keys : \A n \in Notes :
    keys[i].birthday < n[1] /\ n[1] <= keys[i].syncedTo =>
      n \in keys[i].indices \/ n \in late

(* Between two rounds the row of an owner in the table Indices is what the *)
(* enclave has found for one of the keys the owner registered, the whole   *)
(* of it, with a height that is not above the one the key is synced to and *)
(* at most one block behind it: across shutdowns and restarts of the host, *)
(* as long as it is not cut short in a round, and however often the owner  *)
(* registered (main.rs:260-271, db.rs:144-161, lib.rs:62-69).              *)
StoredIsCurrent ==
  hostPc \in {"idle", "serving"} /\ faults = 0 =>
    \A i \in DOMAIN keys :
      LET o == keys[i].owner
      IN  keys[i].birthday < keys[i].syncedTo =>
            /\ o \in DOMAIN stored
            /\ \E j \in DOMAIN keys :
                 /\ keys[j].owner = o
                 /\ stored[o].indices = keys[j].indices
                 /\ stored[o].height \in (keys[j].syncedTo - 1)..keys[j].syncedTo

RegisteredOnce(o) ==
  \E i \in DOMAIN registrations :
    /\ registrations[i] = o
    /\ \A j \in DOMAIN registrations : registrations[j] = o => j = i

(* What a client can download for an owner that registered once never gets *)
(* smaller or older, even if the host is killed between two rows of a      *)
(* round and the enclave is lost (db.rs:144-161, fmd.rs:100-120).          *)
StoredNeverRegresses ==
  [][\A o \in DOMAIN stored :
       RegisteredOnce(o)' =>
         /\ o \in DOMAIN stored'
         /\ stored[o].indices \subseteq stored'[o].indices
         /\ stored[o].height <= stored'[o].height]_serviceVars

(* Every key is brought to the height the fetcher has published, again and *)
(* again, unless the host stops or serves clients again and again, or one  *)
(* of them for ever (scheduler.rs:46-48 "defaults to performing FMD").     *)
KeysCatchUp ==
  []<>(\/ hostPc \in {"down", "serving"}
       \/ \A i \in DOMAIN keys : keys[i].syncedTo >= syncedTo)

(* A clean shutdown leaves nothing behind: when the host has exited, every *)
(* transaction of the blocks that fetcher.dat vouches for is in the table  *)
(* (db.rs:192-197, db.rs:211-218).                                         *)
CleanShutdownPersists ==
  hostPc = "down" /\ faults = 0 =>
    \A n \in Notes : n[1] \in fetcherDat => txs[n] = 1

(* A host that is told to shut down does, unless it serves a client for    *)
(* ever or its fetcher misses the end of its last task (main.rs:98-101).   *)
HostStops ==
  \/ shutdownSignal ~> hostPc = "down"
  \/ <>[](hostPc = "serving")
  \/ <>[]NeverWoken

(* A key detects every transaction of the blocks it is synced past: all    *)
(* rows lack a flag and count as detected (README.md:18 "it should detect  *)
(* all transactions relevant to a user").                                  *)
NoMissedNote ==
  \A i \in DOMAIN keys : \A n \in Notes :
    keys[i].birthday < n[1] /\ n[1] <= keys[i].syncedTo => n \in keys[i].indices
=============================================================================
