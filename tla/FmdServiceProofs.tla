-------------------------- MODULE FmdServiceProofs --------------------------
(***************************************************************************)
(* The service as a whole, for any chain, any number of owners and         *)
(* registrations, and any number of restarts and faults: the fetcher runs  *)
(* in it as it runs alone, and what FMD does to the keys is safe.          *)
(***************************************************************************)
EXTENDS FmdService, FetcherProofs

-----------------------------------------------------------------------------
(* The enclave alone, for any number of keys, any birthdays and any flags  *)
(* the host may send.                                                      *)

EnclaveInv == EnclaveTypeOK /\ IndicesInRange

(* The indices found for a key are of its next height.                     *)
LEMMA DetectionsAreNext ==
  ASSUME NEW k \in Key, NEW rows \in SUBSET Row
  PROVE  /\ Detections(k, rows) \in SUBSET (Nat \X Nat)
         /\ \A n \in Detections(k, rows) : n[1] = NextHeight(k)
BY DEF Detections, Row, Key

(* A scanned key is a key one block ahead, with its indices in range.      *)
LEMMA ScanKeepsRange ==
  ASSUME NEW k \in Key, NEW rows \in SUBSET Row,
         k.birthday <= k.syncedTo,
         \A n \in k.indices : k.birthday <= n[1] /\ n[1] <= k.syncedTo
  PROVE  LET s == Scan(k, rows)
         IN  /\ s \in Key
             /\ s.owner = k.owner /\ s.birthday = k.birthday
             /\ s.syncedTo = k.syncedTo + 1
             /\ k.indices \subseteq s.indices
             /\ s.birthday <= s.syncedTo
             /\ \A n \in s.indices : s.birthday <= n[1] /\ n[1] <= s.syncedTo
<1>. DEFINE s == Scan(k, rows)
<1>1. /\ k.owner \in Owners /\ k.birthday \in Nat /\ k.syncedTo \in Nat
      /\ k.indices \in SUBSET (Nat \X Nat)
  BY DEF Key
<1>2. /\ s.owner = k.owner /\ s.birthday = k.birthday
      /\ s.syncedTo = k.syncedTo + 1
  BY DEF Scan, NextHeight, Key
<1>3. s.indices = k.indices \cup Detections(k, rows)
  BY DEF Scan, Key
<1>4. s \in Key
  <2>1. k.indices \cup Detections(k, rows) \in SUBSET (Nat \X Nat)
    BY <1>1, DetectionsAreNext
  <2>2. k.syncedTo + 1 \in Nat
    BY <1>1
  <2>. QED
    BY <2>1, <2>2 DEF Scan, NextHeight, Key
<1>5. \A n \in s.indices : s.birthday <= n[1] /\ n[1] <= s.syncedTo
  <2>. TAKE n \in s.indices
  <2>1. n \in Nat \X Nat
    BY <1>1, <1>3, DetectionsAreNext
  <2>2. CASE n \in k.indices
    BY <1>1, <1>2, <2>1, <2>2
  <2>3. CASE n \in Detections(k, rows)
    BY <1>1, <1>2, <2>1, <2>3, DetectionsAreNext DEF NextHeight
  <2>. QED
    BY <1>3, <2>2, <2>3
<1>. QED
  BY <1>1, <1>2, <1>3, <1>4, <1>5

(* What every registered key keeps in a check of the host's flags: it is   *)
(* scanned, or left as it is.                                              *)
LEMMA CheckFlagsKeepsRange ==
  ASSUME EnclaveInv, NEW s \in Nat, NEW rows \in SUBSET Row,
         CheckFlags(s, rows)
  PROVE  EnclaveInv'
<1>1. keys \in Seq(Key)
  BY DEF EnclaveInv, EnclaveTypeOK
<1>2. \A i \in DOMAIN keys :
        /\ keys[i] \in Key
        /\ keys[i].birthday <= keys[i].syncedTo
        /\ \A n \in keys[i].indices :
             keys[i].birthday <= n[1] /\ n[1] <= keys[i].syncedTo
  BY <1>1 DEF EnclaveInv, IndicesInRange
<1>3. DOMAIN keys' = DOMAIN keys
  BY DEF CheckFlags
<1>4. \A i \in DOMAIN keys :
        keys'[i] = keys[i] \/ keys'[i] = Scan(keys[i], rows)
  BY DEF CheckFlags
<1>5. \A i \in DOMAIN keys :
        /\ keys'[i] \in Key
        /\ keys'[i].birthday <= keys'[i].syncedTo
        /\ \A n \in keys'[i].indices :
             keys'[i].birthday <= n[1] /\ n[1] <= keys'[i].syncedTo
  <2>. TAKE i \in DOMAIN keys
  <2>1. CASE keys'[i] = keys[i]
    BY <1>2, <2>1
  <2>2. CASE keys'[i] = Scan(keys[i], rows)
    BY <1>2, <2>2, ScanKeepsRange
  <2>. QED
    BY <1>4, <2>1, <2>2
<1>6. keys' \in Seq(Key)
  <2>1. DOMAIN keys = 1..Len(keys) /\ Len(keys) \in Nat
    BY <1>1
  <2>2. keys' = [i \in 1..Len(keys) |-> keys'[i]]
    BY <1>3, <2>1 DEF CheckFlags
  <2>. QED
    BY <1>3, <1>5, <2>1, <2>2
<1>. QED
  BY <1>3, <1>5, <1>6 DEF EnclaveInv, EnclaveTypeOK, IndicesInRange

(* A new key is synced to its birthday and has no indices.                 *)
LEMMA RegisterKeyKeepsRange ==
  ASSUME EnclaveInv, NEW o \in Owners, NEW b \in Nat \cup {NoBirthday},
         RegisterKey(o, b)
  PROVE  EnclaveInv'
<1>. DEFINE k == [owner |-> o, birthday |-> Birthday(b),
                  syncedTo |-> Birthday(b), indices |-> {}]
<1>1. Birthday(b) \in Nat
  BY DEF Birthday
<1>2. k \in Key
  BY <1>1 DEF Key
<1>3. keys \in Seq(Key) /\ keys' = Append(keys, k)
  BY DEF EnclaveInv, EnclaveTypeOK, RegisterKey, NewKey
<1>. HIDE DEF k
<1>4. keys' \in Seq(Key)
  BY <1>2, <1>3
<1>5. \A i \in DOMAIN keys' : keys'[i] = k \/ (i \in DOMAIN keys /\ keys'[i] = keys[i])
  BY <1>2, <1>3
<1>6. k.birthday = k.syncedTo /\ k.syncedTo \in Nat /\ k.indices = {}
  BY <1>1 DEF k
<1>. QED
  BY <1>4, <1>5, <1>6 DEF EnclaveInv, EnclaveTypeOK, IndicesInRange

(* The invariant of the enclave holds, whatever the host sends.            *)
LEMMA EnclaveInvariance == EnclaveSpec => []EnclaveInv
<1>1. EnclaveInit => EnclaveInv
  BY DEF EnclaveInit, EnclaveInv, EnclaveTypeOK, IndicesInRange
<1>2. EnclaveInv /\ [EnclaveNext]_keys => EnclaveInv'
  <2>. SUFFICES ASSUME EnclaveInv, [EnclaveNext]_keys PROVE EnclaveInv'
    OBVIOUS
  <2>1. CASE \E o \in Owners, b \in Nat \cup {NoBirthday} : RegisterKey(o, b)
    BY <2>1, RegisterKeyKeepsRange
  <2>2. CASE \E s \in Nat, rows \in SUBSET Row : CheckFlags(s, rows)
    BY <2>2, CheckFlagsKeepsRange
  <2>3. CASE UNCHANGED keys
    BY <2>3 DEF EnclaveInv, EnclaveTypeOK, IndicesInRange
  <2>. QED
    BY <2>1, <2>2, <2>3 DEF EnclaveNext
<1>. QED
  BY <1>1, <1>2, PTL DEF EnclaveSpec

(* The indices of a key are of heights scanned for it, whatever the host   *)
(* sends (fmd.rs:100-119).                                                 *)
THEOREM IndicesStayInRange == EnclaveSpec => []IndicesInRange
<1>1. EnclaveInv => IndicesInRange
  BY DEF EnclaveInv
<1>. QED
  BY <1>1, EnclaveInvariance, PTL

-----------------------------------------------------------------------------
(* The service implements the fetcher: what the host does between the      *)
(* steps of the fetcher is a stutter of it.                                *)
LEMMA ServiceStepIsFetcherStep == [ServiceNext]_serviceVars => [Next]_vars
<1>. SUFFICES ASSUME [ServiceNext]_serviceVars PROVE [Next]_vars
  OBVIOUS
<1>1. CASE FetcherRuns
  BY <1>1 DEF FetcherRuns, Next, Environment, Faults
<1>2. CASE ChainGrows
  BY <1>2 DEF ChainGrows, Next, Environment
<1>3. CASE HostSteps
  BY <1>3 DEF HostSteps, BeginFmd, SendFlags, StoreResult, EndFmd, Interrupt,
              Close, ReadHeight
<1>4. CASE HostKilled \/ HostPanics
  BY <1>4 DEF HostKilled, HostPanics, Next, Faults
<1>5. CASE HostStart
  BY <1>5 DEF HostStart, Next, Faults
<1>6. CASE Accept \/ EndServing \/ \E o \in Owners, b \in Birthdays : Register(o, b)
  BY <1>6 DEF Accept, EndServing, Register
<1>7. CASE UNCHANGED serviceVars
  BY <1>7 DEF serviceVars
<1>. QED
  BY <1>1, <1>2, <1>3, <1>4, <1>5, <1>6, <1>7 DEF ServiceNext

(* The fetcher in the service behaves as the fetcher alone, so that all    *)
(* that is proved of it holds in the service (db.rs:181-201).              *)
THEOREM ServiceImplementsFetcher == ServiceSpec => Spec
<1>1. ServiceInit => Init
  BY DEF ServiceInit
<1>. QED
  BY <1>1, ServiceStepIsFetcherStep, PTL DEF ServiceSpec, Spec

-----------------------------------------------------------------------------
(* How a step of the service changes the registered keys.                  *)
FlagsTyped == flags \in SUBSET (Notes \X {NoFlag})

(* The rows of a round are rows that the enclave may be sent.              *)
LEMMA FlagsAreRows ==
  ASSUME TypeOK, FlagsTyped
  PROVE  flags \in SUBSET Row /\ HostSyncedTo \in Nat
<1>1. \A n \in Notes : n \in Nat \X Nat
  BY FetcherAssumption
<1>. QED
  BY <1>1 DEF FlagsTyped, Row, HostSyncedTo, TypeOK

(* The registered keys change when the host loses them, when a client      *)
(* registers, and when the host sends the rows of a round.                 *)
LEMMA KeysStep ==
  ASSUME TypeOK, FlagsTyped, [ServiceNext]_serviceVars
  PROVE  \/ UNCHANGED keys
         \/ keys' = <<>>
         \/ \E o \in Owners, b \in Nat \cup {NoBirthday} :
              RegisterKey(o, b) /\ UNCHANGED <<tip, late>>
         \/ SendFlags
<1>1. CASE FetcherRuns
  BY <1>1 DEF FetcherRuns
<1>2. CASE ChainGrows
  BY <1>2 DEF ChainGrows
<1>3. CASE HostSteps
  BY <1>3 DEF HostSteps, BeginFmd, StoreResult, EndFmd, Interrupt, Close,
              ReadHeight
<1>4. CASE HostKilled \/ HostPanics
  BY <1>4 DEF HostKilled, HostPanics, HostDown
<1>5. CASE HostStart
  BY <1>5 DEF HostStart
<1>6. CASE \E o \in Owners, b \in Birthdays : Register(o, b)
  BY <1>6, ServiceAssumption DEF Register, vars
<1>7. CASE Accept \/ EndServing \/ UNCHANGED serviceVars
  BY <1>7 DEF Accept, EndServing, serviceVars
<1>. QED
  BY <1>1, <1>2, <1>3, <1>4, <1>5, <1>6, <1>7 DEF ServiceNext

(* The rows of a round are rows of the chain, whatever happens.            *)
LEMMA FlagsStep ==
  ASSUME FlagsTyped, [ServiceNext]_serviceVars
  PROVE  FlagsTyped'
<1>1. CASE FetcherRuns
  BY <1>1 DEF FetcherRuns, hostVars, round, FlagsTyped
<1>2. CASE ChainGrows
  BY <1>2 DEF ChainGrows, hostVars, round, FlagsTyped
<1>3. CASE HostSteps
  <2>1. CASE \E h \in unread : ReadHeight(h)
    BY <2>1 DEF ReadHeight, Rows, FlagsTyped
  <2>2. CASE BeginFmd \/ SendFlags \/ EndFmd \/ Interrupt \/ Close
    BY <2>2 DEF BeginFmd, SendFlags, EndFmd, Interrupt, Close, round, FlagsTyped
  <2>3. CASE \E i \in DOMAIN results : StoreResult(i)
    BY <2>3 DEF StoreResult, FlagsTyped
  <2>. QED
    BY <1>3, <2>1, <2>2, <2>3 DEF HostSteps
<1>4. CASE HostKilled \/ HostPanics
  BY <1>4 DEF HostKilled, HostPanics, HostDown, FlagsTyped
<1>5. CASE HostStart
  BY <1>5 DEF HostStart, round, FlagsTyped
<1>6. CASE \E o \in Owners, b \in Birthdays : Register(o, b)
  BY <1>6 DEF Register, round, FlagsTyped
<1>7. CASE Accept \/ EndServing \/ UNCHANGED serviceVars
  BY <1>7 DEF Accept, EndServing, serviceVars, hostVars, round, FlagsTyped
<1>. QED
  BY <1>1, <1>2, <1>3, <1>4, <1>5, <1>6, <1>7 DEF ServiceNext

-----------------------------------------------------------------------------
(* What the fetcher publishes is never above the tip of the chain.         *)
PublishedBelowTip == syncedTo <= tip

(* The height that the fetcher publishes stays below the tip.              *)
LEMMA PublishedStep ==
  ASSUME TypeOK, TypeOK', PublishedBelowTip, [Next]_vars
  PROVE  PublishedBelowTip' /\ tip <= tip'
<1>1. tip \in Nat /\ 1 <= tip /\ syncedTo \in Nat /\ syncedTo <= tip
  BY FetcherAssumption DEF TypeOK, Blocks, PublishedBelowTip
<1>2. CASE UNCHANGED <<tip, syncedTo>>
  BY <1>1, <1>2 DEF PublishedBelowTip
<1>3. CASE ExtendChain
  BY <1>1, <1>3 DEF ExtendChain, memory, PublishedBelowTip
<1>4. CASE Restart \/ RestartUnread
  BY <1>1, <1>4 DEF Restart, RestartUnread, Start, PublishedBelowTip
<1>5. ASSUME NEW r \in fetches, ReceiveFetched(r)
      PROVE  PublishedBelowTip' /\ tip <= tip'
  <2>1. tip' = tip /\ syncedTo' = First(fetched') - 1
    BY <1>5 DEF ReceiveFetched
  <2>2. fetched' \in SUBSET (1..tip)
    BY <2>1 DEF TypeOK
  <2>3. First(fetched') \in 1..(tip + 1)
    BY <1>1, <2>2, FirstProperty
  <2>. QED
    BY <1>1, <2>1, <2>3 DEF PublishedBelowTip
<1>6. ASSUME NEW r \in fetches, TaskSeesShutdown(r) \/ ReceiveError(r)
      PROVE  UNCHANGED <<tip, syncedTo>>
  BY <1>6 DEF TaskSeesShutdown, ReceiveError
<1>7. CASE Signal \/ IndexerDown
  BY <1>2, <1>7 DEF Signal, IndexerDown, memory
<1>8. CASE Steps \/ EndReceive
  <2>1. UNCHANGED <<tip, syncedTo>>
    BY <1>8 DEF Steps, StopRequested, AlreadySynced, SpawnFetches, Wait,
                EndReceive, Wake, ExtendWal, EndFlush, Save, Stop, FlushRow,
                DropRow, memory
  <2>. QED
    BY <1>2, <2>1
<1>9. CASE Faults
  BY <1>2, <1>4, <1>9 DEF Faults, Kill, FlushFails, DropFails, Cancel, SaveFails,
                          Unwind, TaskPanics
<1>10. CASE UNCHANGED vars
  BY <1>2, <1>10 DEF vars, memory
<1>. QED
  BY <1>2, <1>3, <1>4, <1>5, <1>6, <1>7, <1>8, <1>9, <1>10
     DEF Next, Environment, Tasks

-----------------------------------------------------------------------------
(* The invariant of the keys.                                              *)
ServiceInv ==
  /\ FlagsTyped
  /\ PublishedBelowTip
  /\ EnclaveInv
  /\ NoScanAboveTip
  /\ OnlyLateRowsAreMissed

(* A check of the flags moves each key that lags by one block, and no      *)
(* further than the published height.                                      *)
LEMMA SendFlagsMoves ==
  ASSUME TypeOK, FlagsTyped, EnclaveInv, SendFlags
  PROVE  /\ EnclaveInv' /\ DOMAIN keys' = DOMAIN keys
         /\ \A i \in DOMAIN keys :
              /\ keys[i] \in Key
              /\ \/ keys'[i] = keys[i]
                 \/ /\ keys[i].syncedTo < syncedTo
                    /\ keys'[i] = Scan(keys[i], flags)
                    /\ keys'[i].birthday = keys[i].birthday
                    /\ keys'[i].syncedTo = keys[i].syncedTo + 1
                    /\ keys[i].indices \subseteq keys'[i].indices
<1>1. flags \in SUBSET Row /\ HostSyncedTo \in Nat /\ CheckFlags(HostSyncedTo, flags)
  BY FlagsAreRows DEF SendFlags
<1>2. EnclaveInv'
  BY <1>1, CheckFlagsKeepsRange
<1>3. DOMAIN keys' = DOMAIN keys
  BY <1>1 DEF CheckFlags
<1>4. ASSUME NEW i \in DOMAIN keys
      PROVE  /\ keys[i] \in Key
             /\ \/ keys'[i] = keys[i]
                \/ /\ keys[i].syncedTo < syncedTo
                   /\ keys'[i] = Scan(keys[i], flags)
                   /\ keys'[i].birthday = keys[i].birthday
                   /\ keys'[i].syncedTo = keys[i].syncedTo + 1
                   /\ keys[i].indices \subseteq keys'[i].indices
  <2>1. keys[i] \in Key
    BY <1>4 DEF EnclaveInv, EnclaveTypeOK
  <2>2. \/ keys'[i] = keys[i]
        \/ keys[i].syncedTo < syncedTo /\ keys'[i] = Scan(keys[i], flags)
    BY <1>1, <1>4 DEF CheckFlags, Lags, HostSyncedTo
  <2>3. /\ keys[i].birthday <= keys[i].syncedTo
        /\ \A n \in keys[i].indices :
             keys[i].birthday <= n[1] /\ n[1] <= keys[i].syncedTo
    BY <1>4 DEF EnclaveInv, IndicesInRange
  <2>4. LET s == Scan(keys[i], flags)
        IN  /\ s.birthday = keys[i].birthday
            /\ s.syncedTo = keys[i].syncedTo + 1
            /\ keys[i].indices \subseteq s.indices
    BY <1>1, <2>1, <2>3, ScanKeepsRange
  <2>. QED
    BY <2>1, <2>2, <2>4
<1>. QED
  BY <1>2, <1>3, <1>4

(* A scan at or below the published height stays below the tip.            *)
LEMMA NoScanAboveTipStep ==
  ASSUME TypeOK, FlagsTyped, PublishedBelowTip, EnclaveInv, NoScanAboveTip,
         TypeOK', [ServiceNext]_serviceVars
  PROVE  NoScanAboveTip'
<1>1. tip \in Nat /\ tip' \in Nat /\ tip <= tip' /\ syncedTo \in Nat
      /\ syncedTo <= tip
  BY ServiceStepIsFetcherStep, PublishedStep, FetcherAssumption
     DEF TypeOK, Blocks, PublishedBelowTip
<1>2. \A i \in DOMAIN keys : keys[i] \in Key
  BY DEF EnclaveInv, EnclaveTypeOK
<1>3. CASE UNCHANGED keys
  <2>1. \A i \in DOMAIN keys : keys[i].syncedTo \in Nat
    BY <1>2 DEF Key
  <2>. QED
    BY <1>1, <1>3, <2>1 DEF NoScanAboveTip
<1>4. CASE keys' = <<>>
  BY <1>4 DEF NoScanAboveTip
<1>5. ASSUME NEW o \in Owners, NEW b \in Nat \cup {NoBirthday},
             RegisterKey(o, b), UNCHANGED <<tip, late>>
      PROVE  NoScanAboveTip'
  <2>. DEFINE k == [owner |-> o, birthday |-> Birthday(b),
                    syncedTo |-> Birthday(b), indices |-> {}]
  <2>1. keys \in Seq(Key) /\ keys' = Append(keys, k)
    BY <1>5 DEF RegisterKey, NewKey, EnclaveInv, EnclaveTypeOK
  <2>2. Birthday(b) \in Nat
    BY DEF Birthday
  <2>3. k.syncedTo <= k.birthday
    BY <2>2
  <2>. HIDE DEF k
  <2>4. \A i \in DOMAIN keys' : keys'[i] = k \/ (i \in DOMAIN keys /\ keys'[i] = keys[i])
    BY <2>1
  <2>. QED
    BY <1>5, <2>3, <2>4 DEF NoScanAboveTip
<1>6. CASE SendFlags
  <2>1. tip' = tip
    BY <1>6 DEF SendFlags, vars
  <2>2. ASSUME NEW i \in DOMAIN keys
        PROVE  keys'[i].syncedTo <= keys'[i].birthday \/ keys'[i].syncedTo <= tip
    <3>1. keys[i].syncedTo \in Nat
      BY <1>2, <2>2 DEF Key
    <3>2. CASE keys'[i] = keys[i]
      BY <2>2, <3>2 DEF NoScanAboveTip
    <3>3. CASE keys[i].syncedTo < syncedTo /\ keys'[i].syncedTo = keys[i].syncedTo + 1
      BY <1>1, <3>1, <3>3
    <3>. QED
      BY <1>6, <2>2, <3>2, <3>3, SendFlagsMoves
  <2>. QED
    BY <1>6, <2>1, <2>2, SendFlagsMoves DEF NoScanAboveTip
<1>. QED
  BY <1>3, <1>4, <1>5, <1>6, KeysStep

(* A key that moves past a height has detected its rows, or they are late. *)
LEMMA LateStep ==
  ASSUME TypeOK, FlagsTyped, EnclaveInv, OnlyLateRowsAreMissed,
         [ServiceNext]_serviceVars
  PROVE  OnlyLateRowsAreMissed'
<1>1. \A n \in Notes : n \in Nat \X Nat
  BY FetcherAssumption
<1>2. \A i \in DOMAIN keys : keys[i] \in Key
  BY DEF EnclaveInv, EnclaveTypeOK
<1>3. late \subseteq late'
  BY DEF ServiceNext, FetcherRuns, ChainGrows, HostSteps, BeginFmd, SendFlags,
         StoreResult, EndFmd, Interrupt, Close, ReadHeight, HostKilled,
         HostPanics, HostDown, HostStart, Accept, EndServing, Register,
         serviceVars
<1>4. CASE UNCHANGED keys
  BY <1>3, <1>4 DEF OnlyLateRowsAreMissed
<1>5. CASE keys' = <<>>
  BY <1>5 DEF OnlyLateRowsAreMissed
<1>6. ASSUME NEW o \in Owners, NEW b \in Nat \cup {NoBirthday},
             RegisterKey(o, b), UNCHANGED <<tip, late>>
      PROVE  OnlyLateRowsAreMissed'
  <2>. DEFINE k == [owner |-> o, birthday |-> Birthday(b),
                    syncedTo |-> Birthday(b), indices |-> {}]
  <2>1. keys \in Seq(Key) /\ keys' = Append(keys, k)
    BY <1>6 DEF RegisterKey, NewKey, EnclaveInv, EnclaveTypeOK
  <2>2. k.syncedTo = k.birthday /\ k.birthday \in Nat
    BY DEF Birthday
  <2>. HIDE DEF k
  <2>3. \A i \in DOMAIN keys' : keys'[i] = k \/ (i \in DOMAIN keys /\ keys'[i] = keys[i])
    BY <2>1
  <2>. QED
    BY <1>1, <1>6, <2>2, <2>3 DEF OnlyLateRowsAreMissed
<1>7. CASE SendFlags
  <2>. SUFFICES ASSUME NEW i \in DOMAIN keys, NEW n \in Notes,
                       keys'[i].birthday < n[1], n[1] <= keys'[i].syncedTo
                PROVE  n \in keys'[i].indices \/ n \in late'
    BY <1>7, SendFlagsMoves DEF OnlyLateRowsAreMissed
  <2>1. n \in Nat \X Nat /\ keys[i].syncedTo \in Nat /\ syncedTo \in Nat
    BY <1>1, <1>2 DEF Key, TypeOK
  <2>2. CASE keys'[i] = keys[i]
    BY <1>3, <2>2 DEF OnlyLateRowsAreMissed
  <2>3. CASE /\ keys[i].syncedTo < syncedTo
             /\ keys'[i] = Scan(keys[i], flags)
             /\ keys'[i].birthday = keys[i].birthday
             /\ keys'[i].syncedTo = keys[i].syncedTo + 1
             /\ keys[i].indices \subseteq keys'[i].indices
    <3>1. CASE n[1] <= keys[i].syncedTo
      BY <1>3, <2>3, <3>1 DEF OnlyLateRowsAreMissed
    <3>2. CASE ~(n[1] <= keys[i].syncedTo)
      <4>1. n[1] = NextHeight(keys[i]) /\ n[1] <= syncedTo
        BY <2>1, <2>3, <3>2 DEF NextHeight
      <4>2. CASE <<n, NoFlag>> \in flags
        <5>1. n \in Detections(keys[i], flags)
          BY <4>1, <4>2 DEF Detections
        <5>. QED
          BY <1>2, <2>3, <5>1 DEF Scan, Key
      <4>3. CASE <<n, NoFlag>> \notin flags
        <5>1. n[1] \in BlockRequests
          BY <4>1 DEF BlockRequests
        <5>. QED
          BY <1>7, <4>1, <4>3, <5>1 DEF SendFlags, PassedOver, HostSyncedTo
      <4>. QED
        BY <4>2, <4>3
    <3>. QED
      BY <3>1, <3>2
  <2>. QED
    BY <1>7, <2>2, <2>3, SendFlagsMoves
<1>. QED
  BY <1>4, <1>5, <1>6, <1>7, KeysStep

(* The keys stay well formed.                                              *)
LEMMA EnclaveInvStep ==
  ASSUME TypeOK, FlagsTyped, EnclaveInv, [ServiceNext]_serviceVars
  PROVE  EnclaveInv'
<1>1. CASE UNCHANGED keys
  BY <1>1 DEF EnclaveInv, EnclaveTypeOK, IndicesInRange
<1>2. CASE keys' = <<>>
  BY <1>2 DEF EnclaveInv, EnclaveTypeOK, IndicesInRange
<1>3. CASE \E o \in Owners, b \in Nat \cup {NoBirthday} :
             RegisterKey(o, b) /\ UNCHANGED <<tip, late>>
  BY <1>3, RegisterKeyKeepsRange
<1>4. CASE SendFlags
  BY <1>4, SendFlagsMoves
<1>. QED
  BY <1>1, <1>2, <1>3, <1>4, KeysStep

(* The invariant of the service holds.                                     *)
LEMMA ServiceInvariance == ServiceSpec => []ServiceInv
<1>1. ServiceInit => ServiceInv
  <2>. SUFFICES ASSUME ServiceInit PROVE ServiceInv
    OBVIOUS
  <2>1. FlagsTyped
    BY DEF ServiceInit, FlagsTyped
  <2>2. PublishedBelowTip
    BY FetcherAssumption DEF ServiceInit, Init, Blocks, PublishedBelowTip
  <2>3. EnclaveInv /\ NoScanAboveTip /\ OnlyLateRowsAreMissed
    BY DEF ServiceInit, EnclaveInit, EnclaveInv, EnclaveTypeOK, IndicesInRange,
           NoScanAboveTip, OnlyLateRowsAreMissed
  <2>. QED
    BY <2>1, <2>2, <2>3 DEF ServiceInv
<1>2. TypeOK /\ TypeOK' /\ ServiceInv /\ [ServiceNext]_serviceVars => ServiceInv'
  <2>. SUFFICES ASSUME TypeOK, TypeOK', ServiceInv, [ServiceNext]_serviceVars
                PROVE  ServiceInv'
    OBVIOUS
  <2>1. FlagsTyped /\ PublishedBelowTip /\ EnclaveInv /\ NoScanAboveTip
        /\ OnlyLateRowsAreMissed
    BY DEF ServiceInv
  <2>2. FlagsTyped'
    BY <2>1, FlagsStep
  <2>3. PublishedBelowTip'
    BY <2>1, ServiceStepIsFetcherStep, PublishedStep
  <2>4. EnclaveInv'
    BY <2>1, EnclaveInvStep
  <2>5. NoScanAboveTip'
    BY <2>1, NoScanAboveTipStep
  <2>6. OnlyLateRowsAreMissed'
    BY <2>1, LateStep
  <2>. QED
    BY <2>2, <2>3, <2>4, <2>5, <2>6 DEF ServiceInv
<1>3. ServiceSpec => []TypeOK
  BY ServiceImplementsFetcher, TypeCorrect
<1>. QED
  BY <1>1, <1>2, <1>3, PTL DEF ServiceSpec

(* FMD never passes the tip of the chain (main.rs:256, fmd.rs:97-99).      *)
THEOREM KeysStayBelowTip == ServiceSpec => []NoScanAboveTip
<1>1. ServiceInv => NoScanAboveTip
  BY DEF ServiceInv
<1>. QED
  BY <1>1, ServiceInvariance, PTL

(* A key misses only the rows that came after their height was read        *)
(* (main.rs:249-257, fmd.rs:100-112).                                      *)
THEOREM OnlyLateRowsMissed == ServiceSpec => []OnlyLateRowsAreMissed
<1>1. ServiceInv => OnlyLateRowsAreMissed
  BY DEF ServiceInv
<1>. QED
  BY <1>1, ServiceInvariance, PTL

(* The indices stay in range in the service, too (fmd.rs:100-119).         *)
THEOREM IndicesInRangeInService == ServiceSpec => []IndicesInRange
<1>1. ServiceInv => IndicesInRange
  BY DEF ServiceInv, EnclaveInv
<1>. QED
  BY <1>1, ServiceInvariance, PTL

-----------------------------------------------------------------------------
(* The table Indices, and what clients download from it.                   *)

(* What the enclave has found for a key, as a row of Indices.              *)
Found(k) == [owner |-> k.owner, indices |-> k.indices, height |-> k.syncedTo - 1]

KeysOfChain == \A i \in DOMAIN keys : keys[i].indices \subseteq Notes

ResultsAreFound ==
  \A i \in DOMAIN results :
    /\ i \in DOMAIN keys /\ keys[i].birthday < keys[i].syncedTo
    /\ results[i] = Found(keys[i])

(* The host goes down, and is started again.                               *)
Loses == results' = <<>> /\ faults' = faults + 1
         /\ UNCHANGED <<keys, stored, registrations>>

Starts == hostPc = "down" /\ hostPc' = "idle" /\ keys' \in {keys, <<>>}
          /\ UNCHANGED <<results, stored, registrations>>

(* How the keys, the results, the table and the history of registrations   *)
(* change together.                                                        *)
LEMMA StoreStep ==
  ASSUME [ServiceNext]_serviceVars
  PROVE  \/ UNCHANGED <<keys, results, stored, registrations>>
         \/ Loses
         \/ Starts
         \/ \E o \in Owners, b \in Nat \cup {NoBirthday} : Register(o, b)
         \/ SendFlags
         \/ \E i \in DOMAIN results : StoreResult(i)
<1>1. CASE FetcherRuns
  BY <1>1 DEF FetcherRuns, hostVars, round
<1>2. CASE ChainGrows
  BY <1>2 DEF ChainGrows, hostVars, round
<1>3. CASE HostSteps
  BY <1>3 DEF HostSteps, BeginFmd, EndFmd, Interrupt, Close, ReadHeight, round
<1>4. CASE HostKilled \/ HostPanics
  BY <1>4 DEF HostKilled, HostPanics, HostDown, Kill, Cancel, Fault, Loses
<1>5. CASE HostStart
  BY <1>5 DEF HostStart, round, Starts
<1>6. CASE \E o \in Owners, b \in Birthdays : Register(o, b)
  BY <1>6, ServiceAssumption
<1>7. CASE Accept \/ EndServing \/ UNCHANGED serviceVars
  BY <1>7 DEF Accept, EndServing, serviceVars, hostVars, round
<1>. QED
  BY <1>1, <1>2, <1>3, <1>4, <1>5, <1>6, <1>7 DEF ServiceNext

(* A step never takes a fault back.                                        *)
LEMMA FaultsStep ==
  ASSUME TypeOK, [ServiceNext]_serviceVars
  PROVE  faults \in Nat /\ (faults' = faults \/ faults' = faults + 1)
<1>1. faults \in Nat
  BY FetcherAssumption DEF TypeOK
<1>2. [Next]_vars
  BY ServiceStepIsFetcherStep
<1>3. CASE Faults
  BY <1>1, <1>3 DEF Faults, Kill, FlushFails, DropFails, Cancel, SaveFails, Fault,
                    RestartUnread, TaskPanics
<1>4. CASE Environment \/ Tasks
  BY <1>1, <1>4 DEF Environment, ExtendChain, Signal, IndexerDown, Tasks,
              TaskSeesShutdown, ReceiveFetched, ReceiveError, bounds
<1>5. CASE Steps \/ EndReceive
  BY <1>1, <1>5 DEF Steps, StopRequested, AlreadySynced, SpawnFetches, Wait, EndReceive,
              Wake, ExtendWal, EndFlush, Save, Stop, FlushRow, DropRow, bounds
<1>6. CASE Restart \/ UNCHANGED vars
  BY <1>1, <1>6 DEF Restart, vars, bounds
<1>. QED
  BY <1>1, <1>2, <1>3, <1>4, <1>5, <1>6 DEF Next

(* A registration adds a key that has found nothing yet.                   *)
LEMMA RegisterAppends ==
  ASSUME EnclaveInv, NEW o \in Owners, NEW b \in Nat \cup {NoBirthday},
         Register(o, b)
  PROVE  /\ hostPc = "serving"
         /\ keys' = Append(keys, NewKey(o, b)) /\ keys \in Seq(Key)
         /\ NewKey(o, b) \in Key
         /\ NewKey(o, b).birthday = NewKey(o, b).syncedTo
         /\ NewKey(o, b).owner = o /\ NewKey(o, b).indices = {}
         /\ DOMAIN keys' = DOMAIN keys \cup {Len(keys) + 1}
         /\ Len(keys) + 1 \notin DOMAIN keys
         /\ keys'[Len(keys) + 1] = NewKey(o, b)
         /\ \A i \in DOMAIN keys : keys'[i] = keys[i]
         /\ registrations' = Append(registrations, o)
         /\ UNCHANGED <<results, stored>>
<1>1. Birthday(b) \in Nat
  BY DEF Birthday
<1>2. /\ NewKey(o, b) \in Key
      /\ NewKey(o, b).birthday = NewKey(o, b).syncedTo
      /\ NewKey(o, b).owner = o /\ NewKey(o, b).indices = {}
  BY <1>1 DEF NewKey, Key
<1>3. /\ keys' = Append(keys, NewKey(o, b)) /\ hostPc = "serving"
      /\ registrations' = Append(registrations, o)
      /\ UNCHANGED <<results, stored>>
  BY DEF Register, RegisterKey, round
<1>4. keys \in Seq(Key)
  BY DEF EnclaveInv, EnclaveTypeOK
<1>. QED
  BY <1>2, <1>3, <1>4

(* The results of a round are what the enclave has found for the keys that *)
(* lagged; the other keys are as before.                                   *)
LEMMA SendFlagsResults ==
  ASSUME TypeOK, FlagsTyped, EnclaveInv, SendFlags
  PROVE  /\ DOMAIN keys' = DOMAIN keys /\ DOMAIN results' \subseteq DOMAIN keys
         /\ \A i \in DOMAIN keys :
              /\ keys'[i].owner = keys[i].owner
              /\ keys[i].indices \subseteq keys'[i].indices
              /\ keys[i].syncedTo <= keys'[i].syncedTo
              /\ i \notin DOMAIN results' => keys'[i] = keys[i]
         /\ \A i \in DOMAIN results' :
              /\ keys'[i].birthday < keys'[i].syncedTo
              /\ results'[i] = Found(keys'[i])
         /\ UNCHANGED <<stored, registrations>>
<1>1. flags \in SUBSET Row /\ HostSyncedTo \in Nat /\ syncedTo \in Nat
  BY FlagsAreRows DEF TypeOK
<1>2. /\ CheckFlags(HostSyncedTo, flags)
      /\ results' = FmdResults(HostSyncedTo, flags)
      /\ UNCHANGED <<stored, registrations>>
  BY DEF SendFlags
<1>3. /\ DOMAIN keys' = DOMAIN keys
      /\ DOMAIN results' = {j \in DOMAIN keys : Lags(keys[j], HostSyncedTo)}
  BY <1>2 DEF CheckFlags, FmdResults
<1>4. ASSUME NEW i \in DOMAIN keys
      PROVE  /\ keys'[i].owner = keys[i].owner
             /\ keys[i].indices \subseteq keys'[i].indices
             /\ keys[i].syncedTo <= keys'[i].syncedTo
             /\ i \notin DOMAIN results' => keys'[i] = keys[i]
             /\ i \in DOMAIN results' =>
                  /\ keys'[i].birthday < keys'[i].syncedTo
                  /\ results'[i] = Found(keys'[i])
  <2>1. keys[i] \in Key /\ keys[i].birthday <= keys[i].syncedTo
    BY <1>4 DEF EnclaveInv, EnclaveTypeOK, IndicesInRange
  <2>2. CASE Lags(keys[i], HostSyncedTo)
    <3>1. keys'[i] = Scan(keys[i], flags) /\ results'[i] = Response(keys[i], flags)
      BY <1>2, <1>3, <1>4, <2>2 DEF CheckFlags, FmdResults
    <3>2. /\ keys'[i].owner = keys[i].owner
          /\ keys'[i].birthday = keys[i].birthday
          /\ keys'[i].syncedTo = keys[i].syncedTo + 1
          /\ keys[i].indices \subseteq keys'[i].indices
      BY <2>1, <3>1 DEF Scan, NextHeight, Key
    <3>3. keys[i].syncedTo \in Nat /\ keys[i].birthday \in Nat
      BY <2>1 DEF Key
    <3>4. results'[i] = Found(keys'[i])
      <4>1. keys'[i].syncedTo - 1 = keys[i].syncedTo
        BY <3>2, <3>3
      <4>. QED
        BY <3>1, <3>2, <4>1 DEF Response, Found
    <3>. QED
      BY <1>3, <1>4, <2>1, <2>2, <3>2, <3>3, <3>4
  <2>3. CASE ~Lags(keys[i], HostSyncedTo)
    <3>1. keys'[i] = keys[i] /\ i \notin DOMAIN results'
      BY <1>2, <1>3, <1>4, <2>3 DEF CheckFlags
    <3>. QED
      BY <2>1, <3>1 DEF Key
  <2>. QED
    BY <2>2, <2>3
<1>. QED
  BY <1>2, <1>3, <1>4

(* The keys find transactions of the chain only, and the results of a      *)
(* round are what was found.                                               *)
LEMMA ResultsStep ==
  ASSUME TypeOK, FlagsTyped, EnclaveInv, KeysOfChain, ResultsAreFound,
         hostPc # "storing" => DOMAIN results = {},
         [ServiceNext]_serviceVars
  PROVE  KeysOfChain' /\ ResultsAreFound'
<1>1. CASE UNCHANGED <<keys, results, stored, registrations>>
  BY <1>1 DEF KeysOfChain, ResultsAreFound
<1>2. CASE Loses
  BY <1>2 DEF Loses, KeysOfChain, ResultsAreFound
<1>3. CASE Starts
  BY <1>3 DEF Starts, KeysOfChain, ResultsAreFound
<1>4. ASSUME NEW o \in Owners, NEW b \in Nat \cup {NoBirthday}, Register(o, b)
      PROVE  KeysOfChain' /\ ResultsAreFound'
  <2>1. DOMAIN results' = {}
    BY <1>4, RegisterAppends
  <2>2. \A i \in DOMAIN keys' : keys'[i].indices \subseteq Notes
    BY <1>4, RegisterAppends DEF KeysOfChain
  <2>. QED
    BY <2>1, <2>2 DEF KeysOfChain, ResultsAreFound
<1>5. CASE SendFlags
  <2>1. ASSUME NEW i \in DOMAIN keys
        PROVE  keys'[i].indices \subseteq Notes
    <3>1. keys[i] \in Key /\ keys[i].indices \subseteq Notes
      BY <2>1 DEF EnclaveInv, EnclaveTypeOK, KeysOfChain
    <3>2. Detections(keys[i], flags) \subseteq Notes
      BY DEF Detections, FlagsTyped
    <3>3. keys'[i] = keys[i] \/ keys'[i] = Scan(keys[i], flags)
      BY <1>5, <2>1, SendFlagsMoves
    <3>. QED
      BY <3>1, <3>2, <3>3 DEF Scan, Key
  <2>. QED
    BY <1>5, <2>1, SendFlagsResults DEF KeysOfChain, ResultsAreFound
<1>6. ASSUME NEW i \in DOMAIN results, StoreResult(i)
      PROVE  KeysOfChain' /\ ResultsAreFound'
  BY <1>6 DEF StoreResult, KeysOfChain, ResultsAreFound
<1>. QED
  BY <1>1, <1>2, <1>3, <1>4, <1>5, <1>6, StoreStep

(* The types of what the host holds.                                       *)
LEMMA ServiceTypeStep ==
  ASSUME TypeOK, FlagsTyped, EnclaveInv, ServiceTypeOK, KeysOfChain,
         ResultsAreFound, EnclaveInv', KeysOfChain', FlagsTyped', ResultsAreFound',
         [ServiceNext]_serviceVars
  PROVE  ServiceTypeOK'
<1>1. EnclaveTypeOK'
  BY DEF EnclaveInv
<1>2. \A i \in DOMAIN keys : NextHeight(keys[i]) \in Nat
  <2>1. \A i \in DOMAIN keys : keys[i] \in Key
    BY DEF EnclaveInv, EnclaveTypeOK
  <2>. QED
    BY <2>1 DEF Key, NextHeight
<1>3. BlockRequests \in SUBSET Nat
  BY <1>2 DEF BlockRequests
<1>4. ASSUME NEW i \in DOMAIN results'
      PROVE  results'[i] \in [owner : Owners, indices : SUBSET Notes, height : Nat]
  <2>1. /\ i \in DOMAIN keys' /\ keys'[i] \in Key /\ keys'[i].indices \subseteq Notes
        /\ keys'[i].birthday < keys'[i].syncedTo
        /\ results'[i] = Found(keys'[i])
    BY <1>4 DEF ResultsAreFound, KeysOfChain, EnclaveInv, EnclaveTypeOK
  <2>2. keys'[i].syncedTo - 1 \in Nat
    BY <2>1 DEF Key
  <2>. QED
    BY <2>1, <2>2 DEF Found, Key
<1>5. /\ DOMAIN stored' \subseteq Owners
      /\ \A o \in DOMAIN stored' : stored'[o] \in [indices : SUBSET Notes, height : Nat]
  <2>1. CASE UNCHANGED stored
    BY <2>1 DEF ServiceTypeOK
  <2>2. ASSUME NEW i \in DOMAIN results, StoreResult(i)
        PROVE  /\ DOMAIN stored' \subseteq Owners
               /\ \A o \in DOMAIN stored' :
                    stored'[o] \in [indices : SUBSET Notes, height : Nat]
    BY <2>2 DEF StoreResult, Latest, ServiceTypeOK
  <2>3. CASE \E o \in Owners, b \in Nat \cup {NoBirthday} : Register(o, b)
    BY <2>1, <2>3 DEF Register
  <2>4. CASE SendFlags \/ Loses \/ Starts
    BY <2>1, <2>4 DEF SendFlags, Loses, Starts
  <2>. QED
    BY <2>1, <2>2, <2>3, <2>4, StoreStep
<1>6. registrations' \in Seq(Owners)
  <2>1. CASE UNCHANGED registrations
    BY <2>1 DEF ServiceTypeOK
  <2>2. CASE \E o \in Owners, b \in Nat \cup {NoBirthday} : Register(o, b)
    BY <2>2 DEF Register, ServiceTypeOK
  <2>3. CASE SendFlags \/ Loses \/ Starts \/ \E i \in DOMAIN results : StoreResult(i)
    BY <2>1, <2>3 DEF SendFlags, Loses, Starts, StoreResult
  <2>. QED
    BY <2>1, <2>2, <2>3, StoreStep
<1>7. /\ hostPc' \in {"idle", "serving", "reading", "storing", "closing", "down"}
      /\ unread' \in SUBSET Nat /\ late' \in SUBSET Notes
      /\ hostPc' # "reading" => unread' = {} /\ flags' = {}
      /\ hostPc' # "storing" => DOMAIN results' = {}
  <2>. USE DEF ServiceTypeOK
  <2>1. CASE FetcherRuns \/ ChainGrows
    BY <2>1 DEF FetcherRuns, ChainGrows, hostVars, round
  <2>2. CASE BeginFmd \/ EndFmd \/ Interrupt \/ Close
    BY <1>3, <2>2 DEF BeginFmd, EndFmd, Interrupt, Close, round
  <2>3. CASE SendFlags
    BY <2>3 DEF SendFlags, PassedOver
  <2>4. ASSUME NEW h \in unread, ReadHeight(h)
        PROVE  /\ hostPc' = "reading" /\ unread' \in SUBSET Nat
               /\ UNCHANGED <<late, results>>
    BY <2>4 DEF ReadHeight
  <2>5. ASSUME NEW i \in DOMAIN results, StoreResult(i)
        PROVE  hostPc' = "storing" /\ UNCHANGED <<unread, flags, late, hostPc>>
    BY <2>5 DEF StoreResult
  <2>6. CASE HostKilled \/ HostPanics
    BY <2>6 DEF HostKilled, HostPanics, HostDown
  <2>7. CASE HostStart
    BY <2>7 DEF HostStart, round
  <2>8. CASE \E o \in Owners, b \in Birthdays : Register(o, b)
    BY <2>8 DEF Register, round
  <2>9. CASE Accept \/ EndServing \/ UNCHANGED serviceVars
    BY <2>9 DEF Accept, EndServing, serviceVars, hostVars, round
  <2>. QED
    BY <2>1, <2>2, <2>3, <2>4, <2>5, <2>6, <2>7, <2>8, <2>9
       DEF ServiceNext, HostSteps
<1>. QED
  BY <1>1, <1>4, <1>5, <1>6, <1>7 DEF ServiceTypeOK, FlagsTyped

-----------------------------------------------------------------------------
(* Without faults, the row of an owner is that of one of its keys, or a    *)
(* row of the round that is being stored will be.                          *)
IsPending(o) == \E j \in DOMAIN results : results[j].owner = o

IsStored(o) ==
  /\ o \in DOMAIN stored
  /\ \E j \in DOMAIN keys : keys[j].owner = o /\ stored[o] = Latest(Found(keys[j]))

StoredOrPending ==
  faults = 0 =>
    \A i \in DOMAIN keys :
      keys[i].birthday < keys[i].syncedTo =>
        IsStored(keys[i].owner) \/ IsPending(keys[i].owner)

(* A host that is down has been killed, or its fetcher has stopped.        *)
DownIsStopped == hostPc = "down" /\ faults = 0 => pc = "stopped"

(* A round leaves no key without its row.                                  *)
LEMMA StoredOrPendingStep ==
  ASSUME TypeOK, FlagsTyped, EnclaveInv, ServiceTypeOK, ResultsAreFound,
         StoredOrPending, [ServiceNext]_serviceVars
  PROVE  StoredOrPending'
<1>1. faults \in Nat /\ (faults' = 0 => faults = 0)
  BY FaultsStep
<1>2. CASE UNCHANGED <<keys, results, stored, registrations>>
  BY <1>1, <1>2 DEF StoredOrPending, IsStored, IsPending
<1>3. CASE Loses
  BY <1>1, <1>3 DEF Loses, StoredOrPending
<1>4. CASE Starts
  BY <1>1, <1>4 DEF Starts, StoredOrPending, IsStored, IsPending
<1>5. ASSUME NEW o \in Owners, NEW b \in Nat \cup {NoBirthday}, Register(o, b)
      PROVE  StoredOrPending'
  <2>. SUFFICES ASSUME faults' = 0, NEW i \in DOMAIN keys',
                       keys'[i].birthday < keys'[i].syncedTo
                PROVE  IsStored(keys[i].owner)' \/ IsPending(keys[i].owner)'
    BY DEF StoredOrPending
  <2>1. NewKey(o, b).birthday \in Nat /\ ~(NewKey(o, b).birthday < NewKey(o, b).syncedTo)
    BY <1>5, RegisterAppends DEF Key
  <2>2. i \in DOMAIN keys /\ keys'[i] = keys[i]
    BY <1>5, <2>1, RegisterAppends
  <2>3. IsStored(keys[i].owner) \/ IsPending(keys[i].owner)
    BY <1>1, <2>2 DEF StoredOrPending
  <2>4. UNCHANGED <<results, stored>> /\ DOMAIN keys \subseteq DOMAIN keys'
        /\ \A j \in DOMAIN keys : keys'[j] = keys[j]
    BY <1>5, RegisterAppends
  <2>. QED
    BY <2>2, <2>3, <2>4 DEF IsStored, IsPending
<1>6. CASE SendFlags
  <2>. SUFFICES ASSUME faults' = 0, NEW i \in DOMAIN keys',
                       keys'[i].birthday < keys'[i].syncedTo
                PROVE  IsStored(keys[i].owner)' \/ IsPending(keys[i].owner)'
    BY DEF StoredOrPending
  <2>1. i \in DOMAIN keys /\ keys'[i].owner = keys[i].owner
    BY <1>6, SendFlagsResults
  <2>2. CASE i \in DOMAIN results'
    <3>1. results'[i].owner = keys'[i].owner
      BY <1>6, <2>2, SendFlagsResults DEF Found
    <3>. QED
      BY <2>2, <3>1 DEF IsPending
  <2>3. CASE i \notin DOMAIN results'
    <3>1. keys'[i] = keys[i]
      BY <1>6, <2>1, <2>3, SendFlagsResults
    <3>2. DOMAIN results = {}
      BY <1>6 DEF SendFlags, ServiceTypeOK
    <3>3. IsStored(keys[i].owner)
      BY <1>1, <2>1, <3>1, <3>2 DEF StoredOrPending, IsPending
    <3>4. PICK j \in DOMAIN keys : /\ keys[j].owner = keys[i].owner
                                   /\ stored[keys[i].owner] = Latest(Found(keys[j]))
      BY <3>3 DEF IsStored
    <3>5. /\ j \in DOMAIN keys' /\ keys'[j].owner = keys[i].owner
          /\ UNCHANGED stored
          /\ j \notin DOMAIN results' => keys'[j] = keys[j]
          /\ j \in DOMAIN results' => results'[j] = Found(keys'[j])
      BY <1>6, <3>4, SendFlagsResults
    <3>6. CASE j \in DOMAIN results'
      <4>1. results'[j].owner = keys'[i].owner
        BY <2>1, <3>5, <3>6 DEF Found
      <4>. QED
        BY <3>6, <4>1 DEF IsPending
    <3>7. CASE j \notin DOMAIN results'
      BY <2>1, <3>3, <3>4, <3>5, <3>7 DEF IsStored
    <3>. QED
      BY <3>6, <3>7
  <2>. QED
    BY <2>2, <2>3
<1>7. ASSUME NEW r \in DOMAIN results, StoreResult(r)
      PROVE  StoredOrPending'
  <2>. SUFFICES ASSUME faults' = 0, NEW i \in DOMAIN keys',
                       keys'[i].birthday < keys'[i].syncedTo
                PROVE  IsStored(keys[i].owner)' \/ IsPending(keys[i].owner)'
    BY DEF StoredOrPending
  <2>. DEFINE o == keys[i].owner
  <2>1. /\ UNCHANGED keys /\ i \in DOMAIN keys
        /\ DOMAIN stored' = DOMAIN stored \cup {results[r].owner}
        /\ stored'[results[r].owner] = Latest(results[r])
        /\ \A p \in DOMAIN stored \ {results[r].owner} : stored'[p] = stored[p]
        /\ DOMAIN results' = DOMAIN results \ {r}
        /\ \A j \in DOMAIN results \ {r} : results'[j] = results[j]
    BY <1>7 DEF StoreResult
  <2>2. r \in DOMAIN keys /\ results[r] = Found(keys[r])
    BY DEF ResultsAreFound
  <2>3. IsStored(o) \/ IsPending(o)
    BY <1>1, <2>1 DEF StoredOrPending
  <2>4. CASE o = results[r].owner
    <3>1. keys[r].owner = o
      BY <2>2, <2>4 DEF Found
    <3>. QED
      BY <2>1, <2>2, <2>4, <3>1 DEF IsStored
  <2>5. CASE o # results[r].owner
    BY <2>1, <2>3, <2>5 DEF IsStored, IsPending
  <2>. QED
    BY <2>4, <2>5
<1>. QED
  BY <1>2, <1>3, <1>4, <1>5, <1>6, <1>7, StoreStep

(* A host is only down with its fetcher stopped, unless there was a fault. *)
LEMMA DownIsStoppedStep ==
  ASSUME IInv, IInv', DownIsStopped, [ServiceNext]_serviceVars
  PROVE  DownIsStopped'
<1>1. faults \in Nat /\ (faults' = faults \/ faults' = faults + 1)
  BY FaultsStep DEF IInv
<1>. SUFFICES ASSUME hostPc' = "down", faults' = 0
              PROVE  pc' = "stopped"
  BY DEF DownIsStopped
<1>2. faults = 0 /\ pc # "unwind"
  BY <1>1 DEF IInv, FileIsSaved
<1>3. CASE FetcherRuns
  BY <1>2, <1>3 DEF FetcherRuns, hostVars
<1>4. CASE ChainGrows
  BY <1>2, <1>4 DEF ChainGrows, hostVars, ExtendChain, DownIsStopped
<1>5. CASE HostSteps
  BY <1>2, <1>5 DEF HostSteps, BeginFmd, SendFlags, EndFmd, Interrupt, Close, ReadHeight,
                    StoreResult, vars, DownIsStopped
<1>6. CASE HostKilled \/ HostPanics
  BY <1>1, <1>2, <1>6 DEF HostKilled, HostPanics, Kill, Cancel, Fault
<1>7. CASE HostStart
  BY <1>7 DEF HostStart
<1>8. CASE Accept \/ EndServing \/ \E o \in Owners, b \in Birthdays : Register(o, b)
  BY <1>8 DEF Accept, EndServing, Register
<1>9. CASE UNCHANGED serviceVars
  BY <1>2, <1>9 DEF serviceVars, vars, hostVars, DownIsStopped
<1>. QED
  BY <1>3, <1>4, <1>5, <1>6, <1>7, <1>8, <1>9 DEF ServiceNext

-----------------------------------------------------------------------------
(* What the history of registrations says of the keys and of the table.    *)
HasRegistered(o) == \E r \in DOMAIN registrations : registrations[r] = o

OwnersHaveRegistered ==
  /\ \A i \in DOMAIN keys : HasRegistered(keys[i].owner)
  /\ \A o \in DOMAIN stored : HasRegistered(o)

OneKeyEach ==
  \A i, j \in DOMAIN keys :
    keys[i].owner = keys[j].owner /\ RegisteredOnce(keys[i].owner) => i = j

StoredBehind ==
  \A i \in DOMAIN keys :
    LET o == keys[i].owner
    IN  RegisteredOnce(o) /\ o \in DOMAIN stored =>
          /\ stored[o].indices \subseteq keys[i].indices
          /\ stored[o].height < keys[i].syncedTo

(* An owner that had registered before a registration, and has registered  *)
(* once after it, is another owner than the one that registers.            *)
LEMMA OtherOwners ==
  ASSUME registrations \in Seq(Owners), NEW o \in Owners,
         registrations' = Append(registrations, o),
         NEW p, HasRegistered(p)
  PROVE  HasRegistered(p)' /\ (RegisteredOnce(p)' => p # o /\ RegisteredOnce(p))
<1>. DEFINE last == Len(registrations) + 1
<1>1. /\ DOMAIN registrations' = DOMAIN registrations \cup {last}
      /\ last \notin DOMAIN registrations
      /\ registrations'[last] = o
      /\ \A i \in DOMAIN registrations : registrations'[i] = registrations[i]
  OBVIOUS
<1>. HIDE DEF last
<1>2. PICK r \in DOMAIN registrations : registrations[r] = p
  BY DEF HasRegistered
<1>3. ASSUME RegisteredOnce(p)' PROVE p # o /\ RegisteredOnce(p)
  <2>1. PICK i \in DOMAIN registrations' :
          /\ registrations'[i] = p
          /\ \A j \in DOMAIN registrations' : registrations'[j] = p => j = i
    BY <1>3 DEF RegisteredOnce
  <2>2. i = r
    BY <1>1, <1>2, <2>1
  <2>3. p # o
    BY <1>1, <1>2, <2>1, <2>2
  <2>. QED
    BY <1>1, <1>2, <2>1, <2>2, <2>3 DEF RegisteredOnce
<1>. QED
  BY <1>1, <1>2, <1>3 DEF HasRegistered

(* The owner that registers has registered afterwards.                     *)
LEMMA RegistersOwner ==
  ASSUME registrations \in Seq(Owners), NEW o \in Owners,
         registrations' = Append(registrations, o)
  PROVE  HasRegistered(o)'
<1>1. /\ Len(registrations) + 1 \in DOMAIN registrations'
      /\ registrations'[Len(registrations) + 1] = o
  OBVIOUS
<1>. QED
  BY <1>1 DEF HasRegistered

(* Keys and rows are of owners that registered.                            *)
LEMMA OwnersStep ==
  ASSUME TypeOK, FlagsTyped, EnclaveInv, ServiceTypeOK, ResultsAreFound,
         OwnersHaveRegistered, [ServiceNext]_serviceVars
  PROVE  OwnersHaveRegistered'
<1>. USE DEF OwnersHaveRegistered
<1>1. CASE UNCHANGED <<keys, results, stored, registrations>> \/ Loses
  BY <1>1 DEF Loses, HasRegistered
<1>2. CASE Starts
  BY <1>2 DEF Starts, HasRegistered
<1>3. ASSUME NEW o \in Owners, NEW b \in Nat \cup {NoBirthday}, Register(o, b)
      PROVE  OwnersHaveRegistered'
  <2>1. registrations \in Seq(Owners) /\ registrations' = Append(registrations, o)
    BY <1>3, RegisterAppends DEF ServiceTypeOK
  <2>2. ASSUME NEW p, HasRegistered(p) PROVE HasRegistered(p)'
    BY <2>1, <2>2, OtherOwners
  <2>3. HasRegistered(o)'
    BY <2>1, RegistersOwner
  <2>4. /\ stored' = stored
        /\ \A i \in DOMAIN keys' :
             \/ keys'[i].owner = o
             \/ i \in DOMAIN keys /\ keys'[i].owner = keys[i].owner
    BY <1>3, RegisterAppends
  <2>5. ASSUME NEW i \in DOMAIN keys' PROVE HasRegistered(keys[i].owner)'
    BY <2>2, <2>3, <2>4
  <2>. QED
    BY <2>2, <2>4, <2>5
<1>4. CASE SendFlags
  BY <1>4, SendFlagsResults DEF HasRegistered
<1>5. ASSUME NEW r \in DOMAIN results, StoreResult(r)
      PROVE  OwnersHaveRegistered'
  <2>1. HasRegistered(results[r].owner)
    BY DEF ResultsAreFound, Found
  <2>. QED
    BY <1>5, <2>1 DEF StoreResult, HasRegistered
<1>. QED
  BY <1>1, <1>2, <1>3, <1>4, <1>5, StoreStep

(* An owner that registered once has one key at most.                      *)
LEMMA OneKeyStep ==
  ASSUME TypeOK, FlagsTyped, EnclaveInv, ServiceTypeOK, OwnersHaveRegistered,
         OneKeyEach, [ServiceNext]_serviceVars
  PROVE  OneKeyEach'
<1>1. CASE UNCHANGED <<keys, registrations>>
  BY <1>1 DEF OneKeyEach, RegisteredOnce
<1>2. CASE Loses \/ \E r \in DOMAIN results : StoreResult(r)
  BY <1>1, <1>2 DEF Loses, StoreResult
<1>5. CASE Starts
  BY <1>1, <1>5 DEF Starts, OneKeyEach
<1>3. ASSUME NEW o \in Owners, NEW b \in Nat \cup {NoBirthday}, Register(o, b)
      PROVE  OneKeyEach'
  <2>. SUFFICES ASSUME NEW i \in DOMAIN keys', NEW j \in DOMAIN keys',
                       NEW p, p = keys'[i].owner, p = keys'[j].owner,
                       RegisteredOnce(p)'
                PROVE  i = j
    BY DEF OneKeyEach
  <2>. DEFINE last == Len(keys) + 1
  <2>1. registrations \in Seq(Owners) /\ registrations' = Append(registrations, o)
    BY <1>3, RegisterAppends DEF ServiceTypeOK
  <2>2. /\ DOMAIN keys' = DOMAIN keys \cup {last}
        /\ keys'[last].owner = o
        /\ \A k \in DOMAIN keys : keys'[k] = keys[k]
    BY <1>3, RegisterAppends
  <2>. HIDE DEF last
  <2>3. HasRegistered(p) => p # o /\ RegisteredOnce(p)
    BY <2>1, OtherOwners
  <2>4. CASE HasRegistered(p)
    <3>1. i \in DOMAIN keys /\ j \in DOMAIN keys /\ RegisteredOnce(p)
      BY <2>2, <2>3, <2>4
    <3>. QED
      BY <2>2, <3>1 DEF OneKeyEach
  <2>5. CASE ~HasRegistered(p)
    BY <2>2, <2>5 DEF OwnersHaveRegistered
  <2>. QED
    BY <2>4, <2>5
<1>4. CASE SendFlags
  BY <1>4, SendFlagsResults DEF OneKeyEach, RegisteredOnce
<1>. QED
  BY <1>1, <1>2, <1>3, <1>4, <1>5, StoreStep

(* The row of an owner that registered once is behind its key.             *)
LEMMA StoredBehindStep ==
  ASSUME TypeOK, FlagsTyped, EnclaveInv, ServiceTypeOK, ResultsAreFound,
         OwnersHaveRegistered, OneKeyEach, StoredBehind,
         [ServiceNext]_serviceVars
  PROVE  StoredBehind'
<1>1. CASE UNCHANGED <<keys, stored, registrations>>
  BY <1>1 DEF StoredBehind, RegisteredOnce
<1>2. CASE Loses \/ Starts
  BY <1>1, <1>2 DEF Loses, Starts, StoredBehind
<1>. SUFFICES ASSUME NEW i \in DOMAIN keys', NEW o, o = keys'[i].owner,
                     RegisteredOnce(o)', o \in DOMAIN stored',
                     ~Loses, ~Starts,
                     ~UNCHANGED <<keys, results, stored, registrations>>
              PROVE  /\ stored'[o].indices \subseteq keys'[i].indices
                     /\ stored'[o].height < keys'[i].syncedTo
  BY <1>1, <1>2 DEF StoredBehind
<1>3. ASSUME NEW p \in Owners, NEW b \in Nat \cup {NoBirthday}, Register(p, b)
      PROVE  /\ stored'[o].indices \subseteq keys'[i].indices
             /\ stored'[o].height < keys'[i].syncedTo
  <2>1. /\ registrations \in Seq(Owners) /\ registrations' = Append(registrations, p)
        /\ stored' = stored
    BY <1>3, RegisterAppends DEF ServiceTypeOK
  <2>2. o # p /\ RegisteredOnce(o)
    BY <2>1, OtherOwners DEF OwnersHaveRegistered
  <2>3. i \in DOMAIN keys /\ keys'[i] = keys[i]
    BY <1>3, <2>2, RegisterAppends
  <2>. QED
    BY <2>1, <2>2, <2>3 DEF StoredBehind
<1>4. CASE SendFlags
  <2>1. /\ i \in DOMAIN keys /\ keys'[i].owner = keys[i].owner
        /\ keys[i].indices \subseteq keys'[i].indices
        /\ keys[i].syncedTo <= keys'[i].syncedTo
        /\ UNCHANGED <<stored, registrations>>
    BY <1>4, SendFlagsResults
  <2>2. /\ stored[o].indices \subseteq keys[i].indices
        /\ stored[o].height < keys[i].syncedTo
    BY <2>1 DEF StoredBehind, RegisteredOnce
  <2>3. keys[i] \in Key /\ keys'[i] \in Key
    BY <1>4, <2>1, SendFlagsMoves DEF EnclaveInv, EnclaveTypeOK
  <2>4. keys[i].syncedTo \in Nat /\ keys'[i].syncedTo \in Nat
    BY <2>3 DEF Key
  <2>5. stored[o].height \in Nat
    BY <2>1 DEF ServiceTypeOK
  <2>. QED
    BY <2>1, <2>2, <2>4, <2>5
<1>5. ASSUME NEW r \in DOMAIN results, StoreResult(r)
      PROVE  /\ stored'[o].indices \subseteq keys'[i].indices
             /\ stored'[o].height < keys'[i].syncedTo
  <2>1. UNCHANGED <<keys, registrations>>
    BY <1>5 DEF StoreResult
  <2>2. RegisteredOnce(o)
    BY <2>1 DEF RegisteredOnce
  <2>3. CASE o = results[r].owner
    <3>1. r \in DOMAIN keys /\ results[r] = Found(keys[r])
      BY DEF ResultsAreFound
    <3>2. r = i
      BY <2>1, <2>2, <2>3, <3>1 DEF OneKeyEach, Found
    <3>3. stored'[o] = Latest(Found(keys[i]))
      BY <1>5, <2>3, <3>1, <3>2 DEF StoreResult
    <3>4. keys[i] \in Key
      BY <3>1, <3>2 DEF EnclaveInv, EnclaveTypeOK
    <3>5. keys[i].syncedTo \in Nat
      BY <3>4 DEF Key
    <3>. QED
      BY <2>1, <3>3, <3>5 DEF Latest, Found
  <2>4. CASE o # results[r].owner
    BY <1>5, <2>1, <2>2, <2>4 DEF StoreResult, StoredBehind
  <2>. QED
    BY <2>3, <2>4
<1>. QED
  BY <1>3, <1>4, <1>5, StoreStep

-----------------------------------------------------------------------------
(* The invariant of the table.                                             *)
StoreInv ==
  /\ ServiceTypeOK
  /\ KeysOfChain /\ ResultsAreFound
  /\ DownIsStopped /\ StoredOrPending
  /\ OwnersHaveRegistered /\ OneKeyEach /\ StoredBehind

(* The invariant of the table holds, next to those of the fetcher and of   *)
(* the keys.                                                               *)
LEMMA StoreInvariance == ServiceSpec => [](IInv /\ ServiceInv /\ StoreInv)
<1>1. ServiceInit => StoreInv
  <2>. SUFFICES ASSUME ServiceInit PROVE StoreInv
    OBVIOUS
  <2>1. ServiceTypeOK
    BY DEF ServiceInit, EnclaveInit, ServiceTypeOK, EnclaveTypeOK
  <2>2. KeysOfChain /\ ResultsAreFound /\ DownIsStopped /\ StoredOrPending
    BY DEF ServiceInit, EnclaveInit, KeysOfChain, ResultsAreFound,
           DownIsStopped, StoredOrPending
  <2>3. OwnersHaveRegistered /\ OneKeyEach /\ StoredBehind
    BY DEF ServiceInit, EnclaveInit, OwnersHaveRegistered, OneKeyEach,
           StoredBehind
  <2>. QED
    BY <2>1, <2>2, <2>3 DEF StoreInv
<1>2. /\ IInv /\ IInv' /\ ServiceInv /\ ServiceInv' /\ StoreInv
      /\ [ServiceNext]_serviceVars
      => StoreInv'
  <2>. SUFFICES ASSUME IInv, IInv', ServiceInv, ServiceInv', StoreInv,
                       [ServiceNext]_serviceVars
                PROVE  StoreInv'
    OBVIOUS
  <2>1. TypeOK /\ FlagsTyped /\ EnclaveInv /\ FlagsTyped' /\ EnclaveInv'
    BY DEF IInv, ServiceInv
  <2>2. /\ ServiceTypeOK /\ KeysOfChain /\ ResultsAreFound /\ DownIsStopped
        /\ StoredOrPending /\ OwnersHaveRegistered /\ OneKeyEach /\ StoredBehind
    BY DEF StoreInv
  <2>3. KeysOfChain' /\ ResultsAreFound'
    BY <2>1, <2>2, ResultsStep DEF ServiceTypeOK
  <2>4. ServiceTypeOK'
    BY <2>1, <2>2, <2>3, ServiceTypeStep
  <2>5. DownIsStopped' /\ StoredOrPending'
    BY <2>1, <2>2, DownIsStoppedStep, StoredOrPendingStep
  <2>6. OwnersHaveRegistered' /\ OneKeyEach' /\ StoredBehind'
    BY <2>1, <2>2, OwnersStep, OneKeyStep, StoredBehindStep
  <2>. QED
    BY <2>3, <2>4, <2>5, <2>6 DEF StoreInv
<1>3. ServiceSpec => []IInv
  BY ServiceImplementsFetcher, Invariance
<1>. QED
  BY <1>1, <1>2, <1>3, ServiceInvariance, PTL DEF ServiceSpec

(* The rows of Indices are of transactions of the chain, and what a round  *)
(* has read does not outlive it (main.rs:232-272).                         *)
THEOREM ServiceTypeCorrect == ServiceSpec => []ServiceTypeOK
<1>1. StoreInv => ServiceTypeOK
  BY DEF StoreInv
<1>. QED
  BY <1>1, StoreInvariance, PTL

(* Between two rounds the row of an owner is what the enclave has found    *)
(* for one of its keys, with a height that is the one the key is synced    *)
(* to, or one block behind it (main.rs:260-271, db.rs:144-161).            *)
THEOREM StoredRowsAreCurrent == ServiceSpec => []StoredIsCurrent
<1>1. ServiceInv /\ StoreInv => StoredIsCurrent
  <2>. SUFFICES ASSUME ServiceInv, StoreInv, hostPc \in {"idle", "serving"}, faults = 0,
                       NEW i \in DOMAIN keys, NEW o, o = keys[i].owner,
                       keys[i].birthday < keys[i].syncedTo
                PROVE  /\ o \in DOMAIN stored
                       /\ \E j \in DOMAIN keys :
                            /\ keys[j].owner = o
                            /\ stored[o].indices = keys[j].indices
                            /\ stored[o].height
                                 \in (keys[j].syncedTo - 1)..keys[j].syncedTo
    BY DEF StoredIsCurrent
  <2>1. DOMAIN results = {}
    BY DEF StoreInv, ServiceTypeOK
  <2>2. IsStored(o)
    BY <2>1 DEF StoreInv, StoredOrPending, IsPending
  <2>3. PICK j \in DOMAIN keys :
          keys[j].owner = o /\ stored[o] = Latest(Found(keys[j]))
    BY <2>2 DEF IsStored
  <2>4. keys[j] \in Key
    BY DEF ServiceInv, EnclaveInv, EnclaveTypeOK
  <2>5. keys[j].syncedTo \in Nat
    BY <2>4 DEF Key
  <2>. QED
    BY <2>2, <2>3, <2>5 DEF IsStored, Latest, Found
<1>. QED
  BY <1>1, StoreInvariance, PTL

(* After a clean shutdown the table has every transaction of the blocks    *)
(* that fetcher.dat vouches for (db.rs:192-197, db.rs:211-218).            *)
THEOREM ShutdownPersists == ServiceSpec => []CleanShutdownPersists
<1>1. IInv /\ StoreInv => CleanShutdownPersists
  <2>. SUFFICES ASSUME IInv, StoreInv, hostPc = "down", faults = 0,
                       NEW n \in Notes, n[1] \in fetcherDat
                PROVE  txs[n] = 1
    BY DEF CleanShutdownPersists
  <2>1. pc = "stopped"
    BY DEF StoreInv, DownIsStopped
  <2>2. wal = {} /\ hand = {}
    BY <2>1 DEF IInv, EmptyWhere
  <2>3. txs[n] + InFlight(n) = 1
    BY <2>1 DEF IInv, ExactlyOnce, Recorded
  <2>4. InFlight(n) = 0 /\ txs[n] \in Nat
    BY <2>2, FetcherAssumption DEF InFlight, IInv, TypeOK
  <2>. QED
    BY <2>3, <2>4
<1>. QED
  BY <1>1, StoreInvariance, PTL

(* What a client that registered once can download never gets smaller or   *)
(* older, whatever happens to the host between two rows of a round         *)
(* (db.rs:144-161, fmd.rs:100-120).                                        *)
THEOREM StoredRowsOnlyGrow == ServiceSpec => StoredNeverRegresses
<1>. DEFINE A == \A o \in DOMAIN stored :
                   RegisteredOnce(o)' =>
                     /\ o \in DOMAIN stored'
                     /\ stored[o].indices \subseteq stored'[o].indices
                     /\ stored[o].height <= stored'[o].height
<1>1. /\ IInv /\ ServiceInv /\ StoreInv /\ [ServiceNext]_serviceVars
      => [A]_serviceVars
  <2>. SUFFICES ASSUME IInv, ServiceInv, StoreInv, [ServiceNext]_serviceVars,
                       NEW o \in DOMAIN stored, RegisteredOnce(o)'
                PROVE  /\ o \in DOMAIN stored'
                       /\ stored[o].indices \subseteq stored'[o].indices
                       /\ stored[o].height <= stored'[o].height
    OBVIOUS
  <2>1. stored[o] \in [indices : SUBSET Notes, height : Nat]
    BY DEF StoreInv, ServiceTypeOK
  <2>2. CASE UNCHANGED stored
    BY <2>1, <2>2
  <2>3. ASSUME NEW r \in DOMAIN results, StoreResult(r)
        PROVE  /\ o \in DOMAIN stored'
               /\ stored[o].indices \subseteq stored'[o].indices
               /\ stored[o].height <= stored'[o].height
    <3>1. /\ RegisteredOnce(o)
          /\ r \in DOMAIN keys /\ results[r] = Found(keys[r]) /\ keys[r] \in Key
      BY <2>3 DEF StoreResult, RegisteredOnce, StoreInv, ResultsAreFound,
                  ServiceInv, EnclaveInv, EnclaveTypeOK
    <3>2. CASE o = results[r].owner
      <4>1. stored'[o] = Latest(Found(keys[r])) /\ o \in DOMAIN stored'
        BY <2>3, <3>1, <3>2 DEF StoreResult
      <4>2. /\ stored[o].indices \subseteq keys[r].indices
            /\ stored[o].height < keys[r].syncedTo
        BY <3>1, <3>2 DEF StoreInv, StoredBehind, Found
      <4>3. keys[r].syncedTo \in Nat /\ stored[o].height \in Nat
        BY <2>1, <3>1 DEF Key
      <4>. QED
        BY <4>1, <4>2, <4>3 DEF Latest, Found
    <3>3. CASE o # results[r].owner
      <4>1. o \in DOMAIN stored' /\ stored'[o] = stored[o]
        BY <2>3, <3>3 DEF StoreResult
      <4>. QED
        BY <2>1, <4>1
    <3>. QED
      BY <3>2, <3>3
  <2>4. CASE SendFlags \/ Loses \/ Starts
    BY <2>2, <2>4 DEF SendFlags, Loses, Starts
  <2>5. CASE \E p \in Owners, b \in Nat \cup {NoBirthday} : Register(p, b)
    BY <2>2, <2>5 DEF Register
  <2>. QED
    BY <2>2, <2>3, <2>4, <2>5, StoreStep
<1>. QED
  BY <1>1, StoreInvariance, PTL DEF ServiceSpec, StoredNeverRegresses
=============================================================================
