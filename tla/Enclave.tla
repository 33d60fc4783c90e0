------------------------------ MODULE Enclave ------------------------------
(***************************************************************************)
(* The enclave (enclave/src/lib.rs, enclave/src/fmd.rs): it holds the      *)
(* registered keys in memory and does fuzzy message detection (FMD) on the *)
(* flags the host sends.  It only reacts to the host, which is not         *)
(* trusted: in EnclaveSpec the host may send any height and any flags.     *)
(*                                                                         *)
(* A transaction is a pair <<height, tx>> (shared/src/db.rs, Index).  What *)
(* the detection key of an owner detects is the relation Detected; a row   *)
(* without a flag is always detected.                                      *)
(***************************************************************************)
EXTENDS Naturals, Sequences

CONSTANTS
  Owners,      \* the hashes of the users' encryption keys
  NoBirthday,  \* a registration without a birthday
  Flags,       \* flag ciphertexts
  NoFlag,      \* the flag of a row that has none
  Detected     \* the pairs <<owner, flag>> that FMD detects

ASSUME EnclaveAssumption ==
  /\ NoBirthday \notin Nat
  /\ NoFlag \notin Flags
  /\ Detected \subseteq Owners \X Flags

VARIABLE keys  \* registered_keys, with the IndexSet of each

Key == [owner : Owners, birthday : Nat, syncedTo : Nat,
        indices : SUBSET (Nat \X Nat)]

EnclaveInit == keys = <<>>

(* main, RegisterKey, when register_key has returned a key.                *)
Birthday(b) == IF b = NoBirthday THEN 1 ELSE b

NewKey(o, b) ==
  [owner |-> o, birthday |-> Birthday(b), syncedTo |-> Birthday(b), indices |-> {}]

RegisterKey(o, b) == keys' = Append(keys, NewKey(o, b))

(* main, RequiredBlocks: the next height of each key.                      *)
NextHeight(k) == k.syncedTo + 1
BlockRequests == {NextHeight(keys[i]) : i \in DOMAIN keys}

(* Mutant: the flags are not filtered by height.                           *)
MutDetections(k, flags) ==
  {f[1] : f \in {g \in flags : g[2] = NoFlag \/ <<k.owner, g[2]>> \in Detected}}

(* check_flags, for one key: the transactions of the next height whose     *)
(* flag is detected or missing.                                            *)
Detections(k, flags) ==
  {f[1] : f \in {g \in flags : /\ g[1][1] = NextHeight(k)
                               /\ \/ g[2] = NoFlag
                                  \/ <<k.owner, g[2]>> \in Detected}}

(* Mutant: the indices of the scan replace those found before.             *)
MutScan(k, flags) ==
  [k EXCEPT !.syncedTo = NextHeight(k), !.indices = Detections(k, flags)]

Scan(k, flags) ==
  [k EXCEPT !.syncedTo = NextHeight(k),
            !.indices = @ \cup Detections(k, flags)]

(* Mutant: a key that is synced to the host's height is scanned again.     *)
MutLags(k, s) == k.syncedTo <= s

(* Mutant: a key that is one block behind does not lag.                    *)
MutLagsByOne(k, s) == k.syncedTo + 1 < s

Lags(k, s) == k.syncedTo < s

CheckFlags(s, flags) ==
  keys' = [i \in DOMAIN keys |-> IF Lags(keys[i], s) THEN Scan(keys[i], flags)
                                                     ELSE keys[i]]

(* Mutant: the response holds the indices before the scan.                 *)
MutResponse(k, flags) ==
  [owner |-> k.owner, indices |-> k.indices, height |-> k.syncedTo]

(* add_result: the new indices, encrypted for the owner, with the height   *)
(* the key was synced to before the scan.                                  *)
Response(k, flags) ==
  [owner |-> k.owner, indices |-> Scan(k, flags).indices, height |-> k.syncedTo]

(* The responses in one message, by the position of their key.             *)
FmdResults(s, flags) ==
  [i \in {j \in DOMAIN keys : Lags(keys[j], s)} |-> Response(keys[i], flags)]

Row == (Nat \X Nat) \X (Flags \cup {NoFlag})

EnclaveNext ==
  \/ \E o \in Owners, b \in Nat \cup {NoBirthday} : RegisterKey(o, b)
  \/ \E s \in Nat, flags \in SUBSET Row : CheckFlags(s, flags)

EnclaveSpec == EnclaveInit /\ [][EnclaveNext]_keys

-----------------------------------------------------------------------------
(* The type of the registered keys.                                        *)
EnclaveTypeOK == keys \in Seq(Key)

(* The indices of a key are of heights it may be scanned for: not before   *)
(* its birthday and not above the height it is synced to, whatever heights *)
(* and rows the host sends, also rows that other keys asked for            *)
(* (fmd.rs:100-119).                                                       *)
IndicesInRange ==
  \A i \in DOMAIN keys :
    /\ keys[i].birthday <= keys[i].syncedTo
    /\ \A n \in keys[i].indices :
         keys[i].birthday <= n[1] /\ n[1] <= keys[i].syncedTo
=============================================================================
