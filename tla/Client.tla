------------------------------- MODULE Client -------------------------------
(***************************************************************************)
(* A user of several services (client/src): the configuration file, which  *)
(* says which share of a key each service gets, and the three commands     *)
(* that use it, for one key of the user.  add-service appends a service to *)
(* the file, register-key sends each service its share, query-indices asks *)
(* each service for the indices it has found, and returns the answers side *)
(* by side: nothing in the client combines them.                           *)
(*                                                                         *)
(* The services scan at their own pace (Enclave), may not have every row   *)
(* of a height when they do (FmdService), forget their keys when they are  *)
(* restarted, and may fail in the middle of a command.  A command          *)
(* may be killed, also while it saves the file.  Any command may also end  *)
(* without an effect before its first step here: the file cannot be read   *)
(* or parsed, or the service does not answer.                              *)
(***************************************************************************)
EXTENDS IndexList, Sequences, FiniteSets, TLC

CONSTANTS
  Services,          \* the services, by url
  Txs,               \* the indices of the transactions on the chain
  Relevant,          \* those of the user, which every share detects
  Noise,             \* pairs <<share, index>>: what else a share detects
  Birthdays,         \* the birthdays the user may give
  NoBirthday,
  MaxHeight,         \* the height of the chain
  MaxServices,       \* bound on the services in the file
  MaxRegistrations,  \* bound on the keys a service holds
  MaxFaults          \* bound on failed saves and on restarts of services

Shares == 1..MaxServices

ASSUME ClientAssumption ==
  /\ Txs \subseteq (1..MaxHeight) \X Nat
  /\ Relevant \subseteq Txs /\ Noise \subseteq Shares \X Txs
  /\ Birthdays \subseteq Nat \cup {NoBirthday} /\ NoBirthday \notin Nat
  /\ {MaxHeight, MaxServices, MaxRegistrations, MaxFaults} \subseteq Nat

VARIABLES
  file,      \* the services in the configuration file; Torn if it cannot be parsed
  command,   \* the command that runs
  config,    \* the services it has loaded
  next,      \* the position of the service it is at
  birthday,  \* the birthday of register-key
  lists,     \* the answers of query-indices so far: sets of indices
  registry,  \* the keys of each service: registered_keys
  rows,      \* the indices a service has stored for the user: <<>> or one set
  faults     \* failed saves, and restarts of services, so far

commandVars == <<command, config, next, birthday, lists>>
serviceVars == <<registry, rows>>
clientVars  == <<file, commandVars, serviceVars, faults>>

Torn == <<[url |-> "torn", index |-> 0]>>

(* The enclave of a service: an owner stands for the share it was given.   *)
(* Every transaction has a flag, which is its index.                       *)
Enclave(s) ==
  INSTANCE Enclave WITH
    Owners <- Shares, Flags <- Txs, NoFlag <- <<>>, keys <- registry[s],
    Detected <- (Shares \X Relevant) \cup Noise

FlagsOf(txs) == {<<tx, tx>> : tx \in txs}

ClientInit ==
  /\ file = <<>>
  /\ command = "none" /\ config = <<>> /\ next = 1 /\ birthday = NoBirthday
  /\ lists = <<>>
  /\ registry = [s \in Services |-> <<>>] /\ rows = [s \in Services |-> <<>>]
  /\ faults = [saves |-> 0, restarts |-> 0]

-----------------------------------------------------------------------------
(* The end of a command, and its beginning with the services in the file   *)
(* (Config::load_or_new, get_services).                                    *)
Idle ==
  /\ command' = "none" /\ config' = <<>> /\ next' = 1
  /\ birthday' = NoBirthday /\ lists' = <<>>

Begin(c, services, b) ==
  /\ command = "none" /\ file # Torn
  /\ command' = c /\ config' = services /\ birthday' = b
  /\ UNCHANGED <<next, lists>>

Taken(services) == {services[i].index : i \in DOMAIN services}

(* Mutant: the index of the last service is used again.                    *)
MutNewIndex(services) ==
  IF services = <<>> THEN 1
  ELSE CHOOSE ix \in Taken(services) : \A jx \in Taken(services) : jx <= ix

(* Config::add_service: the index after the greatest one.                  *)
NewIndex(services) ==
  IF services = <<>> THEN 1
  ELSE 1 + CHOOSE ix \in Taken(services) :
             \A jx \in Taken(services) : jx <= ix

(* Mutant: the services are numbered again, the newest first.              *)
MutSaved(services) ==
  [i \in DOMAIN services |->
     [url |-> services[Len(services) + 1 - i].url, index |-> i]]

(* Config::save sorts the services and drops those whose index is there.   *)
Saved(services) ==
  LET kept == {services[i] : i \in {k \in DOMAIN services :
                 \A j \in 1..(k - 1) : services[j].index # services[k].index}}
  IN  CHOOSE s \in [1..Cardinality(kept) -> kept] :
        \A i, j \in DOMAIN s : i < j => s[i].index < s[j].index

(* add-service, for a service that is up: the file is truncated, and then  *)
(* written.                                                                *)
AddService(url) ==
  /\ Len(file) < MaxServices
  /\ Begin("save", Append(file, [url |-> url, index |-> NewIndex(file)]), NoBirthday)
  /\ file' = Torn
  /\ UNCHANGED <<serviceVars, faults>>

SaveEnds ==
  /\ command = "save"
  /\ file' = Saved(config)
  /\ Idle
  /\ UNCHANGED <<serviceVars, faults>>

(* The command is killed, or the disk is full: a part of the file is       *)
(* there, which can be parsed if it ends after a service.                  *)
SaveFails ==
  /\ command = "save" /\ faults.saves < MaxFaults
  /\ faults' = [faults EXCEPT !.saves = @ + 1]
  /\ file' \in {Torn} \cup {SubSeq(Saved(config), 1, n) : n \in 1..(Len(config) - 1)}
  /\ Idle
  /\ UNCHANGED serviceVars

(* The user removes a file that cannot be parsed.                          *)
RemoveFile ==
  /\ command = "none" /\ file = Torn
  /\ file' = <<>>
  /\ UNCHANGED <<commandVars, serviceVars, faults>>

-----------------------------------------------------------------------------
(* register-key: register_fmd_key.                                         *)
BeginRegister(b) ==
  /\ Begin("register", file, b)
  /\ UNCHANGED <<file, serviceVars, faults>>

Current == config[next]

(* register_fmd_key_to_service: detection_keys[index - 1] is registered.   *)
Registered ==
  registry' = [registry EXCEPT ![Current.url] =
                 Append(@, Enclave(Current.url)!NewKey(Current.index, birthday))]

Room == Len(registry[Current.url]) < MaxRegistrations

RegisterOne ==
  /\ command = "register" /\ next \in DOMAIN config /\ Room
  /\ Registered
  /\ next' = next + 1
  /\ UNCHANGED <<file, command, config, birthday, lists, rows, faults>>

(* Mutant: the other services are tried as well.                           *)
MutRegisterFails ==
  /\ command = "register" /\ next \in DOMAIN config
  /\ (Room /\ Registered) \/ UNCHANGED registry
  /\ next' = next + 1
  /\ UNCHANGED <<file, command, config, birthday, lists, rows, faults>>

(* The command ends at the first service that fails, which may have        *)
(* registered the key and failed to say so.                                *)
RegisterFails ==
  /\ command = "register" /\ next \in DOMAIN config
  /\ (Room /\ Registered) \/ UNCHANGED registry
  /\ Idle
  /\ UNCHANGED <<file, rows, faults>>

RegisterEnds ==
  /\ command = "register" /\ next \notin DOMAIN config
  /\ Idle
  /\ UNCHANGED <<file, serviceVars, faults>>

-----------------------------------------------------------------------------
(* query-indices: query_fmd_key.                                           *)
BeginQuery ==
  /\ Begin("query", file, NoBirthday)
  /\ UNCHANGED <<file, serviceVars, faults>>

(* query_service: the row of the service is decrypted.                     *)
QueryOne ==
  /\ command = "query" /\ next \in DOMAIN config
  /\ rows[Current.url] # <<>>
  /\ lists' = lists \o rows[Current.url]
  /\ next' = next + 1
  /\ UNCHANGED <<file, command, config, birthday, serviceVars, faults>>

(* A service that fails, or that has no row yet, ends the command without  *)
(* a result; otherwise the lists of all the services are the result.       *)
QueryEnds ==
  /\ command = "query"
  /\ Idle
  /\ UNCHANGED <<file, serviceVars, faults>>

-----------------------------------------------------------------------------
(* A round of FMD at a service that is synced to a height, when its table  *)
(* has the rows of some transactions, those it has found among them: each  *)
(* key that lags is scanned, and what it has found replaces the row of the *)
(* user (the owner is the same for all the shares of a service), so that   *)
(* the last one stays.                                                     *)
FoundAt(s) ==
  UNION ({registry[s][i].indices : i \in DOMAIN registry[s]}
         \cup {rows[s][i] : i \in DOMAIN rows[s]})

Round(s, height, there) ==
  LET lagging == {i \in DOMAIN registry[s] : Enclave(s)!Lags(registry[s][i], height)}
      scanned == [i \in DOMAIN registry[s] |->
                    IF i \in lagging
                    THEN Enclave(s)!Scan(registry[s][i], FlagsOf(there))
                    ELSE registry[s][i]]
      last == CHOOSE i \in lagging : \A j \in lagging : j <= i
  IN  /\ lagging # {} /\ FoundAt(s) \subseteq there
      /\ registry' = [registry EXCEPT ![s] = scanned]
      /\ rows' = [rows EXCEPT ![s] = <<scanned[last].indices>>]
      /\ UNCHANGED <<file, commandVars, faults>>

(* The enclave of a service is restarted; the rows are on disk.            *)
RestartEnclave(s) ==
  /\ faults.restarts < MaxFaults /\ registry[s] # <<>>
  /\ faults' = [faults EXCEPT !.restarts = @ + 1]
  /\ registry' = [registry EXCEPT ![s] = <<>>]
  /\ UNCHANGED <<file, commandVars, rows>>

-----------------------------------------------------------------------------
ClientNext ==
  \/ SaveEnds \/ SaveFails \/ RemoveFile
  \/ RegisterOne \/ RegisterFails \/ RegisterEnds
  \/ BeginQuery \/ QueryOne \/ QueryEnds
  \/ \E b \in Birthdays : BeginRegister(b)
  \/ \E s \in Services :
       \/ AddService(s) \/ RestartEnclave(s)
       \/ \E height \in 1..MaxHeight, there \in SUBSET Txs : Round(s, height, there)

ClientSpec == ClientInit /\ [][ClientNext]_clientVars

-----------------------------------------------------------------------------
(* The types of the variables.  The services of a file that can be parsed  *)
(* have the indices from 1 on, so that detection_keys[index - 1] is there  *)
(* for each (ratls.rs:29-45).                                              *)
Numbered(services) ==
  \A i \in DOMAIN services : services[i] \in [url : Services, index : {i}]

ClientTypeOK ==
  /\ file = Torn \/ (Numbered(file) /\ Len(file) <= MaxServices)
  /\ command \in {"none", "save", "register", "query"}
  /\ Numbered(config) /\ next \in 1..(MaxServices + 1)
  /\ birthday \in Nat \cup {NoBirthday}
  /\ \A s \in Services :
       /\ Enclave(s)!EnclaveTypeOK
       /\ rows[s] = <<>> \/ \E a \in SUBSET Txs : rows[s] = <<a>>
  /\ \A i \in DOMAIN lists : lists[i] \subseteq Txs
  /\ faults \in [saves : 0..MaxFaults, restarts : 0..MaxFaults]

(* Two services never hold the same share, whichever registrations failed  *)
(* and were repeated after more services were added, unless a save of the  *)
(* file has failed (config.rs:74-93, ratls.rs:35-45).                      *)
SharesApart ==
  faults.saves = 0 =>
    \A s, t \in Services : \A i \in DOMAIN registry[s], j \in DOMAIN registry[t] :
      registry[s][i].owner = registry[t][j].owner => s = t

(* When register-key has ended well, every service that was in the file    *)
(* holds its share, unless one was restarted (ratls.rs:35-46).             *)
OkMeansRegistered ==
  command = "register" /\ next \notin DOMAIN config /\ faults.restarts = 0 =>
    \A i \in DOMAIN config :
      \E j \in DOMAIN registry[config[i].url] :
        registry[config[i].url][j].owner = config[i].index

(* An answer is of the service that was asked, whatever it was asked       *)
(* before: each index is one that a share of the user detects which this   *)
(* service was given, also if the service is in the file more than once    *)
(* and has forgotten its keys since, unless a save has failed              *)
(* (query.rs:15-24, ratls.rs:35-45, db.rs:144-161).                        *)
Detects(share) == Relevant \cup {tx \in Txs : <<share, tx>> \in Noise}

AnswersAreOwn ==
  command = "query" /\ faults.saves = 0 =>
    \A i \in DOMAIN lists :
      lists[i] \subseteq
        UNION {Detects(config[j].index) :
                 j \in {k \in DOMAIN config : config[k].url = config[i].url}}

(* A wallet that combines two of the answers, which the client leaves to   *)
(* it, keeps an index if every answer that goes as far has it              *)
(* (db.rs:162-195).                                                        *)
AnswersCombine ==
  \A i, j \in DOMAIN lists : Combine(lists[i], lists[j]) = Agreement(lists[i], lists[j])
=============================================================================
