-------------------------- MODULE KeyRegistration --------------------------
(***************************************************************************)
(* How clients register their keys: the messages between the clients, the  *)
(* host (host/src/main.rs) and the enclave (enclave/src/ratls.rs), with    *)
(* the rounds of FMD that use the same connection to the enclave.          *)
(*                                                                         *)
(* The host serves one client at a time and has one connection to the      *)
(* enclave; every read blocks.  A registration has two rounds: the client  *)
(* sends a public key and gets a report, then it sends its FMD key and     *)
(* gets the result.  A client may refuse the report, send something else,  *)
(* say nothing or go away.  With tdx the enclave is behind a serial port   *)
(* (Framing, OSDK.toml): a reply may be undecodable, and the host may      *)
(* crash, also in the middle of a frame, while the enclave goes on: it     *)
(* sends the answers to what it had been sent to the next host.            *)
(***************************************************************************)
EXTENDS Naturals, Sequences

CONSTANTS
  Clients,
  None,        \* no client
  MaxCrashes,  \* bound on the crashes of the host
  MaxGarbled   \* bound on the undecodable replies

ASSUME RegistrationAssumption ==
  None \notin Clients /\ MaxCrashes \in Nat /\ MaxGarbled \in Nat

VARIABLES
  client,      \* the state of each client
  outbox,      \* what each client has sent
  inbox,       \* what each client has received
  backlog,     \* the connections the host has not accepted yet
  hostPc,      \* what the host waits for
  serving,     \* the client it serves
  toEnclave,   \* the messages from the host to the enclave
  toHost,      \* the messages from the enclave to the host
  session,     \* the client whose key the enclave waits for, or None
  registered,  \* the owners of registered_keys
  crashes,     \* crashes of the host so far
  garbled      \* replies that were made undecodable so far

clientVars  == <<client, outbox, inbox, backlog>>
hostVars    == <<hostPc, serving>>
enclaveVars == <<session, registered>>
faultVars   == <<crashes, garbled>>
regVars     == <<clientVars, hostVars, toEnclave, toHost, enclaveVars, faultVars>>

(* What a client may send in the first round, and in the second.           *)
(* Stray stands for a message of the second round, sent first.             *)
Registrations == {"RegisterKey", "RegisterWeakKey"}
Queries  == {"RequestUUID", "RequestIndices"}
Requests == Registrations \cup Queries \cup {"Stray"}
Answers  == {"Success", "Garbled", "Fail", "Other"}

(* A message; the key, the acknowledgement and the report of a client are  *)
(* known by the client, for they carry its nonce and its keys.             *)
Msg(type, c) == [type |-> type, of |-> c]
Plain(type) == Msg(type, None)

RegInit ==
  /\ client = [c \in Clients |-> "new"]
  /\ outbox = [c \in Clients |-> <<>>] /\ inbox = [c \in Clients |-> <<>>]
  /\ backlog = <<>>
  /\ hostPc = "idle" /\ serving = None
  /\ toEnclave = <<>> /\ toHost = <<>>
  /\ session = None /\ registered = <<>>
  /\ crashes = 0 /\ garbled = 0

-----------------------------------------------------------------------------
(* The client (register_fmd_key_to_service, query).  A client that has     *)
(* sent a stray message reads as well, but gets no reply.                  *)
Waiting(c) == client[c] \in {"asked", "strayed", "answered"}

Connect(c) ==
  /\ client[c] = "new" /\ hostPc # "down"
  /\ client' = [client EXCEPT ![c] = "connected"]
  /\ backlog' = Append(backlog, c)
  /\ UNCHANGED <<outbox, inbox, hostVars, toEnclave, toHost, enclaveVars, faultVars>>

Ask(c, request) ==
  /\ client[c] = "connected"
  /\ client' = [client EXCEPT ![c] = IF request = "Stray" THEN "strayed" ELSE "asked"]
  /\ outbox' = [outbox EXCEPT ![c] = <<request>>]
  /\ UNCHANGED <<inbox, backlog, hostVars, toEnclave, toHost, enclaveVars, faultVars>>

(* The report is verified: the FMD key is sent if it is good, and a report *)
(* with the nonce of another client is not.  After a failing answer, or    *)
(* one that is no answer, the client waits no more.                        *)
Reports == {Msg("RATLS", c) : c \in Clients}

Answer(c, answer) ==
  /\ client[c] = "asked"
  /\ \E report \in Reports :
       inbox[c] = <<report>> /\ (report.of = c \/ answer = "Fail")
  /\ client' = [client EXCEPT ![c] =
                  IF answer \in {"Success", "Garbled"} THEN "answered" ELSE "done"]
  /\ inbox' = [inbox EXCEPT ![c] = <<>>]
  /\ outbox' = [outbox EXCEPT ![c] = <<answer>>]
  /\ UNCHANGED <<backlog, hostVars, toEnclave, toHost, enclaveVars, faultVars>>

(* The client reads a message that ends its request.                       *)
Finish(c) ==
  /\ Waiting(c) /\ inbox[c] # <<>>
  /\ client[c] = "asked" => inbox[c][1] \notin Reports
  /\ client' = [client EXCEPT ![c] =
                  IF client[c] = "answered" /\ inbox[c][1] = Plain("KeyRegSuccess")
                  THEN "registered" ELSE "done"]
  /\ inbox' = [inbox EXCEPT ![c] = <<>>]
  /\ UNCHANGED <<outbox, backlog, hostVars, toEnclave, toHost, enclaveVars, faultVars>>

(* The client goes away; the host reads nothing more, and no error.        *)
Vanish(c) ==
  /\ client[c] = "connected" \/ Waiting(c)
  /\ client' = [client EXCEPT ![c] = "gone"]
  /\ UNCHANGED <<outbox, inbox, backlog, hostVars, toEnclave, toHost, enclaveVars, faultVars>>

-----------------------------------------------------------------------------
(* The host.  Its parts: a message to the enclave, one to the client it    *)
(* serves, and the end of what it does.                                    *)
SendEnclave(m) == toEnclave' = Append(toEnclave, m)
SendClient(m) == inbox' = [inbox EXCEPT ![serving] = <<m>>]
ReadClient(m) ==
  /\ outbox[serving] = <<m>>
  /\ outbox' = [outbox EXCEPT ![serving] = <<>>]
ReadEnclave(m) == toHost # <<>> /\ m = Head(toHost) /\ toHost' = Tail(toHost)

(* Mutant: the connection to the client is kept.                           *)
MutDone == hostPc' = "idle" /\ UNCHANGED serving

Done == hostPc' = "idle" /\ serving' = None

(* TryFrom<MsgToHost> for ServerMsg.                                       *)
ForClient(m)  == m.type \in {"RATLS", "ErrorForClient", "KeyRegSuccess"}
Undecodable   == Plain("Undecodable")
Unexpected(m) == ~ForClient(m) /\ m # Undecodable

(* NextQuery: a waiting connection comes before a round of FMD.            *)
Accept ==
  /\ hostPc = "idle" /\ backlog # <<>>
  /\ serving' = Head(backlog) /\ backlog' = Tail(backlog)
  /\ hostPc' = "request"
  /\ UNCHANGED <<client, outbox, inbox, toEnclave, toHost, enclaveVars, faultVars>>

(* handle_connection.                                                      *)
HandleRegisterKey(request) ==
  /\ hostPc = "request" /\ request \in Registrations
  /\ ReadClient(request)
  /\ SendEnclave(Msg(request, serving))
  /\ hostPc' = "report"
  /\ UNCHANGED <<client, inbox, backlog, serving, toHost, enclaveVars, faultVars>>

(* The reply is a UUID; for the indices of an owner it is the row of the   *)
(* database, or an error when there is none.                               *)
Response(request) ==
  IF request = "RequestUUID" THEN {"UUID"} ELSE {"IndicesResponse", "Error"}

HandleQuery(request) ==
  /\ hostPc = "request" /\ request \in Queries
  /\ ReadClient(request)
  /\ \E t \in Response(request) : SendClient(Plain(t))
  /\ Done
  /\ UNCHANGED <<client, backlog, toEnclave, toHost, enclaveVars, faultVars>>

(* Any other message is ignored, and the connection is dropped: the client *)
(* reads on, and finds nothing.                                            *)
IgnoreStray ==
  /\ hostPc = "request"
  /\ ReadClient("Stray")
  /\ Done
  /\ UNCHANGED <<client, inbox, backlog, toEnclave, toHost, enclaveVars, faultVars>>

(* handle_key_registration: the first reply of the enclave, the second     *)
(* message of the client, the second reply.  abort_tls sends a failing     *)
(* acknowledgement and gives up.  When a reply cannot be decoded it is     *)
(* logged, and the registration goes on with the last read.                *)

(* Mutant: the host gives up without telling the enclave.                  *)
MutAbort == Done /\ UNCHANGED toEnclave

Abort == Done /\ SendEnclave(Plain("Fail"))

RelayReport(m) ==
  /\ hostPc = "report" /\ ReadEnclave(m)
  /\ \/ ForClient(m) /\ SendClient(m) /\ hostPc' = "answer"
        /\ UNCHANGED <<serving, toEnclave>>
     \/ m = Undecodable /\ hostPc' = "result"
        /\ UNCHANGED <<inbox, serving, toEnclave>>
     \/ Unexpected(m) /\ Abort /\ UNCHANGED inbox
  /\ UNCHANGED <<client, outbox, backlog, enclaveVars, faultVars>>

RelayAnswer(answer) ==
  /\ hostPc = "answer"
  /\ ReadClient(answer)
  /\ IF answer = "Other" THEN Abort
     ELSE /\ SendEnclave(Msg(answer, serving))
          /\ hostPc' = "result"
          /\ UNCHANGED serving
  /\ UNCHANGED <<client, inbox, backlog, toHost, enclaveVars, faultVars>>

RelayResult(m) ==
  /\ hostPc = "result" /\ ReadEnclave(m)
  /\ \/ ForClient(m) /\ SendClient(m) /\ Done /\ UNCHANGED toEnclave
     \/ m = Undecodable /\ Done /\ UNCHANGED <<inbox, toEnclave>>
     \/ Unexpected(m) /\ Abort /\ UNCHANGED inbox
  /\ UNCHANGED <<client, outbox, backlog, enclaveVars, faultVars>>

(* handle_fmd, as far as its messages go.                                  *)
BeginFmd ==
  /\ hostPc = "idle" /\ backlog = <<>>
  /\ SendEnclave(Plain("RequiredBlocks"))
  /\ hostPc' = "blocks"
  /\ UNCHANGED <<clientVars, serving, toHost, enclaveVars, faultVars>>

ReadBlocks(m) ==
  /\ hostPc = "blocks" /\ ReadEnclave(m)
  /\ IF m = Plain("BlockRequests")
     THEN SendEnclave(Plain("RequestedFlags")) /\ hostPc' = "results"
     ELSE hostPc' = "idle" /\ UNCHANGED toEnclave
  /\ UNCHANGED <<clientVars, serving, enclaveVars, faultVars>>

ReadResults(m) ==
  /\ hostPc = "results" /\ ReadEnclave(m)
  /\ hostPc' = "idle"
  /\ UNCHANGED <<clientVars, serving, toEnclave, enclaveVars, faultVars>>

-----------------------------------------------------------------------------
(* The enclave: what it answers in its main loop, and while register_key   *)
(* waits for an acknowledgement.                                           *)
Reply(m) == toHost' = Append(toHost, m)

(* Mutant: without keys there is nothing to answer.                        *)
MutBlockRequests == registered # <<>> /\ Reply(Plain("BlockRequests"))

BlockRequests ==
  Reply(Plain(IF registered = <<>> THEN "NoBlockRequests" ELSE "BlockRequests"))

MainLoop(m) ==
  /\ session = None
  /\ \/ m.type = "RegisterKey" /\ Reply(Msg("RATLS", m.of)) /\ session' = m.of
     \/ m.type = "RegisterWeakKey" /\ Reply(Plain("ErrorForClient")) /\ UNCHANGED session
     \/ m.type = "RequiredBlocks" /\ BlockRequests /\ UNCHANGED session
     \/ m.type = "RequestedFlags" /\ Reply(Plain("FmdResults")) /\ UNCHANGED session
     \/ m.type \in Answers /\ UNCHANGED <<toHost, session>>
  /\ UNCHANGED registered

(* Mutant: the client is told before the key is decrypted.                 *)
MutAwaitAck(m) ==
  /\ session # None
  /\ session' = None
  /\ IF m.type = "Success" /\ m.of = session
     THEN registered' = Append(registered, session)
     ELSE UNCHANGED registered
  /\ Reply(Plain("KeyRegSuccess"))

(* The key can be decrypted if it comes from the client of the session.    *)
AwaitAck(m) ==
  /\ session # None
  /\ session' = None
  /\ \/ /\ m.type = "Success" /\ m.of = session
        /\ registered' = Append(registered, session)
        /\ Reply(Plain("KeyRegSuccess"))
     \/ /\ m.type = "Garbled" \/ (m.type = "Success" /\ m.of # session)
        /\ Reply(Plain("ErrorForClient")) /\ UNCHANGED registered
     \/ m.type = "Fail" /\ UNCHANGED <<toHost, registered>>
     \/ m.type \notin Answers /\ Reply(Plain("Error")) /\ UNCHANGED registered

(* A frame that was cut short takes the next one with it; the main loop    *)
(* and register_key both answer with an error.                             *)
Half == Plain("Half")

ReadBrokenFrame ==
  /\ Len(toEnclave) > 1 /\ toEnclave[1] = Half
  /\ toEnclave' = SubSeq(toEnclave, 3, Len(toEnclave))
  /\ session' = None
  /\ Reply(Plain("Error"))
  /\ UNCHANGED registered

ReadFrame ==
  /\ toEnclave # <<>> /\ toEnclave[1] # Half
  /\ toEnclave' = Tail(toEnclave)
  /\ MainLoop(Head(toEnclave)) \/ AwaitAck(Head(toEnclave))

EnclaveStep ==
  (ReadFrame \/ ReadBrokenFrame) /\ UNCHANGED <<clientVars, hostVars, faultVars>>

-----------------------------------------------------------------------------
(* The host crashes: of what it has sent the last part may be lost, also   *)
(* the end of a frame.  Its connections are closed, but a client that      *)
(* still reads finds no more than an end of file, and reads on.            *)
Kept == {SubSeq(toEnclave, 1, n) : n \in 0..Len(toEnclave)}
EndsInHalf(s) == s # <<>> /\ s[Len(s)] = Half

Crash ==
  /\ hostPc # "down" /\ crashes < MaxCrashes
  /\ crashes' = crashes + 1 /\ UNCHANGED garbled
  /\ outbox' = [c \in Clients |-> <<>>]
  /\ backlog' = <<>>
  /\ hostPc' = "down" /\ serving' = None
  /\ \E s \in Kept :
       \/ toEnclave' = s
       \/ ~EndsInHalf(s) /\ toEnclave' = Append(s, Half)
  /\ UNCHANGED <<client, inbox, toHost, enclaveVars>>

(* The next host connects at once: what the enclave has sent in between is *)
(* lost, but for the end of the frame it is just sending, and what it had  *)
(* not answered yet it answers now.                                        *)
Restart ==
  /\ hostPc = "down"
  /\ hostPc' = "idle"
  /\ \/ toHost' = <<>>
     \/ toHost # <<>> /\ toHost' = <<Undecodable>>
  /\ UNCHANGED <<clientVars, serving, toEnclave, enclaveVars, faultVars>>

(* The serial port rewrites bytes of a reply (OneFrameInOneOut of Framing: *)
(* it is still one frame).                                                 *)
Garble ==
  /\ toHost # <<>> /\ garbled < MaxGarbled
  /\ toHost' = [toHost EXCEPT ![1] = Undecodable]
  /\ garbled' = garbled + 1
  /\ UNCHANGED <<clientVars, hostVars, toEnclave, enclaveVars, crashes>>

-----------------------------------------------------------------------------
Replies ==
  Reports \cup {Plain(t) : t \in {"ErrorForClient", "KeyRegSuccess", "Error",
                   "BlockRequests", "NoBlockRequests", "FmdResults", "Undecodable"}}

HostStep ==
  \/ Restart \/ Accept \/ IgnoreStray \/ BeginFmd
  \/ \E r \in Registrations : HandleRegisterKey(r)
  \/ \E r \in Queries : HandleQuery(r)
  \/ \E a \in Answers : RelayAnswer(a)
  \/ \E m \in Replies : RelayReport(m) \/ RelayResult(m) \/ ReadBlocks(m)
                        \/ ReadResults(m)

ClientStep(c) == Finish(c) \/ \E a \in Answers : Answer(c, a)

RegNext ==
  \/ HostStep \/ EnclaveStep \/ Crash \/ Garble
  \/ \E c \in Clients :
       Connect(c) \/ ClientStep(c) \/ Vanish(c) \/ \E r \in Requests : Ask(c, r)

RegSpec == RegInit /\ [][RegNext]_regVars

(* The host and the enclave run, a host that has crashed is started again, *)
(* and a client that reads goes on with what it finds.                     *)
RegFairSpec ==
  /\ RegSpec
  /\ WF_regVars(HostStep) /\ WF_regVars(EnclaveStep)
  /\ \A c \in Clients : WF_regVars(ClientStep(c))

-----------------------------------------------------------------------------
Message ==
  [type : Registrations \cup Answers, of : Clients]
    \cup {Plain(t) : t \in {"RequiredBlocks", "RequestedFlags", "Fail", "Half"}}

(* The types of the variables; each client has at most one message on its  *)
(* way in each direction, and the host serves a client exactly while it    *)
(* handles a connection (main.rs:102-106).                                 *)
RegTypeOK ==
  /\ client \in [Clients -> {"new", "connected", "asked", "strayed", "answered",
                             "registered", "done", "gone"}]
  /\ outbox \in [Clients -> Seq(Requests \cup Answers)]
  /\ inbox \in [Clients -> Seq(Replies \cup {Plain("UUID"), Plain("IndicesResponse")})]
  /\ \A c \in Clients : Len(outbox[c]) <= 1 /\ Len(inbox[c]) <= 1
  /\ backlog \in Seq(Clients)
  /\ hostPc \in {"idle", "request", "report", "answer", "result", "blocks",
                 "results", "down"}
  /\ serving \in Clients \cup {None} /\ session \in Clients \cup {None}
  /\ toEnclave \in Seq(Message)
  /\ toHost \in Seq(Replies)
  /\ registered \in Seq(Clients)
  /\ crashes \in 0..MaxCrashes /\ garbled \in 0..MaxGarbled
  /\ serving # None <=> hostPc \in {"request", "report", "answer", "result"}

(* Until the host crashes, what it reads from the enclave is the answer to *)
(* what it sent last, also after it has given up on a client: no reply is  *)
(* left in the connection for the next request (main.rs:155-230,           *)
(* main.rs:232-272).  A reply may be undecodable.  After a crash this is   *)
(* so no more: the first host's answers may reach the second.              *)
Expected ==
  CASE hostPc = "report"  -> {Msg("RATLS", serving), Plain("ErrorForClient")}
    [] hostPc = "result"  -> {Plain("KeyRegSuccess"), Plain("ErrorForClient")}
    [] hostPc = "blocks"  -> {Plain("BlockRequests"), Plain("NoBlockRequests")}
    [] hostPc = "results" -> {Plain("FmdResults")}
    [] OTHER -> {}

RepliesMatch ==
  toHost # <<>> /\ crashes = 0 =>
    /\ Len(toHost) = 1 /\ toEnclave = <<>>
    /\ \/ toHost[1] \in Expected
       \/ garbled > 0 /\ Expected # {} /\ toHost[1] = Undecodable

(* The enclave is never left waiting for the key of a client that the host *)
(* has given up: it waits for the client being served, or a failing        *)
(* acknowledgement is on its way (main.rs:169-178 "so that it can drop the *)
(* connection"), unless the host has crashed.                              *)
EnclaveNotLeftWaiting ==
  session # None =>
    \/ serving = session
    \/ toEnclave # <<>> /\ Head(toEnclave).type = "Fail"
    \/ crashes > 0

(* A client that is told so is registered, and no client is registered     *)
(* twice by one request, whoever else registers at the same time, and      *)
(* also when the answers to an earlier host are read for those to this     *)
(* one (enclave ratls.rs:76-80, lib.rs:58-65, client ratls.rs:73-127).     *)
ToldSo(c) ==
  \/ client[c] = "registered"
  \/ client[c] = "answered" /\ inbox[c] = <<Plain("KeyRegSuccess")>>

SuccessIsTrue ==
  \A c \in Clients :
    /\ ToldSo(c) => \E i \in DOMAIN registered : registered[i] = c
    /\ \A i, j \in DOMAIN registered : registered[i] = registered[j] => i = j

(* The two ways the host can wait for ever: for a client that says nothing *)
(* more, has gone away or has its reply, and for the last reply of an      *)
(* enclave that sends none, after a client refused the report or after a   *)
(* report that could not be decoded, when the enclave waits for the key.   *)
Hung ==
  \/ /\ hostPc \in {"request", "answer"} /\ outbox[serving] = <<>>
     /\ client[serving] \in {"connected", "gone", "done"}
  \/ hostPc = "result" /\ toEnclave = <<>> /\ toHost = <<>>

(* The host has dropped the connection of a client without an answer.      *)
Dropped(c) ==
  /\ Waiting(c) /\ inbox[c] = <<>>
  /\ serving # c /\ \A i \in DOMAIN backlog : backlog[i] # c

(* Every client that asks is answered, unless the host waits for ever in   *)
(* one of these two ways, or drops the client: because it sent a message   *)
(* of the second round first, because the host crashed or has read the     *)
(* answer to an earlier host, or because it cannot decode the result of    *)
(* the registration (main.rs:114-230).                                     *)
Excused(c) == client[c] = "strayed" \/ crashes > 0 \/ garbled > 0

ServedUnlessHung ==
  \/ \A c \in Clients : Waiting(c) ~> (~Waiting(c) \/ (Dropped(c) /\ Excused(c)))
  \/ <>[]Hung

(* FMD goes on between the clients, round after round, also after a crash  *)
(* has left the enclave waiting for a key and its answers one behind,      *)
(* unless the host waits for ever in one of these two ways                 *)
(* (scheduler.rs:54-57).                                                   *)
FmdGoesOn ==
  \/ []<>(hostPc = "blocks") /\ []<>(hostPc = "idle")
  \/ <>[]Hung

(* The host and the enclave take turns: when the host waits for the        *)
(* enclave, the enclave has something to answer or has answered            *)
(* (enclave/README.md "The host and enclave always take turns sending      *)
(* messages, starting with the host").                                     *)
SomeoneHasTheTurn ==
  hostPc \in {"report", "result", "blocks", "results"} =>
    toEnclave # <<>> \/ toHost # <<>>
=============================================================================
