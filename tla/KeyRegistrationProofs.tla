----------------------- MODULE KeyRegistrationProofs -----------------------
(***************************************************************************)
(* The connection between the host and the enclave, for any number of      *)
(* clients, crashes of the host and undecodable replies.                   *)
(*                                                                         *)
(* Until the host crashes the invariant says whose turn it is: what the    *)
(* host waits for determines what is on its way to the enclave or back,    *)
(* and which client the enclave has a session with; only an                *)
(* acknowledgement that gives up a client may still be ahead of the        *)
(* message the host sent last.  After a crash answers to the first host    *)
(* may be ahead of those to the second, and what is left is that a client  *)
(* asks once: its own report is the last message in the connection, and    *)
(* when the client has it the two are in step again.                       *)
(***************************************************************************)
EXTENDS KeyRegistration, SequenceTheorems, TLAPS

GiveUp == Plain("Fail")

IsRegistered(c) == \E i \in DOMAIN registered : registered[i] = c

(* The host has sent nothing that is answered.                             *)
Quiet ==
  /\ toHost = << >>
  /\ \/ toEnclave = << >> /\ session = None
     \/ toEnclave = << GiveUp >>

(* The host has sent m, and the enclave has not answered yet.              *)
Sent(m) ==
  /\ toHost = << >>
  /\ \/ toEnclave = << m >> /\ session = None
     \/ toEnclave = << GiveUp, m >>

Nothing == toEnclave = << >> /\ toHost = << >>

(* The enclave has answered.                                               *)
Got(m) == toEnclave = << >> /\ toHost = << m >>

GotGarbled == Got(Undecodable) /\ garbled > 0

IdleTurn == hostPc \in {"idle", "request"} => Quiet

ReportTurn ==
  hostPc = "report" =>
    \/ \E r \in Registrations : Sent(Msg(r, serving))
    \/ Got(Msg("RATLS", serving)) /\ session = serving
    \/ Got(Plain("ErrorForClient")) /\ session = None
    \/ GotGarbled /\ session \in {None, serving}

HasReport(c) == \E r \in Reports : inbox[c] = << r >>

AnswerTurn ==
  hostPc = "answer" =>
    /\ Nothing
    /\ \/ session = serving
       \/ session = None /\ outbox[serving] = << >> /\ ~HasReport(serving)

ResultTurn ==
  hostPc = "result" =>
    \/ /\ toHost = << >> /\ session = serving
       /\ \E a \in Answers \ {"Other"} : toEnclave = << Msg(a, serving) >>
    \/ Nothing /\ session \in {None, serving}
    \/ Got(Plain("KeyRegSuccess")) /\ session = None
    \/ Got(Plain("ErrorForClient")) /\ session = None
    \/ GotGarbled /\ session = None

BlocksTurn ==
  hostPc = "blocks" =>
    \/ Sent(Plain("RequiredBlocks"))
    \/ Got(Plain("BlockRequests")) /\ session = None
    \/ Got(Plain("NoBlockRequests")) /\ session = None
    \/ GotGarbled /\ session = None

ResultsTurn ==
  hostPc = "results" =>
    /\ session = None
    /\ \/ toHost = << >> /\ toEnclave = << Plain("RequestedFlags") >>
       \/ Got(Plain("FmdResults"))
       \/ GotGarbled

InTurn ==
  /\ IdleTurn /\ ReportTurn /\ AnswerTurn /\ ResultTurn /\ BlocksTurn /\ ResultsTurn
  /\ hostPc # "down"

Turns == crashes = 0 => InTurn

-----------------------------------------------------------------------------
(* A client has at most one request: what the host and the enclave have    *)
(* seen of it before they handle it.                                       *)
Queued(c) == \E i \in DOMAIN backlog : backlog[i] = c

Fresh(c) ==
  client[c] = "new" \/ Queued(c) \/ (serving = c /\ hostPc = "request")

Unseen(c) ==
  /\ session # c /\ ~IsRegistered(c)
  /\ inbox[c] = << >> /\ client[c] # "answered"
  /\ \A i \in DOMAIN toEnclave : toEnclave[i].of # c
  /\ \A i \in DOMAIN toHost : toHost[i].of # c

OneRequest ==
  \A c \in Clients :
    /\ client[c] = "new" => ~Queued(c) /\ serving # c
    /\ Queued(c) => serving # c
    /\ Fresh(c) => Unseen(c)
    /\ client[c] \in {"new", "connected"} =>
         outbox[c] = << >> /\ (serving = c => hostPc = "request")

QueuedOnce == \A i, j \in DOMAIN backlog : backlog[i] = backlog[j] => i = j

(* What the client that is served has sent and received.                   *)
Served ==
  serving \in Clients =>
    /\ hostPc = "report" =>
         /\ outbox[serving] = << >> /\ inbox[serving] = << >>
         /\ client[serving] # "answered"
    /\ hostPc = "answer" /\ client[serving] = "asked" => outbox[serving] = << >>
    /\ hostPc = "result" /\ client[serving] = "asked" => inbox[serving] = << >>

(* The session, and the sessions asked for, are of different clients that  *)
(* are not registered.                                                     *)
Asks(i) == toEnclave[i].type \in Registrations

NotYet ==
  /\ session # None => ~IsRegistered(session)
  /\ \A i \in DOMAIN toEnclave :
       Asks(i) => ~IsRegistered(toEnclave[i].of) /\ toEnclave[i].of # session
  /\ \A i, j \in DOMAIN toEnclave :
       Asks(i) /\ Asks(j) /\ toEnclave[i].of = toEnclave[j].of => i = j
  /\ \A i, j \in DOMAIN registered : registered[i] = registered[j] => i = j

(* However many answers to an earlier host are in the connection, the      *)
(* report of a client is the last: when the client has it, the host and    *)
(* the enclave are in step.                                                *)
OwnReport == Msg("RATLS", serving)

ReportStep ==
  \/ /\ \A i \in DOMAIN toHost : toHost[i] # OwnReport
     /\ \A i \in DOMAIN toEnclave : toEnclave[i].of = serving => i = Len(toEnclave)
  \/ /\ toEnclave = << >> /\ session = serving
     /\ \A i \in DOMAIN toHost : toHost[i] = OwnReport => i = Len(toHost)

AnswerStep ==
  client[serving] = "answered" \/ inbox[serving] = << OwnReport >> =>
    Nothing /\ session = serving

ResultStep ==
  client[serving] = "answered" =>
    \/ /\ toHost = << >> /\ session = serving
       /\ \E a \in Answers : toEnclave = << Msg(a, serving) >>
    \/ /\ toEnclave = << >>
       /\ \A i \in DOMAIN toHost :
            toHost[i] = Plain("KeyRegSuccess") => IsRegistered(serving)

InStep ==
  serving \in Clients =>
    /\ hostPc = "report" => ReportStep
    /\ hostPc = "answer" => AnswerStep
    /\ hostPc = "result" => ResultStep

Told == \A c \in Clients : ToldSo(c) => IsRegistered(c)

-----------------------------------------------------------------------------
(* A message is sent after one message, or none.                           *)
LEMMA AppendsToShort ==
  ASSUME NEW a, NEW b
  PROVE  Append(<< >>, a) = <<a>> /\ Append(<<a>>, b) = <<a, b>>
<1>. DEFINE S == {a, b}
<1>1. << >> \in Seq(S) /\ <<a>> \in Seq(S) /\ <<a, b>> \in Seq(S) /\ a \in S /\ b \in S
  OBVIOUS
<1>. HIDE DEF S
<1>2. Append(<< >>, a) = <<a>>
  <2>1. /\ Append(<< >>, a) \in Seq(S) /\ Len(Append(<< >>, a)) = 1
        /\ Append(<< >>, a)[1] = a
    BY <1>1
  <2>. QED
    BY <1>1, <2>1, SeqEqual
<1>3. Append(<<a>>, b) = <<a, b>>
  <2>1. /\ Append(<<a>>, b) \in Seq(S) /\ Len(Append(<<a>>, b)) = 2
        /\ Append(<<a>>, b)[1] = a /\ Append(<<a>>, b)[2] = b
    BY <1>1
  <2>2. Len(<<a, b>>) = 2 /\ <<a, b>>[1] = a /\ <<a, b>>[2] = b
    OBVIOUS
  <2>3. \A i \in 1..2 : i = 1 \/ i = 2
    OBVIOUS
  <2>. QED
    BY <1>1, <2>1, <2>2, <2>3, SeqEqual
<1>. QED
  BY <1>2, <1>3

(* Connections with one or two messages.                                   *)
LEMMA ShortConnections ==
  ASSUME NEW a, NEW b
  PROVE  /\ Append(<< >>, a) = <<a>> /\ Append(<<a>>, b) = <<a, b>>
         /\ Head(<<a>>) = a /\ Head(<<a, b>>) = a
         /\ Tail(<<a>>) = << >> /\ Tail(<<a, b>>) = <<b>>
         /\ SubSeq(<<a, b>>, 3, 2) = << >> /\ SubSeq(<<a, b>>, 3, Len(<<a, b>>)) = << >>
         /\ Len(<< >>) = 0 /\ Len(<<a>>) = 1 /\ Len(<<a, b>>) = 2
         /\ <<a>> # << >> /\ <<a, b>> # << >> /\ <<a>> # <<a, b>>
         /\ <<a, b>>[1] = a /\ <<a>>[1] = a
         /\ [<<a>> EXCEPT ![1] = b] = <<b>>
<1>1. Append(<< >>, a) = <<a>> /\ Append(<<a>>, b) = <<a, b>>
  BY AppendsToShort
<1>2. Head(<<a>>) = a /\ Head(<<a, b>>) = a
  OBVIOUS
<1>3. Tail(<<a>>) = << >>
  OBVIOUS
<1>4. Tail(<<a, b>>) = <<b>>
  OBVIOUS
<1>5. SubSeq(<<a, b>>, 3, 2) = << >> /\ SubSeq(<<a, b>>, 3, Len(<<a, b>>)) = << >>
  OBVIOUS
<1>6. Len(<< >>) = 0 /\ Len(<<a>>) = 1 /\ Len(<<a, b>>) = 2
  OBVIOUS
<1>7. <<a>> # << >> /\ <<a, b>> # << >> /\ <<a>> # <<a, b>>
  OBVIOUS
<1>8. <<a, b>>[1] = a /\ <<a>>[1] = a
  OBVIOUS
<1>9. [<<a>> EXCEPT ![1] = b] = <<b>>
  OBVIOUS
<1>. QED
  BY <1>1, <1>2, <1>3, <1>4, <1>5, <1>6, <1>7, <1>8, <1>9

(* Two messages are the same if their types and their clients are.         *)
LEMMA MsgEqual ==
  \A t, u, c, d : Msg(t, c) = Msg(u, d) => t = u /\ c = d
<1>. SUFFICES ASSUME NEW t, NEW u, NEW c, NEW d, Msg(t, c) = Msg(u, d)
              PROVE  t = u /\ c = d
  OBVIOUS
<1>1. Msg(t, c).type = t /\ Msg(t, c).of = c
  BY DEF Msg
<1>2. Msg(u, d).type = u /\ Msg(u, d).of = d
  BY DEF Msg
<1>. QED
  BY <1>1, <1>2

(* What a message says.                                                    *)
LEMMA MsgParts == \A t, c : Msg(t, c).type = t /\ Msg(t, c).of = c
BY DEF Msg

(* A message without a client.                                             *)
LEMMA PlainParts ==
  /\ \A t : Plain(t).type = t /\ Plain(t).of = None
  /\ \A t, u : Plain(t) = Plain(u) => t = u
  /\ \A t, c : Msg("RATLS", c) = Plain(t) => t = "RATLS"
BY MsgParts DEF Plain

(* Messages are half a frame only where the model says so.                 *)
LEMMA WholeFrames ==
  \A c : \A t \in Requests \cup Answers \cup {"RequiredBlocks", "RequestedFlags"} :
    Msg(t, c) # Half
BY MsgEqual DEF Plain, Half, Requests, Registrations, Queries, Answers

(* What the enclave reads when there is one message.                       *)
LEMMA ReadsOne ==
  ASSUME NEW m, toEnclave = << m >>, ReadFrame \/ ReadBrokenFrame
  PROVE  toEnclave' = << >> /\ (MainLoop(m) \/ AwaitAck(m))
<1>1. /\ Head(<< m >>) = m /\ Tail(<< m >>) = << >> /\ Len(<< m >>) = 1
      /\ << m >>[1] = m
  BY ShortConnections
<1>. QED
  BY <1>1 DEF ReadFrame, ReadBrokenFrame

(* Of two whole frames the enclave takes the first and leaves the second.  *)
LEMMA ReadsFirst ==
  ASSUME NEW m, NEW n, n # Half, toEnclave = << n, m >>,
         ReadFrame \/ ReadBrokenFrame
  PROVE  /\ toEnclave' = << m >>
         /\ MainLoop(n) \/ AwaitAck(n)
<1>1. /\ Head(<< n, m >>) = n /\ Tail(<< n, m >>) = << m >> /\ << n, m >>[1] = n
  BY ShortConnections
<1>. QED
  BY <1>1 DEF ReadFrame, ReadBrokenFrame

(* A failing acknowledgement ends the session, if there is one, and is not *)
(* answered.                                                               *)
LEMMA ReadsFailure ==
  ASSUME MainLoop(GiveUp) \/ AwaitAck(GiveUp)
  PROVE  session' = None /\ UNCHANGED <<toHost, registered>>
<1>1. GiveUp.type = "Fail"
  BY PlainParts DEF GiveUp
<1>. QED
  BY <1>1 DEF MainLoop, AwaitAck, Answers

(* What waits for an answer is sent when the connection is quiet.          *)
LEMMA SendsFirst ==
  ASSUME NEW m, Quiet, SendEnclave(m), UNCHANGED <<toHost, session>>
  PROVE  /\ toHost' = << >>
         /\ \/ toEnclave' = << m >> /\ session' = None
            \/ toEnclave' = << GiveUp, m >>
<1>1. Append(<< >>, m) = << m >> /\ Append(<< GiveUp >>, m) = << GiveUp, m >>
  BY AppendsToShort
<1>. QED
  BY <1>1 DEF Quiet, SendEnclave

(* The enclave reads what is left of a client the host has given up.       *)
LEMMA QuietStep ==
  ASSUME Quiet, ReadFrame \/ ReadBrokenFrame
  PROVE  Quiet'
<1>1. CASE toEnclave = << >>
  BY <1>1, ShortConnections DEF ReadFrame, ReadBrokenFrame
<1>2. CASE toEnclave = << GiveUp >>
  BY <1>2, ReadsOne, ReadsFailure DEF Quiet
<1>. QED
  BY <1>1, <1>2 DEF Quiet

(* The enclave reads the message the host has sent, or the failing         *)
(* acknowledgement ahead of it.                                            *)
LEMMA SentStep ==
  ASSUME NEW m, Sent(m), ReadFrame \/ ReadBrokenFrame
  PROVE  \/ toHost' = << >> /\ toEnclave' = << m >> /\ session' = None
         \/ /\ toHost = << >> /\ toEnclave' = << >> /\ session = None
            /\ MainLoop(m)
<1>1. CASE toEnclave = << m >> /\ session = None
  BY <1>1, ReadsOne DEF Sent, AwaitAck
<1>2. CASE toEnclave = << GiveUp, m >>
  <2>1. GiveUp # Half
    BY WholeFrames DEF GiveUp, Plain, Answers
  <2>2. toEnclave' = << m >> /\ session' = None /\ UNCHANGED toHost
    BY <1>2, <2>1, ReadsFirst, ReadsFailure
  <2>. QED
    BY <2>2 DEF Sent
<1>. QED
  BY <1>1, <1>2 DEF Sent

-----------------------------------------------------------------------------
(* Until the first crash: a turn of the host that ends what it does leaves *)
(* the connection quiet.                                                   *)
LEMMA HostTurns ==
  ASSUME RegTypeOK, InTurn, HostStep,
         hostPc = "report" => outbox[serving] = << >>
  PROVE  InTurn'
<1>0. hostPc' = "idle" /\ Quiet' => InTurn'
  BY DEF InTurn, IdleTurn, ReportTurn, AnswerTurn, ResultTurn, BlocksTurn, ResultsTurn
<1>1. ~Restart
  BY DEF Restart, InTurn
<1>2. CASE Accept
  <2>1. hostPc' = "request" /\ Quiet
    BY <1>2 DEF Accept, InTurn, IdleTurn
  <2>2. Quiet'
    BY <1>2, <2>1 DEF Accept, Quiet, enclaveVars, GiveUp, Plain, Msg
  <2>. QED
    BY <2>1, <2>2 DEF InTurn, IdleTurn, ReportTurn, AnswerTurn, ResultTurn,
                      BlocksTurn, ResultsTurn
<1>3. CASE IgnoreStray \/ \E r \in Queries : HandleQuery(r)
  <2>1. hostPc' = "idle" /\ Quiet
    BY <1>3 DEF IgnoreStray, HandleQuery, Done, InTurn, IdleTurn
  <2>2. Quiet'
    BY <1>3, <2>1 DEF IgnoreStray, HandleQuery, Quiet, enclaveVars, GiveUp, Plain, Msg
  <2>. QED
    BY <1>0, <2>1, <2>2
<1>4. CASE BeginFmd
  <2>1. hostPc' = "blocks" /\ Quiet /\ SendEnclave(Plain("RequiredBlocks"))
    BY <1>4 DEF BeginFmd, InTurn, IdleTurn
  <2>2. Sent(Plain("RequiredBlocks"))'
    BY <1>4, <2>1, SendsFirst DEF BeginFmd, enclaveVars, Sent, GiveUp, Plain, Msg
  <2>. QED
    BY <2>1, <2>2 DEF InTurn, IdleTurn, ReportTurn, AnswerTurn, ResultTurn,
                      BlocksTurn, ResultsTurn
<1>5. ASSUME NEW r \in Registrations, HandleRegisterKey(r) PROVE InTurn'
  <2>1. /\ hostPc' = "report" /\ Quiet /\ SendEnclave(Msg(r, serving))
        /\ serving' = serving
    BY <1>5 DEF HandleRegisterKey, InTurn, IdleTurn
  <2>2. Sent(Msg(r, serving))'
    BY <1>5, <2>1, SendsFirst DEF HandleRegisterKey, enclaveVars, Sent, GiveUp, Plain, Msg
  <2>. QED
    BY <2>1, <2>2 DEF InTurn, IdleTurn, ReportTurn, AnswerTurn, ResultTurn,
                      BlocksTurn, ResultsTurn
<1>6. ASSUME NEW m \in Replies, RelayReport(m) PROVE InTurn'
  <2>1. hostPc = "report" /\ ReportTurn /\ ReadEnclave(m)
    BY <1>6 DEF RelayReport, InTurn
  <2>2. toHost # << >> /\ m = Head(toHost) /\ toHost' = Tail(toHost)
    BY <2>1 DEF ReadEnclave
  <2>3. /\ toEnclave = << >> /\ toHost' = << >>
        /\ \/ m = Msg("RATLS", serving) /\ session = serving
           \/ m = Plain("ErrorForClient") /\ session = None
           \/ m = Undecodable /\ session \in {None, serving}
    BY <2>1, <2>2, ShortConnections DEF ReportTurn, Sent, Got, GotGarbled
  <2>4. UNCHANGED <<outbox, session>>
    BY <1>6 DEF RelayReport, enclaveVars
  <2>5. CASE m # Undecodable
    <3>1. ForClient(m)
      BY <2>3, <2>5, MsgParts, PlainParts DEF ForClient
    <3>2. /\ hostPc' = "answer" /\ inbox' = [inbox EXCEPT ![serving] = << m >>]
          /\ UNCHANGED <<serving, toEnclave>>
      BY <1>6, <2>5, <3>1 DEF RelayReport, Unexpected, SendClient
    <3>3. serving \in Clients
      BY <2>1 DEF RegTypeOK
    <3>4. inbox'[serving] = << m >>
      BY <3>2, <3>3 DEF RegTypeOK
    <3>5. m = Plain("ErrorForClient") => ~HasReport(serving)'
      <4>1. ASSUME NEW r \in Reports, m = Plain("ErrorForClient"), << m >> = << r >>
            PROVE  FALSE
        <5>1. m = r
          BY <4>1
        <5>. QED
          BY <4>1, <5>1, PlainParts DEF Reports
      <4>2. Reports' = Reports
        BY DEF Reports, Msg
      <4>. QED
        BY <3>2, <3>4, <4>1, <4>2 DEF HasReport
    <3>6. AnswerTurn'
      BY <2>1, <2>3, <2>4, <2>5, <3>2, <3>5 DEF AnswerTurn, Nothing
    <3>. QED
      BY <3>2, <3>6 DEF InTurn, IdleTurn, ReportTurn, ResultTurn, BlocksTurn,
                        ResultsTurn
  <2>6. CASE m = Undecodable
    <3>1. ~ForClient(m)
      BY <2>6, PlainParts DEF ForClient, Undecodable
    <3>2. hostPc' = "result" /\ UNCHANGED <<serving, toEnclave>>
      BY <1>6, <2>6, <3>1 DEF RelayReport, Unexpected
    <3>3. ResultTurn'
      BY <2>3, <2>4, <2>6, <3>2 DEF ResultTurn, Nothing
    <3>. QED
      BY <3>2, <3>3 DEF InTurn, IdleTurn, ReportTurn, AnswerTurn, BlocksTurn,
                        ResultsTurn
  <2>. QED
    BY <2>5, <2>6
<1>7. ASSUME NEW a \in Answers, RelayAnswer(a) PROVE InTurn'
  <2>1. hostPc = "answer" /\ AnswerTurn /\ outbox[serving] = << a >>
    BY <1>7 DEF RelayAnswer, ReadClient, InTurn
  <2>2. Nothing /\ session = serving
    BY <2>1, ShortConnections DEF AnswerTurn
  <2>3. UNCHANGED <<toHost, session>>
    BY <1>7 DEF RelayAnswer, enclaveVars
  <2>4. CASE a = "Other"
    <3>1. hostPc' = "idle" /\ toEnclave' = Append(toEnclave, GiveUp)
      BY <1>7, <2>4 DEF RelayAnswer, Abort, Done, SendEnclave, GiveUp
    <3>2. toEnclave' = << GiveUp >> /\ GiveUp' = GiveUp
      BY <2>2, <3>1, ShortConnections DEF Nothing, GiveUp, Plain, Msg
    <3>3. Quiet'
      BY <2>2, <2>3, <3>2 DEF Quiet, Nothing
    <3>. QED
      BY <1>0, <3>1, <3>3
  <2>5. CASE a # "Other"
    <3>1. /\ hostPc' = "result" /\ UNCHANGED serving
          /\ toEnclave' = Append(toEnclave, Msg(a, serving))
      BY <1>7, <2>5 DEF RelayAnswer, SendEnclave
    <3>2. toEnclave' = << Msg(a, serving) >>
      BY <2>2, <3>1, ShortConnections DEF Nothing
    <3>3. ResultTurn'
      BY <2>2, <2>3, <2>5, <3>1, <3>2 DEF ResultTurn, Nothing, Msg
    <3>. QED
      BY <3>1, <3>3 DEF InTurn, IdleTurn, ReportTurn, AnswerTurn, BlocksTurn,
                        ResultsTurn
  <2>. QED
    BY <2>4, <2>5
<1>8. ASSUME NEW m \in Replies, RelayResult(m) PROVE InTurn'
  <2>1. hostPc = "result" /\ ResultTurn
    BY <1>8 DEF RelayResult, InTurn
  <2>2. toHost # << >> /\ m = Head(toHost) /\ toHost' = Tail(toHost)
    BY <1>8 DEF RelayResult, ReadEnclave
  <2>3. /\ toEnclave = << >> /\ toHost' = << >> /\ session = None
        /\ m \in {Plain("KeyRegSuccess"), Plain("ErrorForClient"), Undecodable}
    BY <2>1, <2>2, ShortConnections DEF ResultTurn, Nothing, Got, GotGarbled
  <2>4. ~Unexpected(m)
    BY <2>3, PlainParts DEF Unexpected, ForClient
  <2>5. hostPc' = "idle" /\ UNCHANGED <<toEnclave, session>>
    BY <1>8, <2>4 DEF RelayResult, Done, enclaveVars
  <2>6. Quiet'
    BY <2>3, <2>5 DEF Quiet
  <2>. QED
    BY <1>0, <2>5, <2>6
<1>9. ASSUME NEW m \in Replies, ReadBlocks(m) PROVE InTurn'
  <2>1. hostPc = "blocks" /\ BlocksTurn
    BY <1>9 DEF ReadBlocks, InTurn
  <2>2. toHost # << >> /\ m = Head(toHost) /\ toHost' = Tail(toHost)
    BY <1>9 DEF ReadBlocks, ReadEnclave
  <2>3. toEnclave = << >> /\ toHost' = << >> /\ session = None
    BY <2>1, <2>2, ShortConnections DEF BlocksTurn, Sent, Got, GotGarbled
  <2>4. UNCHANGED session
    BY <1>9 DEF ReadBlocks, enclaveVars
  <2>5. CASE m = Plain("BlockRequests")
    <3>1. /\ hostPc' = "results"
          /\ toEnclave' = Append(toEnclave, Plain("RequestedFlags"))
      BY <1>9, <2>5 DEF ReadBlocks, SendEnclave
    <3>2. toEnclave' = << Plain("RequestedFlags") >>
      BY <2>3, <3>1, ShortConnections
    <3>3. ResultsTurn'
      BY <2>3, <2>4, <3>1, <3>2 DEF ResultsTurn, Plain, Msg
    <3>. QED
      BY <3>1, <3>3 DEF InTurn, IdleTurn, ReportTurn, AnswerTurn, ResultTurn,
                        BlocksTurn
  <2>6. CASE m # Plain("BlockRequests")
    <3>1. hostPc' = "idle" /\ UNCHANGED toEnclave
      BY <1>9, <2>6 DEF ReadBlocks
    <3>2. Quiet'
      BY <2>3, <2>4, <3>1 DEF Quiet
    <3>. QED
      BY <1>0, <3>1, <3>2
  <2>. QED
    BY <2>5, <2>6
<1>10. ASSUME NEW m \in Replies, ReadResults(m) PROVE InTurn'
  <2>1. hostPc = "results" /\ ResultsTurn
    BY <1>10 DEF ReadResults, InTurn
  <2>2. toHost # << >> /\ m = Head(toHost) /\ toHost' = Tail(toHost)
    BY <1>10 DEF ReadResults, ReadEnclave
  <2>3. toEnclave = << >> /\ toHost' = << >> /\ session = None
    BY <2>1, <2>2, ShortConnections DEF ResultsTurn, Got, GotGarbled
  <2>4. hostPc' = "idle" /\ UNCHANGED <<toEnclave, session>>
    BY <1>10 DEF ReadResults, enclaveVars
  <2>5. Quiet'
    BY <2>3, <2>4 DEF Quiet
  <2>. QED
    BY <1>0, <2>4, <2>5
<1>. QED
  BY <1>1, <1>2, <1>3, <1>4, <1>5, <1>6, <1>7, <1>8, <1>9, <1>10 DEF HostStep

(* Until the first crash: a step of the enclave answers the message it is  *)
(* the turn of.                                                            *)
LEMMA EnclaveTurns ==
  ASSUME RegTypeOK, InTurn, EnclaveStep
  PROVE  InTurn'
<1>1. /\ ReadFrame \/ ReadBrokenFrame
      /\ UNCHANGED <<hostPc, serving, outbox, inbox, garbled>>
  BY DEF EnclaveStep, hostVars, clientVars, faultVars
<1>2. toEnclave # << >>
  BY <1>1, ShortConnections DEF ReadFrame, ReadBrokenFrame
<1>3. IdleTurn'
  BY <1>1, QuietStep DEF InTurn, IdleTurn
<1>4. ReportTurn'
  <2>. SUFFICES ASSUME hostPc = "report" PROVE ReportTurn'
    BY <1>1 DEF ReportTurn
  <2>1. PICK r \in Registrations : Sent(Msg(r, serving))
    BY <1>2 DEF InTurn, ReportTurn, Got, GotGarbled
  <2>. DEFINE m == Msg(r, serving)
  <2>2. CASE toHost' = << >> /\ toEnclave' = << m >> /\ session' = None
    <3>1. Sent(Msg(r, serving))'
      BY <1>1, <2>2 DEF Sent, Msg
    <3>. QED
      BY <3>1 DEF ReportTurn
  <2>3. CASE toHost = << >> /\ toEnclave' = << >> /\ session = None /\ MainLoop(m)
    <3>1. \A x : Append(toHost, x) = << x >>
      BY <2>3, AppendsToShort
    <3>2. m.type = r /\ m.of = serving
      BY MsgParts
    <3>3. CASE r = "RegisterKey"
      <4>1. toHost' = << Msg("RATLS", serving) >> /\ session' = serving
        BY <2>3, <3>1, <3>2, <3>3 DEF MainLoop, Reply, Answers
      <4>2. Got(Msg("RATLS", serving))'
        BY <1>1, <2>3, <4>1 DEF Got, Msg
      <4>. QED
        BY <1>1, <4>1, <4>2 DEF ReportTurn
    <3>4. CASE r = "RegisterWeakKey"
      <4>1. toHost' = << Plain("ErrorForClient") >> /\ session' = None
        BY <2>3, <3>1, <3>2, <3>4 DEF MainLoop, Reply, Answers
      <4>2. Got(Plain("ErrorForClient"))'
        BY <2>3, <4>1 DEF Got, Plain, Msg
      <4>. QED
        BY <4>1, <4>2 DEF ReportTurn
    <3>. QED
      BY <3>3, <3>4 DEF Registrations
  <2>. QED
    BY <1>1, <2>1, <2>2, <2>3, SentStep
<1>5. AnswerTurn'
  BY <1>1, <1>2 DEF InTurn, AnswerTurn, Nothing
<1>6. ResultTurn'
  <2>. SUFFICES ASSUME hostPc = "result" PROVE ResultTurn'
    BY <1>1 DEF ResultTurn
  <2>1. PICK a \in Answers \ {"Other"} :
          toHost = << >> /\ session = serving /\ toEnclave = << Msg(a, serving) >>
    BY <1>2 DEF InTurn, ResultTurn, Got, GotGarbled, Nothing
  <2>2. serving \in Clients /\ serving # None
    BY RegistrationAssumption DEF RegTypeOK
  <2>. DEFINE m == Msg(a, serving)
  <2>3. toEnclave' = << >> /\ AwaitAck(m)
    BY <1>1, <2>1, <2>2, ReadsOne DEF MainLoop
  <2>4. \A x : Append(toHost, x) = << x >>
    BY <2>1, AppendsToShort
  <2>5. m.type = a /\ m.of = serving
    BY MsgParts
  <2>6. CASE a = "Success"
    <3>1. toHost' = << Plain("KeyRegSuccess") >> /\ session' = None
      BY <2>1, <2>3, <2>4, <2>5, <2>6 DEF AwaitAck, Reply, Answers
    <3>2. Got(Plain("KeyRegSuccess"))'
      BY <2>3, <3>1 DEF Got, Plain, Msg
    <3>. QED
      BY <3>1, <3>2 DEF ResultTurn
  <2>7. CASE a = "Garbled"
    <3>1. toHost' = << Plain("ErrorForClient") >> /\ session' = None
      BY <2>1, <2>3, <2>4, <2>5, <2>7 DEF AwaitAck, Reply, Answers
    <3>2. Got(Plain("ErrorForClient"))'
      BY <2>3, <3>1 DEF Got, Plain, Msg
    <3>. QED
      BY <3>1, <3>2 DEF ResultTurn
  <2>8. CASE a = "Fail"
    BY <2>1, <2>3, <2>5, <2>8 DEF AwaitAck, Answers, ResultTurn, Nothing
  <2>. QED
    BY <2>6, <2>7, <2>8 DEF Answers
<1>7. BlocksTurn'
  <2>. SUFFICES ASSUME hostPc = "blocks" PROVE BlocksTurn'
    BY <1>1 DEF BlocksTurn
  <2>. DEFINE m == Plain("RequiredBlocks")
  <2>1. Sent(m)
    BY <1>2 DEF InTurn, BlocksTurn, Got, GotGarbled
  <2>2. CASE toHost' = << >> /\ toEnclave' = << m >> /\ session' = None
    <3>1. Sent(Plain("RequiredBlocks"))'
      BY <2>2 DEF Sent, Plain, Msg
    <3>. QED
      BY <3>1 DEF BlocksTurn
  <2>3. CASE toHost = << >> /\ toEnclave' = << >> /\ session = None /\ MainLoop(m)
    <3>1. \A x : Append(toHost, x) = << x >>
      BY <2>3, AppendsToShort
    <3>2. m.type = "RequiredBlocks"
      BY PlainParts
    <3>3. /\ session' = None
          /\ \/ toHost' = << Plain("BlockRequests") >>
             \/ toHost' = << Plain("NoBlockRequests") >>
      BY <2>3, <3>1, <3>2 DEF MainLoop, Reply, BlockRequests, Answers
    <3>4. Got(Plain("BlockRequests"))' \/ Got(Plain("NoBlockRequests"))'
      BY <2>3, <3>3 DEF Got, Plain, Msg
    <3>. QED
      BY <3>3, <3>4 DEF BlocksTurn
  <2>. QED
    BY <1>1, <2>1, <2>2, <2>3, SentStep
<1>8. ResultsTurn'
  <2>. SUFFICES ASSUME hostPc = "results" PROVE ResultsTurn'
    BY <1>1 DEF ResultsTurn
  <2>. DEFINE m == Plain("RequestedFlags")
  <2>1. session = None /\ toHost = << >> /\ toEnclave = << m >>
    BY <1>2 DEF InTurn, ResultsTurn, Got, GotGarbled
  <2>2. toEnclave' = << >> /\ MainLoop(m)
    BY <1>1, <2>1, ReadsOne DEF AwaitAck
  <2>3. \A x : Append(toHost, x) = << x >>
    BY <2>1, AppendsToShort
  <2>4. m.type = "RequestedFlags"
    BY PlainParts
  <2>5. toHost' = << Plain("FmdResults") >> /\ session' = None
    BY <2>1, <2>2, <2>3, <2>4 DEF MainLoop, Reply, Answers
  <2>6. Got(Plain("FmdResults"))'
    BY <2>2, <2>5 DEF Got, Plain, Msg
  <2>. QED
    BY <2>5, <2>6 DEF ResultsTurn
<1>9. hostPc' # "down"
  BY <1>1 DEF InTurn
<1>. QED
  BY <1>3, <1>4, <1>5, <1>6, <1>7, <1>8, <1>9 DEF InTurn

(* The clients and the serial port leave the connection as it is.          *)
LEMMA OtherTurns ==
  ASSUME RegTypeOK, InTurn, OneRequest,
         \/ Garble \/ UNCHANGED regVars
         \/ \E c \in Clients :
              \/ Connect(c) \/ ClientStep(c) \/ Vanish(c)
              \/ \E r \in Requests : Ask(c, r)
  PROVE  InTurn'
<1>1. CASE Garble
  <2>1. /\ toHost # << >> /\ toHost' = [toHost EXCEPT ![1] = Undecodable]
        /\ garbled' = garbled + 1 /\ garbled \in Nat
        /\ UNCHANGED <<hostPc, serving, toEnclave, session>>
    BY <1>1, RegistrationAssumption
       DEF Garble, RegTypeOK, hostVars, enclaveVars
  <2>2. ASSUME NEW m, Got(m) PROVE GotGarbled'
    <3>1. [<< m >> EXCEPT ![1] = Undecodable] = << Undecodable >>
      BY ShortConnections
    <3>2. Undecodable' = Undecodable
      BY DEF Undecodable, Plain, Msg
    <3>. QED
      BY <2>1, <2>2, <3>1, <3>2 DEF Got, GotGarbled
  <2>3. CASE hostPc \in {"idle", "request"}
    BY <2>1, <2>3 DEF InTurn, IdleTurn, Quiet
  <2>4. CASE hostPc = "report"
    <3>1. session \in {None, serving} /\ \E m : Got(m)
      BY <2>1, <2>4 DEF InTurn, ReportTurn, Sent, GotGarbled
    <3>. QED
      BY <2>1, <2>2, <2>4, <3>1 DEF InTurn, IdleTurn, ReportTurn, AnswerTurn,
                                    ResultTurn, BlocksTurn, ResultsTurn
  <2>5. CASE hostPc = "answer"
    BY <2>1, <2>5 DEF InTurn, AnswerTurn, Nothing
  <2>6. CASE hostPc = "result"
    <3>1. session = None /\ \E m : Got(m)
      BY <2>1, <2>6 DEF InTurn, ResultTurn, Nothing, GotGarbled
    <3>. QED
      BY <2>1, <2>2, <2>6, <3>1 DEF InTurn, IdleTurn, ReportTurn, AnswerTurn,
                                    ResultTurn, BlocksTurn, ResultsTurn
  <2>7. CASE hostPc = "blocks"
    <3>1. session = None /\ \E m : Got(m)
      BY <2>1, <2>7 DEF InTurn, BlocksTurn, Sent, GotGarbled
    <3>. QED
      BY <2>1, <2>2, <2>7, <3>1 DEF InTurn, IdleTurn, ReportTurn, AnswerTurn,
                                    ResultTurn, BlocksTurn, ResultsTurn
  <2>8. CASE hostPc = "results"
    <3>1. session = None /\ \E m : Got(m)
      BY <2>1, <2>8 DEF InTurn, ResultsTurn, GotGarbled
    <3>. QED
      BY <2>1, <2>2, <2>8, <3>1 DEF InTurn, IdleTurn, ReportTurn, AnswerTurn,
                                    ResultTurn, BlocksTurn, ResultsTurn
  <2>. QED
    BY <2>3, <2>4, <2>5, <2>6, <2>7, <2>8 DEF RegTypeOK, InTurn
<1>2. ASSUME UNCHANGED <<hostVars, toEnclave, toHost, enclaveVars, faultVars>>,
             AnswerTurn'
      PROVE  InTurn'
  <2>1. Quiet' = Quiet /\ \A m : Sent(m)' = Sent(m) /\ Got(m)' = Got(m)
    BY <1>2 DEF Quiet, Sent, Got, enclaveVars, GiveUp, Plain, Msg
  <2>. QED
    BY <1>2, <2>1 DEF InTurn, IdleTurn, Quiet, ReportTurn, Sent, ResultTurn, Nothing, Got,
              GotGarbled, BlocksTurn, ResultsTurn, hostVars,
              enclaveVars, faultVars, GiveUp, Undecodable, Plain, Msg
<1>3. ASSUME NEW c, UNCHANGED <<hostVars, toEnclave, toHost, enclaveVars>>,
             serving # c \/ HasReport(c),
             serving # c => inbox'[serving] = inbox[serving]
                            /\ outbox'[serving] = outbox[serving]
      PROVE  AnswerTurn'
  <2>1. serving # c => (HasReport(serving)' <=> HasReport(serving))
    <3>1. Reports' = Reports
      BY DEF Reports, Msg
    <3>. QED
      BY <1>3, <3>1 DEF HasReport, hostVars
  <2>. QED
    BY <1>3, <2>1 DEF InTurn, AnswerTurn, Nothing, hostVars, enclaveVars
<1>4. ASSUME NEW c \in Clients, Connect(c) \/ Vanish(c)
      PROVE  InTurn'
  <2>1. UNCHANGED <<hostVars, toEnclave, toHost, enclaveVars, faultVars, inbox, outbox>>
    BY <1>4 DEF Connect, Vanish
  <2>2. AnswerTurn'
    <3>1. HasReport(serving)' <=> HasReport(serving)
      BY <2>1 DEF HasReport, Reports, Msg, hostVars
    <3>. QED
      BY <2>1, <3>1 DEF InTurn, AnswerTurn, Nothing, hostVars, enclaveVars
  <2>. QED
    BY <1>2, <2>1, <2>2
<1>5. ASSUME NEW c \in Clients, NEW r \in Requests, Ask(c, r)
      PROVE  InTurn'
  <2>1. /\ UNCHANGED <<hostVars, toEnclave, toHost, enclaveVars, faultVars, inbox>>
        /\ client[c] = "connected"
    BY <1>5 DEF Ask
  <2>2. AnswerTurn'
    <3>1. CASE serving = c
      <4>1. hostPc' # "answer"
        BY <2>1, <3>1 DEF OneRequest, hostVars
      <4>. QED
        BY <4>1 DEF AnswerTurn
    <3>2. CASE serving # c
      <4>1. outbox'[serving] = outbox[serving]
        BY <1>5, <3>2 DEF Ask, RegTypeOK
      <4>. QED
        BY <1>3, <2>1, <3>2, <4>1
    <3>. QED
      BY <3>1, <3>2
  <2>. QED
    BY <1>2, <2>1, <2>2
<1>6. ASSUME NEW c \in Clients, NEW a \in Answers, Answer(c, a)
      PROVE  InTurn'
  <2>1. UNCHANGED <<hostVars, toEnclave, toHost, enclaveVars, faultVars>>
    BY <1>6 DEF Answer
  <2>2. HasReport(c)
    BY <1>6 DEF Answer, HasReport
  <2>3. serving # c => inbox'[serving] = inbox[serving]
                       /\ outbox'[serving] = outbox[serving]
    BY <1>6 DEF Answer, RegTypeOK
  <2>. QED
    BY <1>2, <1>3, <2>1, <2>2, <2>3
<1>7. ASSUME NEW c \in Clients, Finish(c) PROVE InTurn'
  <2>1. UNCHANGED <<hostVars, toEnclave, toHost, enclaveVars, faultVars, outbox>>
    BY <1>7 DEF Finish
  <2>2. CASE serving = c
    <3>1. inbox'[serving] = << >>
      BY <1>7, <2>2 DEF Finish, RegTypeOK
    <3>2. ~HasReport(serving)'
      BY <2>1, <3>1, ShortConnections DEF HasReport, hostVars
    <3>3. AnswerTurn'
      BY <2>1, <3>2 DEF InTurn, AnswerTurn, Nothing, hostVars, enclaveVars
    <3>. QED
      BY <1>2, <2>1, <3>3
  <2>3. CASE serving # c
    <3>1. inbox'[serving] = inbox[serving]
      BY <1>7, <2>3 DEF Finish, RegTypeOK
    <3>. QED
      BY <1>2, <1>3, <2>1, <2>3, <3>1
  <2>. QED
    BY <2>2, <2>3
<1>8. CASE UNCHANGED regVars
  <2>1. UNCHANGED <<hostVars, toEnclave, toHost, enclaveVars, faultVars, outbox, inbox>>
    BY <1>8 DEF regVars, clientVars
  <2>2. AnswerTurn'
    <3>1. HasReport(serving)' <=> HasReport(serving)
      BY <2>1 DEF HasReport, Reports, Msg, hostVars
    <3>. QED
      BY <2>1, <3>1 DEF InTurn, AnswerTurn, Nothing, hostVars, enclaveVars
  <2>. QED
    BY <1>2, <2>1, <2>2
<1>. QED
  BY <1>1, <1>4, <1>5, <1>6, <1>7, <1>8 DEF ClientStep

-----------------------------------------------------------------------------
(* The types.                                                              *)
LEMMA MessageTypes ==
  /\ \A t \in Registrations \cup Answers : \A c \in Clients : Msg(t, c) \in Message
  /\ Plain("RequiredBlocks") \in Message /\ Plain("RequestedFlags") \in Message
  /\ GiveUp \in Message /\ Half \in Message
  /\ \A m \in Message : m.of \in Clients \cup {None}
  /\ \A m \in Message : m.type \in Registrations => m.of \in Clients
<1>1. \A t \in Registrations \cup Answers : \A c \in Clients : Msg(t, c) \in Message
  BY DEF Msg, Message
<1>2. /\ Plain("RequiredBlocks") \in Message /\ Plain("RequestedFlags") \in Message
      /\ GiveUp \in Message /\ Half \in Message
  BY DEF Message, GiveUp, Half
<1>3. ASSUME NEW m \in Message
      PROVE  /\ m.of \in Clients \cup {None}
             /\ m.type \in Registrations => m.of \in Clients
  <2>1. CASE m \in [type : Registrations \cup Answers, of : Clients]
    BY <2>1
  <2>2. CASE \E t \in {"RequiredBlocks", "RequestedFlags", "Fail", "Half"} : m = Plain(t)
    BY <2>2, PlainParts DEF Registrations
  <2>. QED
    BY <2>1, <2>2 DEF Message
<1>. QED
  BY <1>1, <1>2, <1>3

(* The replies of the enclave.                                             *)
LEMMA ReplyTypes ==
  /\ \A c \in Clients : Msg("RATLS", c) \in Replies
  /\ \A t \in {"ErrorForClient", "KeyRegSuccess", "Error", "BlockRequests",
               "NoBlockRequests", "FmdResults", "Undecodable"} : Plain(t) \in Replies
  /\ Undecodable \in Replies
BY DEF Replies, Reports, Undecodable

(* What is on the enclave's connection, and stays on it when a message is  *)
(* read or sent, is a sequence of messages.                                *)
LEMMA ConnectionTypes ==
  ASSUME RegTypeOK
  PROVE  /\ toEnclave \in Seq(Message) /\ toHost \in Seq(Replies)
         /\ \A m \in Message : Append(toEnclave, m) \in Seq(Message)
         /\ \A m \in Replies : Append(toHost, m) \in Seq(Replies)
         /\ toEnclave # << >> => /\ Tail(toEnclave) \in Seq(Message)
                                 /\ Head(toEnclave) = toEnclave[1]
                                 /\ toEnclave[1] \in Message
                                 /\ 1 \in DOMAIN toEnclave
         /\ toHost # << >> => /\ Tail(toHost) \in Seq(Replies)
                              /\ Head(toHost) = toHost[1]
                              /\ 1 \in DOMAIN toHost
         /\ << >> \in Seq(Message) /\ << >> \in Seq(Replies)
         /\ << Undecodable >> \in Seq(Replies)
<1>1. toEnclave \in Seq(Message) /\ toHost \in Seq(Replies)
  BY DEF RegTypeOK
<1>2. Undecodable \in Replies
  BY ReplyTypes
<1>. QED
  BY <1>1, <1>2

(* A message to the client that is served is the only one on its way.      *)
ToClient == Replies \cup {Plain("UUID"), Plain("IndicesResponse")}

LEMMA SendClientTypes ==
  ASSUME RegTypeOK, serving \in Clients, NEW m \in ToClient, SendClient(m)
  PROVE  /\ inbox' \in [Clients -> Seq(ToClient)]
         /\ \A c \in Clients : Len(inbox'[c]) <= 1
         /\ inbox'[serving] = << m >>
         /\ \A c \in Clients : c # serving => inbox'[c] = inbox[c]
<1>1. << m >> \in Seq(ToClient) /\ Len(<< m >>) = 1
  OBVIOUS
<1>. QED
  BY <1>1 DEF RegTypeOK, SendClient, ToClient

(* What the host reads from a client is gone.                              *)
LEMMA ReadClientTypes ==
  ASSUME RegTypeOK, serving \in Clients, NEW m, ReadClient(m)
  PROVE  /\ outbox' \in [Clients -> Seq(Requests \cup Answers)]
         /\ \A c \in Clients : Len(outbox'[c]) <= 1
         /\ outbox'[serving] = << >>
         /\ \A c \in Clients : c # serving => outbox'[c] = outbox[c]
<1>1. << >> \in Seq(Requests \cup Answers) /\ Len(<< >>) = 0
  BY ShortConnections
<1>. QED
  BY <1>1 DEF RegTypeOK, ReadClient

(* The steps of the host keep the types.                                   *)
LEMMA HostTypes ==
  ASSUME RegTypeOK, HostStep
  PROVE  RegTypeOK'
<1>1. None \notin Clients
  BY RegistrationAssumption
<1>2. CASE Restart
  <2>1. toHost' \in Seq(Replies)
    BY <1>2, ConnectionTypes DEF Restart
  <2>. QED
    BY <1>2, <2>1 DEF Restart, RegTypeOK, clientVars, enclaveVars, faultVars
<1>3. CASE Accept
  <2>1. serving' \in Clients /\ backlog' \in Seq(Clients)
    BY <1>3 DEF Accept, RegTypeOK
  <2>. QED
    BY <1>1, <1>3, <2>1 DEF Accept, RegTypeOK, enclaveVars, faultVars
<1>4. CASE IgnoreStray
  <2>1. serving \in Clients
    BY <1>4 DEF IgnoreStray, RegTypeOK
  <2>2. ReadClient("Stray")
    BY <1>4 DEF IgnoreStray
  <2>. QED
    BY <1>4, <2>1, <2>2, ReadClientTypes
       DEF IgnoreStray, Done, RegTypeOK, enclaveVars, faultVars
<1>5. ASSUME NEW r \in Queries, HandleQuery(r) PROVE RegTypeOK'
  <2>1. serving \in Clients
    BY <1>5 DEF HandleQuery, RegTypeOK
  <2>2. ReadClient(r)
    BY <1>5 DEF HandleQuery
  <2>3. PICK m \in ToClient : SendClient(m)
    BY <1>5, ReplyTypes DEF HandleQuery, Response, ToClient
  <2>. QED
    BY <1>5, <2>1, <2>2, <2>3, ReadClientTypes, SendClientTypes
       DEF HandleQuery, Done, RegTypeOK, enclaveVars, faultVars, ToClient
<1>6. CASE BeginFmd
  <2>1. toEnclave' \in Seq(Message)
    BY <1>6, MessageTypes, ConnectionTypes DEF BeginFmd, SendEnclave
  <2>. QED
    BY <1>6, <2>1 DEF BeginFmd, RegTypeOK, clientVars, enclaveVars, faultVars
<1>7. ASSUME NEW r \in Registrations, HandleRegisterKey(r) PROVE RegTypeOK'
  <2>1. serving \in Clients
    BY <1>7 DEF HandleRegisterKey, RegTypeOK
  <2>2. ReadClient(r)
    BY <1>7 DEF HandleRegisterKey
  <2>3. toEnclave' \in Seq(Message)
    BY <1>7, <2>1, MessageTypes, ConnectionTypes DEF HandleRegisterKey, SendEnclave
  <2>. QED
    BY <1>7, <2>1, <2>2, <2>3, ReadClientTypes
       DEF HandleRegisterKey, RegTypeOK, enclaveVars, faultVars
<1>8. ASSUME NEW m \in Replies, RelayReport(m) \/ RelayResult(m) PROVE RegTypeOK'
  <2>1. serving \in Clients
    BY <1>8 DEF RelayReport, RelayResult, RegTypeOK
  <2>2. toHost' \in Seq(Replies)
    BY <1>8, ConnectionTypes DEF RelayReport, RelayResult, ReadEnclave
  <2>3. toEnclave' = toEnclave \/ toEnclave' = Append(toEnclave, GiveUp)
    BY <1>8 DEF RelayReport, RelayResult, Abort, SendEnclave, GiveUp
  <2>4. toEnclave' \in Seq(Message)
    BY <2>3, MessageTypes, ConnectionTypes
  <2>5. UNCHANGED inbox \/ SendClient(m)
    BY <1>8 DEF RelayReport, RelayResult
  <2>6. /\ inbox' \in [Clients -> Seq(ToClient)]
        /\ \A c \in Clients : Len(inbox'[c]) <= 1
    BY <2>1, <2>5, SendClientTypes DEF RegTypeOK, ToClient
  <2>7. \/ hostPc' \in {"answer", "result"} /\ serving' = serving
        \/ hostPc' = "idle" /\ serving' = None
    BY <1>8 DEF RelayReport, RelayResult, Abort, Done
  <2>8. UNCHANGED <<client, outbox, backlog, session, registered, crashes, garbled>>
    BY <1>8 DEF RelayReport, RelayResult, enclaveVars, faultVars
  <2>. QED
    BY <1>1, <2>1, <2>2, <2>4, <2>6, <2>7, <2>8 DEF RegTypeOK, ToClient
<1>9. ASSUME NEW a \in Answers, RelayAnswer(a) PROVE RegTypeOK'
  <2>1. serving \in Clients
    BY <1>9 DEF RelayAnswer, RegTypeOK
  <2>2. ReadClient(a)
    BY <1>9 DEF RelayAnswer
  <2>3. \/ toEnclave' = Append(toEnclave, GiveUp)
        \/ toEnclave' = Append(toEnclave, Msg(a, serving))
    BY <1>9 DEF RelayAnswer, Abort, SendEnclave, GiveUp
  <2>4. toEnclave' \in Seq(Message)
    BY <2>1, <2>3, MessageTypes, ConnectionTypes
  <2>5. \/ hostPc' = "result" /\ serving' = serving
        \/ hostPc' = "idle" /\ serving' = None
    BY <1>9 DEF RelayAnswer, Abort, Done
  <2>. QED
    BY <1>1, <1>9, <2>1, <2>2, <2>4, <2>5, ReadClientTypes
       DEF RelayAnswer, RegTypeOK, enclaveVars, faultVars
<1>10. ASSUME NEW m \in Replies, ReadBlocks(m) \/ ReadResults(m) PROVE RegTypeOK'
  <2>1. toHost' \in Seq(Replies)
    BY <1>10, ConnectionTypes DEF ReadBlocks, ReadResults, ReadEnclave
  <2>2. \/ toEnclave' = toEnclave
        \/ toEnclave' = Append(toEnclave, Plain("RequestedFlags"))
    BY <1>10 DEF ReadBlocks, ReadResults, SendEnclave
  <2>3. toEnclave' \in Seq(Message)
    BY <2>2, MessageTypes, ConnectionTypes
  <2>4. hostPc \in {"blocks", "results"} /\ hostPc' \in {"idle", "results"}
    BY <1>10 DEF ReadBlocks, ReadResults
  <2>5. UNCHANGED <<client, outbox, inbox, backlog, serving, session, registered,
                    crashes, garbled>>
    BY <1>10 DEF ReadBlocks, ReadResults, clientVars, enclaveVars, faultVars
  <2>. QED
    BY <2>1, <2>3, <2>4, <2>5 DEF RegTypeOK
<1>. QED
  BY <1>2, <1>3, <1>4, <1>5, <1>6, <1>7, <1>8, <1>9, <1>10 DEF HostStep

(* How the connection and what the enclave keeps change when it reads: a   *)
(* session ends, and its client may be registered, or one is started.      *)
LEMMA EnclaveReads ==
  ASSUME RegTypeOK, EnclaveStep
  PROVE  /\ toEnclave # << >> /\ toEnclave' \in Seq(Message)
         /\ \/ toEnclave' = Tail(toEnclave)
            \/ toEnclave[1] = Half /\ toEnclave' = SubSeq(toEnclave, 3, Len(toEnclave))
         /\ toHost' = toHost \/ \E m \in Replies : toHost' = Append(toHost, m)
         /\ \/ session' = None /\ UNCHANGED registered
               /\ (toHost' = toHost
                   \/ \E t \in {"ErrorForClient", "Error", "BlockRequests",
                                "NoBlockRequests", "FmdResults"} :
                        toHost' = Append(toHost, Plain(t)))
            \/ /\ UNCHANGED registered
               /\ toEnclave' = Tail(toEnclave)
               /\ toEnclave[1].type = "RegisterKey" /\ session' = toEnclave[1].of
               /\ toHost' = Append(toHost, Msg("RATLS", toEnclave[1].of))
            \/ /\ session \in Clients /\ session' = None
               /\ toEnclave' = Tail(toEnclave)
               /\ toEnclave[1] = Msg("Success", session)
               /\ registered' = Append(registered, session)
               /\ toHost' = Append(toHost, Plain("KeyRegSuccess"))
<1>1. toEnclave \in Seq(Message) /\ toHost \in Seq(Replies)
  BY ConnectionTypes
<1>2. CASE ReadFrame
  <2>1. /\ toEnclave # << >>
        /\ toEnclave' = Tail(toEnclave) /\ toEnclave' \in Seq(Message)
        /\ toEnclave[1] \in Message
        /\ MainLoop(toEnclave[1]) \/ AwaitAck(toEnclave[1])
    BY <1>2, ConnectionTypes DEF ReadFrame
  <2>. DEFINE m == toEnclave[1]
  <2>. HIDE DEF m
  <2>2. \/ session' = None /\ UNCHANGED registered
           /\ (toHost' = toHost
               \/ \E t \in {"ErrorForClient", "Error", "BlockRequests",
                            "NoBlockRequests", "FmdResults"} :
                    toHost' = Append(toHost, Plain(t)))
        \/ /\ UNCHANGED registered
           /\ m.type = "RegisterKey" /\ session' = m.of
           /\ toHost' = Append(toHost, Msg("RATLS", m.of))
        \/ /\ session # None /\ session' = None
           /\ m.type = "Success" /\ m.of = session
           /\ registered' = Append(registered, session)
           /\ toHost' = Append(toHost, Plain("KeyRegSuccess"))
    <3>1. CASE MainLoop(m)
      BY <3>1 DEF MainLoop, Reply, BlockRequests
    <3>2. CASE AwaitAck(m)
      BY <3>2 DEF AwaitAck, Reply
    <3>. QED
      BY <2>1, <3>1, <3>2 DEF m
  <2>3. session # None /\ m.type = "Success" /\ m.of = session
        => m = Msg("Success", session) /\ session \in Clients
    <3>1. m \in [type : Registrations \cup Answers, of : Clients] =>
            m = Msg(m.type, m.of)
      BY DEF Msg
    <3>2. m.type = "Success" => m \in [type : Registrations \cup Answers, of : Clients]
      BY <2>1, PlainParts DEF Message, m
    <3>. QED
      BY <3>1, <3>2 DEF RegTypeOK
  <2>4. toHost' = toHost \/ \E r \in Replies : toHost' = Append(toHost, r)
    <3>1. m.type = "RegisterKey" => m.of \in Clients
      BY <2>1, MessageTypes DEF m, Registrations
    <3>. QED
      BY <2>2, <3>1, ReplyTypes
  <2>. QED
    BY <2>1, <2>2, <2>3, <2>4 DEF m
<1>3. CASE ReadBrokenFrame
  <2>1. /\ Len(toEnclave) > 1 /\ toEnclave[1] = Half
        /\ toEnclave' = SubSeq(toEnclave, 3, Len(toEnclave))
        /\ session' = None /\ UNCHANGED registered
        /\ toHost' = Append(toHost, Plain("Error"))
    BY <1>3 DEF ReadBrokenFrame, Reply
  <2>2. toEnclave # << >> /\ toEnclave' \in Seq(Message)
    BY <1>1, <2>1
  <2>. QED
    BY <2>1, <2>2, ReplyTypes
<1>. QED
  BY <1>2, <1>3 DEF EnclaveStep

(* A crash leaves what was sent first, and may cut the next frame short.   *)
LEMMA CrashKeeps ==
  ASSUME RegTypeOK, Crash
  PROVE  /\ toEnclave' \in Seq(Message)
         /\ \A i \in DOMAIN toEnclave' :
              toEnclave'[i] = Half \/ (i \in DOMAIN toEnclave /\ toEnclave'[i] = toEnclave[i])
<1>1. PICK n \in 0..Len(toEnclave) :
        \/ toEnclave' = SubSeq(toEnclave, 1, n)
        \/ toEnclave' = Append(SubSeq(toEnclave, 1, n), Half)
  BY DEF Crash, Kept
<1>. DEFINE s == SubSeq(toEnclave, 1, n)
<1>2. /\ s \in Seq(Message) /\ Len(s) = n /\ DOMAIN s \subseteq DOMAIN toEnclave
      /\ \A i \in DOMAIN s : s[i] = toEnclave[i]
  <2>1. toEnclave \in Seq(Message)
    BY ConnectionTypes
  <2>. QED
    BY <2>1
<1>. HIDE DEF s
<1>3. Half \in Message
  BY MessageTypes
<1>4. /\ Append(s, Half) \in Seq(Message)
      /\ \A i \in DOMAIN Append(s, Half) :
           Append(s, Half)[i] = Half \/ (i \in DOMAIN s /\ Append(s, Half)[i] = s[i])
  BY <1>2, <1>3
<1>. QED
  BY <1>1, <1>2, <1>4 DEF s

(* Every step keeps the types.                                             *)
LEMMA RegTypeStep ==
  ASSUME RegTypeOK, [RegNext]_regVars
  PROVE  RegTypeOK'
<1>1. CASE HostStep
  BY <1>1, HostTypes
<1>2. CASE EnclaveStep
  <2>1. UNCHANGED <<clientVars, hostVars, faultVars>>
    BY <1>2 DEF EnclaveStep
  <2>2. toEnclave' \in Seq(Message)
    BY <1>2, EnclaveReads
  <2>3. toHost' \in Seq(Replies)
    BY <1>2, EnclaveReads, ConnectionTypes
  <2>4. session' \in Clients \cup {None} /\ registered' \in Seq(Clients)
    <3>1. toEnclave # << >> => toEnclave[1].of \in Clients \cup {None}
      BY ConnectionTypes, MessageTypes
    <3>2. registered \in Seq(Clients)
      BY DEF RegTypeOK
    <3>3. session' \in Clients \cup {None}
      BY <1>2, <3>1, EnclaveReads DEF RegTypeOK
    <3>4. registered' = registered \/ \E c \in Clients : registered' = Append(registered, c)
      BY <1>2, EnclaveReads
    <3>. QED
      BY <3>2, <3>3, <3>4
  <2>. QED
    BY <2>1, <2>2, <2>3, <2>4 DEF RegTypeOK, clientVars, hostVars, faultVars
<1>3. CASE Crash
  <2>1. \A c \in Clients : outbox'[c] = << >>
    BY <1>3 DEF Crash
  <2>2. outbox' \in [Clients -> Seq(Requests \cup Answers)] /\ backlog' \in Seq(Clients)
    BY <1>3 DEF Crash
  <2>3. toEnclave' \in Seq(Message)
    BY <1>3, CrashKeeps
  <2>4. crashes' \in 0..MaxCrashes
    BY <1>3, RegistrationAssumption DEF Crash, RegTypeOK
  <2>5. \A c \in Clients : Len(outbox'[c]) <= 1
    BY <2>1, ShortConnections
  <2>. QED
    BY <1>3, <2>2, <2>3, <2>4, <2>5, RegistrationAssumption DEF Crash, RegTypeOK, enclaveVars
<1>4. CASE Garble
  <2>1. garbled' \in 0..MaxGarbled
    BY <1>4, RegistrationAssumption DEF Garble, RegTypeOK
  <2>2. toHost' \in Seq(Replies)
    <3>1. toHost \in Seq(Replies) /\ Undecodable \in Replies
      BY ReplyTypes, ConnectionTypes
    <3>. QED
      BY <1>4, <3>1 DEF Garble
  <2>. QED
    BY <1>4, <2>1, <2>2 DEF Garble, RegTypeOK, clientVars, hostVars, enclaveVars
<1>5. ASSUME NEW c \in Clients, Connect(c) PROVE RegTypeOK'
  <2>1. backlog' \in Seq(Clients)
    BY <1>5 DEF Connect, RegTypeOK
  <2>. QED
    BY <1>5, <2>1 DEF Connect, RegTypeOK, hostVars, enclaveVars, faultVars
<1>6. ASSUME NEW c \in Clients, NEW r \in Requests, Ask(c, r) PROVE RegTypeOK'
  <2>1. << r >> \in Seq(Requests \cup Answers) /\ Len(<< r >>) = 1
    OBVIOUS
  <2>2. /\ outbox' \in [Clients -> Seq(Requests \cup Answers)]
        /\ \A d \in Clients : Len(outbox'[d]) <= 1
    BY <1>6, <2>1 DEF Ask, RegTypeOK
  <2>. QED
    BY <1>6, <2>2 DEF Ask, RegTypeOK, hostVars, enclaveVars, faultVars
<1>7. ASSUME NEW c \in Clients, NEW a \in Answers, Answer(c, a) PROVE RegTypeOK'
  <2>1. << a >> \in Seq(Requests \cup Answers) /\ Len(<< a >>) = 1
        /\ << >> \in Seq(ToClient) /\ Len(<< >>) = 0
    BY ShortConnections
  <2>2. /\ outbox' \in [Clients -> Seq(Requests \cup Answers)]
        /\ \A d \in Clients : Len(outbox'[d]) <= 1
    BY <1>7, <2>1 DEF Answer, RegTypeOK
  <2>3. /\ inbox' \in [Clients -> Seq(ToClient)]
        /\ \A d \in Clients : Len(inbox'[d]) <= 1
    BY <1>7, <2>1 DEF Answer, RegTypeOK, ToClient
  <2>. QED
    BY <1>7, <2>2, <2>3 DEF Answer, RegTypeOK, hostVars, enclaveVars, faultVars, ToClient
<1>8. ASSUME NEW c \in Clients, Finish(c) PROVE RegTypeOK'
  <2>1. << >> \in Seq(ToClient) /\ Len(<< >>) = 0
    BY ShortConnections
  <2>2. /\ inbox' \in [Clients -> Seq(ToClient)]
        /\ \A d \in Clients : Len(inbox'[d]) <= 1
    BY <1>8, <2>1 DEF Finish, RegTypeOK, ToClient
  <2>. QED
    BY <1>8, <2>2 DEF Finish, RegTypeOK, hostVars, enclaveVars, faultVars, ToClient
<1>9. ASSUME NEW c \in Clients, Vanish(c) PROVE RegTypeOK'
  BY <1>9 DEF Vanish, RegTypeOK, hostVars, enclaveVars, faultVars
<1>10. CASE UNCHANGED regVars
  BY <1>10 DEF regVars, RegTypeOK, clientVars, hostVars, enclaveVars, faultVars
<1>. QED
  BY <1>1, <1>2, <1>3, <1>4, <1>5, <1>6, <1>7, <1>8, <1>9, <1>10 DEF RegNext, ClientStep

-----------------------------------------------------------------------------
(* The messages of a connection that grew or was read.                     *)
LEMMA MessagesOfAppend ==
  ASSUME NEW S, NEW s \in Seq(S), NEW m
  PROVE  /\ \A i \in DOMAIN Append(s, m) :
              \/ i = Len(s) + 1 /\ Append(s, m)[i] = m
              \/ i \in DOMAIN s /\ i # Len(s) + 1 /\ Append(s, m)[i] = s[i]
         /\ Len(Append(s, m)) = Len(s) + 1
  OBVIOUS

(* What is left when the first message is read.                            *)
LEMMA MessagesOfTail ==
  ASSUME NEW S, NEW s \in Seq(S), s # << >>
  PROVE  /\ \A i \in DOMAIN Tail(s) : i + 1 \in DOMAIN s /\ Tail(s)[i] = s[i + 1]
         /\ Len(Tail(s)) = Len(s) - 1
  OBVIOUS

(* What is left when the first two messages are taken.                     *)
LEMMA MessagesAfterTwo ==
  ASSUME NEW S, NEW s \in Seq(S), Len(s) > 1
  PROVE  LET rest == SubSeq(s, 3, Len(s)) IN
         /\ Len(rest) = Len(s) - 2
         /\ \A i \in DOMAIN rest : i + 2 \in DOMAIN s /\ rest[i] = s[i + 2]
<1>. DEFINE rest == SubSeq(s, 3, Len(s))
<1>1. Len(s) \in Nat /\ Len(rest) = Len(s) - 2
  <2>1. Len(s) \in Nat /\ 3 \in Int /\ Len(s) \in Int
        /\ \A i \in 3..Len(s) : s[i] \in S
    OBVIOUS
  <2>2. Len(rest) = IF 3 <= Len(s) THEN Len(s) - 3 + 1 ELSE 0
    BY <2>1, SubSeqProperties
  <2>3. \A n \in Nat : n > 1 => (IF 3 <= n THEN n - 3 + 1 ELSE 0) = n - 2
    OBVIOUS
  <2>. HIDE DEF rest
  <2>. QED
    BY <2>1, <2>2, <2>3
<1>2. \A i \in 1..(Len(s) - 2) : rest[i] = s[i + 2]
  BY <1>1
<1>3. DOMAIN rest = 1..(Len(s) - 2) /\ DOMAIN s = 1..Len(s)
  BY <1>1
<1>4. \A i \in 1..(Len(s) - 2) : i + 2 \in 1..Len(s)
  BY <1>1
<1>. QED
  BY <1>1, <1>2, <1>3, <1>4

(* A step of the enclave takes one message, or two, from its connection.   *)
LEMMA MessagesLeft ==
  ASSUME RegTypeOK, EnclaveStep
  PROVE  \E k \in {1, 2} :
           /\ Len(toEnclave') = Len(toEnclave) - k
           /\ \A i \in DOMAIN toEnclave' :
                i + k \in DOMAIN toEnclave /\ toEnclave'[i] = toEnclave[i + k]
<1>1. toEnclave \in Seq(Message)
  BY ConnectionTypes
<1>2. CASE toEnclave # << >> /\ toEnclave' = Tail(toEnclave)
  BY <1>1, <1>2, MessagesOfTail
<1>3. CASE Len(toEnclave) > 1 /\ toEnclave' = SubSeq(toEnclave, 3, Len(toEnclave))
  BY <1>1, <1>3, MessagesAfterTwo
<1>. QED
  BY <1>2, <1>3 DEF EnclaveStep, ReadFrame, ReadBrokenFrame

(* What the host sends: nothing, or a message about the client it serves;  *)
(* it asks for a session when it handles a request.                        *)
LEMMA HostSends ==
  ASSUME RegTypeOK, HostStep
  PROVE  /\ UNCHANGED <<client, session, registered>>
         /\ \/ toEnclave' = toEnclave
            \/ \E m : /\ toEnclave' = Append(toEnclave, m)
                      /\ m.of \in {serving, None}
                      /\ m.type \in Registrations =>
                           hostPc = "request" /\ m.of = serving /\ serving \in Clients
<1>. USE DEF enclaveVars
<1>1. ASSUME Restart \/ Accept \/ IgnoreStray PROVE UNCHANGED toEnclave
  BY <1>1 DEF Restart, Accept, IgnoreStray
<1>2. ASSUME BeginFmd PROVE toEnclave' = Append(toEnclave, Plain("RequiredBlocks"))
  BY <1>2 DEF BeginFmd, SendEnclave
<1>3. ASSUME NEW r \in Registrations, HandleRegisterKey(r)
      PROVE  \E m : /\ toEnclave' = Append(toEnclave, m)
                    /\ m.of \in {serving, None}
                    /\ m.type \in Registrations =>
                         hostPc = "request" /\ m.of = serving /\ serving \in Clients
  BY <1>3, MsgParts DEF HandleRegisterKey, SendEnclave, RegTypeOK
<1>4. ASSUME NEW r \in Queries, HandleQuery(r) PROVE UNCHANGED toEnclave
  BY <1>4 DEF HandleQuery
<1>5. ASSUME NEW m, RelayReport(m) \/ RelayResult(m)
      PROVE  toEnclave' = toEnclave \/ toEnclave' = Append(toEnclave, GiveUp)
  BY <1>5 DEF RelayReport, RelayResult, Abort, SendEnclave, GiveUp
<1>6. ASSUME NEW a \in Answers, RelayAnswer(a)
      PROVE  \/ toEnclave' = Append(toEnclave, GiveUp)
             \/ toEnclave' = Append(toEnclave, Msg(a, serving))
  BY <1>6 DEF RelayAnswer, Abort, SendEnclave, GiveUp
<1>7. ASSUME NEW m, ReadBlocks(m) \/ ReadResults(m)
      PROVE  \/ toEnclave' = toEnclave
             \/ toEnclave' = Append(toEnclave, Plain("RequestedFlags"))
  BY <1>7 DEF ReadBlocks, ReadResults, SendEnclave
<1>8. /\ GiveUp.of = None /\ GiveUp.type \notin Registrations
      /\ Plain("RequestedFlags").of = None
      /\ Plain("RequestedFlags").type \notin Registrations
      /\ Plain("RequiredBlocks").of = None
      /\ Plain("RequiredBlocks").type \notin Registrations
      /\ \A a \in Answers : /\ Msg(a, serving).of = serving
                            /\ Msg(a, serving).type \notin Registrations
  BY MsgParts, PlainParts DEF GiveUp, Registrations, Answers
<1>9. UNCHANGED <<client, session, registered>>
  BY DEF HostStep, Restart, Accept, IgnoreStray, BeginFmd, HandleRegisterKey,
         HandleQuery, RelayAnswer, RelayReport, RelayResult, ReadBlocks, ReadResults,
         clientVars
<1>. QED
  BY <1>1, <1>2, <1>3, <1>4, <1>5, <1>6, <1>7, <1>8, <1>9 DEF HostStep

(* What the host finds: what the enclave has sent, or the end of it.       *)
LEMMA HostFinds ==
  ASSUME RegTypeOK, HostStep
  PROVE  \A i \in DOMAIN toHost' :
           \/ toHost'[i] = Undecodable
           \/ \E j \in DOMAIN toHost : toHost'[i] = toHost[j]
<1>1. \/ toHost' = toHost \/ toHost' = << >> \/ toHost' = << Undecodable >>
      \/ toHost # << >> /\ toHost' = Tail(toHost)
  BY DEF HostStep, Restart, Accept, IgnoreStray, BeginFmd, HandleRegisterKey,
         HandleQuery, RelayAnswer, RelayReport, RelayResult, ReadBlocks, ReadResults,
         ReadEnclave
<1>2. toHost # << >> => \A i \in DOMAIN Tail(toHost) :
        i + 1 \in DOMAIN toHost /\ Tail(toHost)[i] = toHost[i + 1]
  BY ConnectionTypes, MessagesOfTail
<1>3. DOMAIN << >> = {} /\ DOMAIN << Undecodable >> = {1}
      /\ << Undecodable >>[1] = Undecodable
  OBVIOUS
<1>. QED
  BY <1>1, <1>2, <1>3

(* The registered keys are kept, and the last one is registered.           *)
LEMMA RegisteredGrows ==
  ASSUME registered \in Seq(Clients), NEW c \in Clients,
         registered' = Append(registered, c)
  PROVE  \A d : IsRegistered(d)' <=> IsRegistered(d) \/ d = c
<1>. DEFINE last == Len(registered) + 1
<1>1. /\ DOMAIN registered' = DOMAIN registered \cup {last}
      /\ registered'[last] = c
      /\ \A i \in DOMAIN registered : registered'[i] = registered[i]
  OBVIOUS
<1>. HIDE DEF last
<1>. QED
  BY <1>1 DEF IsRegistered

(* A sequence of clients: one is added at the end, the first is taken.     *)
LEMMA QueueSteps ==
  ASSUME NEW s \in Seq(Clients), NEW c \in Clients
  PROVE  /\ \A d : (\E i \in DOMAIN Append(s, c) : Append(s, c)[i] = d)
                   <=> (\E i \in DOMAIN s : s[i] = d) \/ d = c
         /\ ((\A i, j \in DOMAIN s : s[i] = s[j] => i = j)
             /\ ~(\E i \in DOMAIN s : s[i] = c)
             => \A i, j \in DOMAIN Append(s, c) :
                  Append(s, c)[i] = Append(s, c)[j] => i = j)
         /\ s # << >> =>
              /\ \A i \in DOMAIN Tail(s) :
                   i + 1 \in DOMAIN s /\ i + 1 # 1 /\ Tail(s)[i] = s[i + 1]
              /\ 1 \in DOMAIN s /\ Head(s) = s[1]
<1>. DEFINE last == Len(s) + 1
<1>1. /\ DOMAIN Append(s, c) = DOMAIN s \cup {last} /\ last \notin DOMAIN s
      /\ Append(s, c)[last] = c
      /\ \A i \in DOMAIN s : Append(s, c)[i] = s[i]
  OBVIOUS
<1>2. s # << >> =>
        /\ \A i \in DOMAIN Tail(s) :
             i + 1 \in DOMAIN s /\ i + 1 # 1 /\ Tail(s)[i] = s[i + 1]
        /\ 1 \in DOMAIN s /\ Head(s) = s[1]
  OBVIOUS
<1>. HIDE DEF last
<1>3. \A d : (\E i \in DOMAIN Append(s, c) : Append(s, c)[i] = d)
             <=> (\E i \in DOMAIN s : s[i] = d) \/ d = c
  BY <1>1
<1>4. (\A i, j \in DOMAIN s : s[i] = s[j] => i = j)
      /\ ~(\E i \in DOMAIN s : s[i] = c)
      => \A i, j \in DOMAIN Append(s, c) :
           Append(s, c)[i] = Append(s, c)[j] => i = j
  BY <1>1
<1>. QED
  BY <1>2, <1>3, <1>4

(* Nobody who is registered has a session or asks for one, and nobody asks *)
(* twice.                                                                  *)
LEMMA NotYetStep ==
  ASSUME RegTypeOK, OneRequest, NotYet, [RegNext]_regVars
  PROVE  NotYet'
<1>1. CASE UNCHANGED <<session, registered, toEnclave>>
  BY <1>1 DEF NotYet, IsRegistered, Asks
<1>2. CASE HostStep
  <2>1. session' = session /\ registered' = registered
    BY <1>2, HostSends
  <2>2. CASE toEnclave' = toEnclave
    BY <1>1, <2>1, <2>2
  <2>3. ASSUME NEW m, toEnclave' = Append(toEnclave, m),
               m.type \in Registrations =>
                 hostPc = "request" /\ m.of = serving /\ serving \in Clients
        PROVE  NotYet'
    <3>1. m.type \in Registrations => Unseen(m.of)
      BY <2>3 DEF OneRequest, Fresh
    <3>2. \A i \in DOMAIN toEnclave' :
            \/ i = Len(toEnclave) + 1 /\ toEnclave'[i] = m
            \/ i \in DOMAIN toEnclave /\ toEnclave'[i] = toEnclave[i]
      BY <2>3, ConnectionTypes, MessagesOfAppend
    <3>3. \A i \in DOMAIN toEnclave' :
            Asks(i)' => \/ i = Len(toEnclave) + 1 /\ toEnclave'[i] = m /\ Unseen(m.of)
                        \/ i \in DOMAIN toEnclave /\ toEnclave'[i] = toEnclave[i] /\ Asks(i)
      BY <3>1, <3>2 DEF Asks
    <3>4. \A i \in DOMAIN toEnclave' :
            Asks(i)' => ~IsRegistered(toEnclave'[i].of) /\ toEnclave'[i].of # session
      BY <3>3 DEF NotYet, Unseen
    <3>5. \A i, j \in DOMAIN toEnclave' :
            Asks(i)' /\ Asks(j)' /\ toEnclave'[i].of = toEnclave'[j].of => i = j
      BY <3>3 DEF NotYet, Unseen
    <3>. QED
      BY <2>1, <3>4, <3>5 DEF NotYet, IsRegistered
  <2>. QED
    BY <1>2, <2>2, <2>3, HostSends
<1>3. CASE EnclaveStep
  <2>1. PICK k \in {1, 2} :
          \A i \in DOMAIN toEnclave' :
            i + k \in DOMAIN toEnclave /\ toEnclave'[i] = toEnclave[i + k]
    BY <1>3, MessagesLeft
  <2>2. /\ 1 \in DOMAIN toEnclave
        /\ \A i \in DOMAIN toEnclave' : i \in Nat /\ i + k # 1
        /\ \A i, j \in DOMAIN toEnclave' : i + k = j + k => i = j
    <3>1. toEnclave' \in Seq(Message)
      BY <1>3, EnclaveReads
    <3>2. \A i \in DOMAIN toEnclave' : i \in Nat /\ i >= 1
      BY <3>1
    <3>3. 1 \in DOMAIN toEnclave
      BY <1>3, ConnectionTypes, EnclaveReads
    <3>4. \A i \in Nat : i >= 1 => i + k # 1
      OBVIOUS
    <3>5. \A i, j \in Nat : i + k = j + k => i = j
      OBVIOUS
    <3>. QED
      BY <3>2, <3>3, <3>4, <3>5
  <2>3. \A i \in DOMAIN toEnclave' : Asks(i)' <=> Asks(i + k)
    BY <2>1 DEF Asks
  <2>4. \A i, j \in DOMAIN toEnclave' :
          Asks(i)' /\ Asks(j)' /\ toEnclave'[i].of = toEnclave'[j].of => i = j
    BY <2>1, <2>2, <2>3 DEF NotYet
  <2>5. CASE session' = None /\ UNCHANGED registered
    <3>1. \A i \in DOMAIN toEnclave' :
            Asks(i)' => ~IsRegistered(toEnclave'[i].of) /\ toEnclave'[i].of # None
      <4>1. \A i \in DOMAIN toEnclave' : Asks(i)' => toEnclave'[i].of \in Clients
        BY <1>3, EnclaveReads, MessageTypes DEF Asks
      <4>. QED
        BY <2>1, <2>3, <4>1, RegistrationAssumption DEF NotYet
    <3>. QED
      BY <2>4, <2>5, <3>1 DEF NotYet, IsRegistered
  <2>6. CASE /\ UNCHANGED registered /\ toEnclave[1].type = "RegisterKey"
             /\ session' = toEnclave[1].of
    <3>1. Asks(1)
      BY <2>6 DEF Asks, Registrations
    <3>2. ~IsRegistered(toEnclave[1].of)
      BY <2>2, <3>1 DEF NotYet
    <3>3. \A i \in DOMAIN toEnclave' :
            Asks(i)' => ~IsRegistered(toEnclave'[i].of) /\ toEnclave'[i].of # session'
      BY <2>1, <2>2, <2>3, <2>6, <3>1 DEF NotYet
    <3>. QED
      BY <2>4, <2>6, <3>2, <3>3 DEF NotYet, IsRegistered
  <2>7. ASSUME NEW d \in Clients, d = session, session' = None,
               registered' = Append(registered, d)
        PROVE  NotYet'
    <3>1. ~IsRegistered(d) /\ registered \in Seq(Clients)
      BY <2>7, RegistrationAssumption DEF NotYet, RegTypeOK
    <3>2. \A c : IsRegistered(c)' <=> IsRegistered(c) \/ c = d
      BY <2>7, <3>1, RegisteredGrows
    <3>3. \A i, j \in DOMAIN registered' : registered'[i] = registered'[j] => i = j
      BY <2>7, <3>1, QueueSteps DEF IsRegistered, NotYet
    <3>4. \A i \in DOMAIN toEnclave' :
            Asks(i)' => /\ ~IsRegistered(toEnclave'[i].of)
                        /\ toEnclave'[i].of # d /\ toEnclave'[i].of # None
      <4>1. \A i \in DOMAIN toEnclave' : Asks(i)' => toEnclave'[i].of \in Clients
        BY <1>3, EnclaveReads, MessageTypes DEF Asks
      <4>. QED
        BY <2>1, <2>3, <2>7, <4>1, RegistrationAssumption DEF NotYet
    <3>5. \A i \in DOMAIN toEnclave' :
            Asks(i)' => /\ ~\E j \in DOMAIN registered' : registered'[j] = toEnclave'[i].of
                        /\ toEnclave'[i].of # session'
      BY <2>7, <3>2, <3>4 DEF IsRegistered
    <3>. QED
      BY <2>4, <2>7, <3>3, <3>5 DEF NotYet, IsRegistered
  <2>. QED
    BY <1>3, <2>5, <2>6, <2>7, EnclaveReads
<1>4. CASE Crash
  <2>1. UNCHANGED <<session, registered>>
    BY <1>4 DEF Crash, enclaveVars
  <2>2. \A i \in DOMAIN toEnclave' :
          Asks(i)' => i \in DOMAIN toEnclave /\ toEnclave'[i] = toEnclave[i] /\ Asks(i)
    BY <1>4, CrashKeeps, PlainParts DEF Asks, Half, Registrations
  <2>. QED
    BY <2>1, <2>2 DEF NotYet, IsRegistered
<1>5. CASE Garble \/ UNCHANGED regVars
  BY <1>1, <1>5 DEF Garble, regVars, enclaveVars
<1>6. CASE \E c \in Clients :
             \/ Connect(c) \/ ClientStep(c) \/ Vanish(c)
             \/ \E r \in Requests : Ask(c, r)
  BY <1>1, <1>6 DEF ClientStep, Answer, Finish, Vanish, Connect, Ask, enclaveVars
<1>. QED
  BY <1>2, <1>3, <1>4, <1>5, <1>6 DEF RegNext

-----------------------------------------------------------------------------
(* The host leaves the clients it does not serve as they are.              *)
LEMMA HostSeesServed ==
  ASSUME RegTypeOK, HostStep, NEW c \in Clients, c # serving
  PROVE  /\ inbox'[c] = inbox[c] /\ outbox'[c] = outbox[c]
         /\ Unseen(c) => Unseen(c)'
<1>1. inbox' = inbox \/ \E m : inbox' = [inbox EXCEPT ![serving] = << m >>]
  BY DEF HostStep, Restart, Accept, IgnoreStray, BeginFmd, HandleRegisterKey,
         HandleQuery, RelayAnswer, RelayReport, RelayResult, ReadBlocks,
         ReadResults, SendClient, clientVars
<1>2. outbox' = outbox \/ outbox' = [outbox EXCEPT ![serving] = << >>]
  BY DEF HostStep, Restart, Accept, IgnoreStray, BeginFmd, HandleRegisterKey,
         HandleQuery, RelayAnswer, RelayReport, RelayResult, ReadBlocks,
         ReadResults, ReadClient, clientVars
<1>3. inbox'[c] = inbox[c] /\ outbox'[c] = outbox[c]
  BY <1>1, <1>2 DEF RegTypeOK
<1>4. ASSUME Unseen(c) PROVE Unseen(c)'
  <2>1. UNCHANGED <<client, session, registered>>
    BY HostSends
  <2>2. \A i \in DOMAIN toEnclave' : toEnclave'[i].of # c
    <3>1. CASE toEnclave' = toEnclave
      BY <1>4, <3>1 DEF Unseen
    <3>2. ASSUME NEW m, toEnclave' = Append(toEnclave, m), m.of \in {serving, None}
          PROVE  \A i \in DOMAIN toEnclave' : toEnclave'[i].of # c
      <4>1. \A i \in DOMAIN toEnclave' :
              toEnclave'[i] = m \/ (i \in DOMAIN toEnclave /\ toEnclave'[i] = toEnclave[i])
        BY <3>2, ConnectionTypes, MessagesOfAppend
      <4>. QED
        BY <1>4, <3>2, <4>1, RegistrationAssumption DEF Unseen
    <3>. QED
      BY <3>1, <3>2, HostSends
  <2>3. \A i \in DOMAIN toHost' : toHost'[i].of # c
    BY <1>4, HostFinds, PlainParts, RegistrationAssumption DEF Unseen, Undecodable
  <2>. QED
    BY <1>3, <1>4, <2>1, <2>2, <2>3 DEF Unseen, IsRegistered
<1>. QED
  BY <1>3, <1>4

(* The enclave does not know the clients it has seen nothing of.           *)
LEMMA EnclaveSeesOthers ==
  ASSUME RegTypeOK, EnclaveStep, NEW c \in Clients, Unseen(c)
  PROVE  Unseen(c)'
<1>1. inbox' = inbox /\ client' = client
  BY DEF EnclaveStep, clientVars
<1>2. toEnclave[1].of # c
  BY EnclaveReads, ConnectionTypes DEF Unseen
<1>3. session' # c
  BY <1>2, EnclaveReads, RegistrationAssumption DEF Unseen
<1>4. ~IsRegistered(c)'
  <2>1. CASE registered' = registered
    BY <2>1 DEF Unseen, IsRegistered
  <2>2. CASE session \in Clients /\ registered' = Append(registered, session)
    <3>1. PICK d \in Clients : d = session
      BY <2>2
    <3>2. IsRegistered(c)' <=> IsRegistered(c) \/ c = d
      BY <2>2, <3>1, RegisteredGrows DEF RegTypeOK
    <3>. QED
      BY <3>1, <3>2 DEF Unseen
  <2>. QED
    BY <2>1, <2>2, EnclaveReads
<1>5. \A i \in DOMAIN toEnclave' : toEnclave'[i].of # c
  BY MessagesLeft DEF Unseen
<1>6. \A i \in DOMAIN toHost' : toHost'[i].of # c
  <2>1. ASSUME NEW m, m.of # c, toHost' = Append(toHost, m)
        PROVE  \A i \in DOMAIN toHost' : toHost'[i].of # c
    <3>1. \A i \in DOMAIN toHost' :
            toHost'[i] = m \/ (i \in DOMAIN toHost /\ toHost'[i] = toHost[i])
      BY <2>1, ConnectionTypes, MessagesOfAppend
    <3>. QED
      BY <2>1, <3>1 DEF Unseen
  <2>2. \A t : Plain(t).of # c
    BY PlainParts, RegistrationAssumption
  <2>3. Msg("RATLS", toEnclave[1].of).of # c
    BY <1>2, MsgParts
  <2>4. toHost' = toHost => \A i \in DOMAIN toHost' : toHost'[i].of # c
    BY DEF Unseen
  <2>. QED
    BY <2>1, <2>2, <2>3, <2>4, EnclaveReads
<1>. QED
  BY <1>1, <1>3, <1>4, <1>5, <1>6 DEF Unseen

(* A client that the host hears has asked.                                 *)
LEMMA HostHears ==
  ASSUME RegTypeOK, OneRequest, HostStep, serving \in Clients
  PROVE  /\ client[serving] \notin {"new", "connected"} /\ UNCHANGED backlog
         /\ hostPc' # "request" /\ serving' \in {serving, None}
<1>1. hostPc \in {"request", "report", "answer", "result"}
  BY RegistrationAssumption DEF RegTypeOK
<1>2. client[serving] \notin {"new", "connected"}
  <2>1. CASE hostPc = "request"
    <3>1. \E m : ReadClient(m)
      BY <2>1 DEF HostStep, Restart, Accept, IgnoreStray, BeginFmd, HandleRegisterKey,
         HandleQuery, RelayAnswer, RelayReport, RelayResult, ReadBlocks, ReadResults
    <3>2. outbox[serving] # << >>
      BY <3>1, ShortConnections DEF ReadClient
    <3>. QED
      BY <3>2 DEF OneRequest
  <2>2. CASE hostPc # "request"
    BY <2>2 DEF OneRequest
  <2>. QED
    BY <2>1, <2>2
<1>3. /\ UNCHANGED backlog /\ hostPc' # "request" /\ serving' \in {serving, None}
  BY <1>1 DEF HostStep, Restart, Accept, IgnoreStray, BeginFmd, HandleRegisterKey,
         HandleQuery, RelayAnswer, RelayReport, RelayResult, ReadBlocks, ReadResults,
         Done, Abort, clientVars
<1>. QED
  BY <1>2, <1>3

(* The host takes the first client of its queue.                           *)
LEMMA AcceptStep ==
  ASSUME RegTypeOK, OneRequest, QueuedOnce, Accept
  PROVE  OneRequest' /\ QueuedOnce'
<1>1. /\ backlog # << >> /\ serving' = Head(backlog) /\ backlog' = Tail(backlog)
      /\ hostPc' = "request" /\ hostPc = "idle"
      /\ UNCHANGED <<client, outbox, inbox, toEnclave, toHost, session, registered>>
      /\ backlog \in Seq(Clients)
  BY DEF Accept, enclaveVars, RegTypeOK
<1>2. /\ \A i \in DOMAIN backlog' :
           i + 1 \in DOMAIN backlog /\ i + 1 # 1 /\ backlog'[i] = backlog[i + 1]
      /\ 1 \in DOMAIN backlog /\ serving' = backlog[1] /\ serving' \in Clients
  <2>1. backlog[1] \in Clients
    BY <1>1
  <2>. QED
    BY <1>1, <2>1, QueueSteps
<1>3. \A i, j \in DOMAIN backlog' : i + 1 = j + 1 => i = j
  <2>1. \A i \in DOMAIN backlog' : i \in Nat
    BY <1>1
  <2>. QED
    BY <2>1
<1>4. QueuedOnce'
  BY <1>2, <1>3 DEF QueuedOnce
<1>5. ASSUME NEW c \in Clients
      PROVE  /\ Unseen(c)' <=> Unseen(c)
             /\ Queued(c)' => Queued(c) /\ c # serving'
             /\ Fresh(c)' => Fresh(c)
  BY <1>1, <1>2 DEF Unseen, IsRegistered, Queued, QueuedOnce, Fresh
<1>6. ASSUME NEW c \in Clients, c = serving'
      PROVE  client[c] # "new"
  BY <1>2, <1>6 DEF OneRequest, Queued
<1>. QED
  BY <1>1, <1>4, <1>5, <1>6 DEF OneRequest

(* A client asks once, and is queued once.                                 *)
LEMMA OneRequestStep ==
  ASSUME RegTypeOK, OneRequest, QueuedOnce, [RegNext]_regVars
  PROVE  OneRequest' /\ QueuedOnce'
<1>0. None \notin Clients /\ backlog \in Seq(Clients)
  BY RegistrationAssumption DEF RegTypeOK
<1>1. CASE HostStep /\ ~Accept
  <2>1. /\ UNCHANGED <<client, backlog>> /\ serving' \in {serving, None}
        /\ hostPc' # "request"
    <3>1. CASE serving \in Clients
      BY <1>1, <3>1, HostHears, HostSends
    <3>2. CASE serving \notin Clients
      <4>1. hostPc \notin {"request", "report", "answer", "result"} /\ serving = None
        BY <3>2 DEF RegTypeOK
      <4>. QED
        BY <1>1, <4>1 DEF HostStep, Restart, IgnoreStray, BeginFmd, HandleRegisterKey,
         HandleQuery, RelayAnswer, RelayReport, RelayResult, ReadBlocks, ReadResults,
         clientVars
    <3>. QED
      BY <3>1, <3>2
  <2>2. QueuedOnce'
    BY <2>1 DEF QueuedOnce
  <2>3. ASSUME NEW c \in Clients, c # serving
        PROVE  /\ client'[c] = "new" => ~Queued(c)' /\ serving' # c
               /\ Queued(c)' => serving' # c
               /\ Fresh(c)' => Unseen(c)'
               /\ client'[c] \in {"new", "connected"} =>
                    outbox'[c] = << >> /\ (serving' = c => hostPc' = "request")
    <3>1. Fresh(c)' => Fresh(c)
      BY <2>1, <2>3 DEF Fresh, Queued
    <3>. QED
      BY <1>0, <1>1, <2>1, <2>3, <3>1, HostSeesServed DEF OneRequest, Queued
  <2>4. ASSUME NEW c \in Clients, c = serving
        PROVE  /\ client'[c] \notin {"new", "connected"} /\ ~Queued(c)'
               /\ ~Fresh(c)'
    BY <1>1, <2>1, <2>4, HostHears DEF OneRequest, Queued, Fresh
  <2>. QED
    BY <2>2, <2>3, <2>4 DEF OneRequest
<1>2. CASE Accept
  BY <1>2, AcceptStep
<1>3. CASE EnclaveStep
  <2>1. UNCHANGED <<client, outbox, inbox, backlog, hostPc, serving>>
    BY <1>3 DEF EnclaveStep, clientVars, hostVars
  <2>2. \A c : (Fresh(c)' <=> Fresh(c)) /\ (Queued(c)' <=> Queued(c))
    BY <2>1 DEF Fresh, Queued
  <2>. QED
    BY <1>3, <2>1, <2>2, EnclaveSeesOthers DEF OneRequest, QueuedOnce
<1>4. CASE Crash
  <2>1. /\ backlog' = << >> /\ serving' = None /\ hostPc' = "down"
        /\ UNCHANGED <<client, inbox, toHost, session, registered>>
        /\ \A c \in Clients : outbox'[c] = << >>
    BY <1>4 DEF Crash, enclaveVars
  <2>2. ASSUME NEW c \in Clients, Unseen(c) PROVE Unseen(c)'
    <3>1. \A i \in DOMAIN toEnclave' : toEnclave'[i].of # c
      BY <1>0, <1>4, <2>2, CrashKeeps, PlainParts DEF Unseen, Half
    <3>. QED
      BY <2>1, <2>2, <3>1 DEF Unseen, IsRegistered
  <2>3. \A c \in Clients : ~Queued(c)' /\ (Fresh(c)' => Fresh(c))
    BY <2>1 DEF Queued, Fresh
  <2>4. QueuedOnce'
    BY <2>1 DEF QueuedOnce
  <2>. QED
    BY <1>0, <2>1, <2>2, <2>3, <2>4 DEF OneRequest
<1>5. CASE Garble
  <2>1. UNCHANGED <<client, hostPc, serving, toEnclave, session, registered, backlog,
                    inbox, outbox>>
    BY <1>5 DEF Garble, clientVars, hostVars, enclaveVars
  <2>2. ASSUME NEW c \in Clients, Unseen(c) PROVE Unseen(c)'
    <3>1. \A i \in DOMAIN toHost' :
            toHost'[i] = Undecodable \/ (i \in DOMAIN toHost /\ toHost'[i] = toHost[i])
      BY <1>5 DEF Garble, RegTypeOK
    <3>2. Undecodable.of # c
      BY <1>0, PlainParts DEF Undecodable
    <3>. QED
      BY <2>1, <2>2, <3>1, <3>2 DEF Unseen, IsRegistered
  <2>3. \A c : (Fresh(c)' <=> Fresh(c)) /\ (Queued(c)' <=> Queued(c))
    BY <2>1 DEF Fresh, Queued
  <2>. QED
    BY <2>1, <2>2, <2>3 DEF OneRequest, QueuedOnce
<1>6. ASSUME NEW c \in Clients, Connect(c)
      PROVE  OneRequest' /\ QueuedOnce'
  <2>1. /\ client[c] = "new" /\ client' = [client EXCEPT ![c] = "connected"]
        /\ backlog' = Append(backlog, c)
        /\ UNCHANGED <<hostPc, serving, toEnclave, toHost, session, registered,
                       inbox, outbox>>
    BY <1>6 DEF Connect, hostVars, enclaveVars
  <2>2. Unseen(c) /\ ~Queued(c) /\ serving # c /\ outbox[c] = << >>
    BY <2>1 DEF OneRequest, Fresh
  <2>3. /\ \A d : Queued(d)' <=> Queued(d) \/ d = c
        /\ QueuedOnce'
    BY <1>0, <2>1, <2>2, QueueSteps DEF Queued, QueuedOnce
  <2>4. /\ client'[c] = "connected" /\ \A d \in Clients : d # c => client'[d] = client[d]
    BY <2>1 DEF RegTypeOK
  <2>5. \A d \in Clients : Unseen(d) => Unseen(d)'
    BY <2>1, <2>4 DEF Unseen, IsRegistered
  <2>6. \A d \in Clients : d # c => (Fresh(d)' <=> Fresh(d))
    BY <2>1, <2>3, <2>4 DEF Fresh
  <2>. QED
    BY <2>1, <2>2, <2>3, <2>4, <2>5, <2>6 DEF OneRequest
<1>7. ASSUME NEW c \in Clients, UNCHANGED <<hostPc, serving, backlog>>,
             client'[c] \notin {"new", "connected"},
             \A d \in Clients : d # c =>
               client'[d] = client[d] /\ outbox'[d] = outbox[d],
             \A d \in Clients : Unseen(d) /\ Fresh(d)' => Unseen(d)'
      PROVE  OneRequest' /\ QueuedOnce'
  <2>1. \A d \in Clients : (Queued(d)' <=> Queued(d)) /\ (Fresh(d)' => Fresh(d))
    BY <1>7 DEF Fresh, Queued
  <2>. QED
    BY <1>7, <2>1 DEF OneRequest, QueuedOnce
<1>8. ASSUME NEW c \in Clients, Vanish(c) \/ \E r \in Requests : Ask(c, r)
      PROVE  OneRequest' /\ QueuedOnce'
  <2>1. /\ UNCHANGED <<hostPc, serving, toEnclave, toHost, session, registered,
                       backlog, inbox>>
        /\ client'[c] \notin {"new", "connected", "answered"}
        /\ \A d \in Clients : d # c => client'[d] = client[d] /\ outbox'[d] = outbox[d]
    BY <1>8 DEF Vanish, Ask, RegTypeOK, hostVars, enclaveVars
  <2>2. \A d \in Clients : Unseen(d) => Unseen(d)'
    BY <2>1 DEF Unseen, IsRegistered
  <2>. QED
    BY <1>7, <2>1, <2>2
<1>9. ASSUME NEW c \in Clients, ClientStep(c)
      PROVE  OneRequest' /\ QueuedOnce'
  <2>1. /\ inbox[c] # << >> /\ client'[c] \notin {"new", "connected"}
        /\ UNCHANGED <<hostPc, serving, toEnclave, toHost, session, registered, backlog>>
    <3>1. CASE \E a \in Answers : Answer(c, a)
      BY <3>1, ShortConnections DEF Answer, RegTypeOK, hostVars, enclaveVars
    <3>2. CASE Finish(c)
      BY <3>2 DEF Finish, RegTypeOK, hostVars, enclaveVars
    <3>. QED
      BY <1>9, <3>1, <3>2 DEF ClientStep
  <2>2. \A d \in Clients : d # c =>
          /\ client'[d] = client[d] /\ inbox'[d] = inbox[d] /\ outbox'[d] = outbox[d]
    BY <1>9 DEF ClientStep, Answer, Finish, RegTypeOK
  <2>3. \A d \in Clients : Unseen(d) => Unseen(d)'
    BY <2>1, <2>2 DEF Unseen, IsRegistered
  <2>. QED
    BY <1>7, <2>1, <2>2, <2>3
<1>10. CASE UNCHANGED regVars
  <2>1. UNCHANGED <<client, hostPc, serving, toEnclave, toHost, session, registered,
                    backlog, inbox, outbox>>
    BY <1>10 DEF regVars, clientVars, hostVars, enclaveVars
  <2>. QED
    BY <2>1 DEF OneRequest, QueuedOnce, Fresh, Queued, Unseen, IsRegistered
<1>. QED
  BY <1>1, <1>2, <1>3, <1>4, <1>5, <1>6, <1>8, <1>9, <1>10 DEF RegNext

-----------------------------------------------------------------------------
(* What the host has done when it waits for the enclave, or for the        *)
(* answer of a client, once it has done a step.                            *)
LEMMA HostGoesOn ==
  ASSUME RegTypeOK, HostStep, hostPc' \in {"report", "answer", "result"}
  PROVE  /\ serving' = serving /\ serving \in Clients
         /\ UNCHANGED <<client, session, registered>>
         /\ hostPc' = "report" =>
              \E r \in Registrations : HandleRegisterKey(r)
         /\ hostPc' = "answer" =>
              \E m : RelayReport(m) /\ SendClient(m) /\ UNCHANGED toEnclave
         /\ hostPc' = "result" =>
              \/ \E m : RelayReport(m) /\ UNCHANGED inbox
              \/ \E a \in Answers : RelayAnswer(a) /\ SendEnclave(Msg(a, serving))
<1>1. ~Restart /\ ~Accept /\ ~IgnoreStray /\ ~BeginFmd
  BY DEF Restart, Accept, IgnoreStray, BeginFmd, Done
<1>2. /\ \A r : ~HandleQuery(r)
      /\ \A m : ~RelayResult(m) /\ ~ReadBlocks(m) /\ ~ReadResults(m)
  BY DEF HandleQuery, RelayResult, ReadBlocks, ReadResults, Done, Abort
<1>3. \/ \E r \in Registrations : HandleRegisterKey(r)
      \/ \E a \in Answers : RelayAnswer(a)
      \/ \E m \in Replies : RelayReport(m)
  BY <1>1, <1>2 DEF HostStep
<1>4. ASSUME NEW r, HandleRegisterKey(r)
      PROVE  hostPc' = "report" /\ serving' = serving /\ hostPc = "request"
  BY <1>4 DEF HandleRegisterKey
<1>5. ASSUME NEW a, RelayAnswer(a)
      PROVE  /\ hostPc' = "result" /\ serving' = serving /\ hostPc = "answer"
             /\ SendEnclave(Msg(a, serving))
  BY <1>5 DEF RelayAnswer, Abort, Done
<1>6. ASSUME NEW m, RelayReport(m)
      PROVE  /\ serving' = serving /\ hostPc = "report"
             /\ \/ hostPc' = "answer" /\ SendClient(m) /\ UNCHANGED toEnclave
                \/ hostPc' = "result" /\ UNCHANGED inbox
  BY <1>6 DEF RelayReport, Abort, Done
<1>7. serving \in Clients
  BY <1>3, <1>4, <1>5, <1>6 DEF RegTypeOK
<1>. QED
  BY <1>3, <1>4, <1>5, <1>6, <1>7, HostSends

(* A client changes what it has sent and received itself, and nothing of   *)
(* the host and the enclave.                                               *)
LEMMA ClientChanges ==
  ASSUME RegTypeOK, NEW c \in Clients,
         \/ Connect(c) \/ ClientStep(c) \/ Vanish(c)
         \/ \E r \in Requests : Ask(c, r)
  PROVE  /\ UNCHANGED <<hostPc, serving, toEnclave, toHost, session, registered, crashes>>
         /\ \A d \in Clients : d # c =>
              client'[d] = client[d] /\ inbox'[d] = inbox[d] /\ outbox'[d] = outbox[d]
         /\ \/ client[c] \in {"new", "connected"} /\ inbox' = inbox
            \/ client'[c] \in {"done", "gone"} /\ (inbox' = inbox \/ inbox'[c] = << >>)
            \/ /\ client[c] = "asked" /\ client'[c] = "answered" /\ inbox'[c] = << >>
               /\ inbox[c] = << Msg("RATLS", c) >>
            \/ /\ client[c] = "answered" /\ client'[c] = "registered"
               /\ inbox[c] = << Plain("KeyRegSuccess") >> /\ inbox'[c] = << >>
         /\ client[c] \in {"new", "connected"} => client'[c] \notin {"answered", "registered"}
         /\ outbox' # outbox => \/ client[c] = "connected"
                                \/ client[c] = "asked" /\ inbox[c] # << >>
         /\ client'[c] = "asked" => client[c] = "connected"
<1>1. CASE Connect(c) \/ Vanish(c) \/ \E r \in Requests : Ask(c, r)
  BY <1>1 DEF Connect, Vanish, Ask, RegTypeOK, hostVars, enclaveVars, faultVars
<1>2. ASSUME NEW a \in Answers, Answer(c, a)
      PROVE  /\ UNCHANGED <<hostPc, serving, toEnclave, toHost, session, registered, crashes>>
             /\ client[c] = "asked" /\ inbox[c] # << >> /\ inbox'[c] = << >>
             /\ \/ client'[c] = "done"
                \/ client'[c] = "answered" /\ inbox[c] = << Msg("RATLS", c) >>
             /\ \A d \in Clients : d # c =>
                  client'[d] = client[d] /\ inbox'[d] = inbox[d] /\ outbox'[d] = outbox[d]
  <2>1. PICK report \in Reports :
          inbox[c] = << report >> /\ (report.of = c \/ a = "Fail")
    BY <1>2 DEF Answer
  <2>2. report.of = c => report = Msg("RATLS", c)
    BY MsgParts DEF Reports
  <2>3. inbox[c] # << >>
    BY <2>1, ShortConnections
  <2>. QED
    BY <1>2, <2>1, <2>2, <2>3 DEF Answer, RegTypeOK, hostVars, enclaveVars, faultVars
<1>3. CASE Finish(c)
  <2>1. inbox[c] = << inbox[c][1] >>
    <3>1. inbox[c] \in Seq(ToClient) /\ Len(inbox[c]) <= 1 /\ inbox[c] # << >>
      BY <1>3 DEF Finish, RegTypeOK, ToClient
    <3>. QED
      BY <3>1
  <2>. QED
    BY <1>3, <2>1 DEF Finish, Waiting, RegTypeOK, hostVars, enclaveVars, faultVars
<1>. QED
  BY <1>1, <1>2, <1>3 DEF ClientStep

(* What the client that is served has sent and received.                   *)
LEMMA ServedStep ==
  ASSUME RegTypeOK, OneRequest, Served, [RegNext]_regVars
  PROVE  Served'
<1>1. CASE UNCHANGED <<client, outbox, inbox, hostPc, serving>>
  BY <1>1 DEF Served
<1>2. CASE HostStep /\ hostPc' \in {"report", "answer", "result"}
  <2>1. serving' = serving /\ serving \in Clients /\ UNCHANGED client
    BY <1>2, HostGoesOn
  <2>2. CASE hostPc' = "report"
    <3>1. PICK r \in Registrations : HandleRegisterKey(r)
      BY <1>2, <2>2, HostGoesOn
    <3>2. hostPc = "request" /\ ReadClient(r) /\ UNCHANGED inbox
      BY <3>1 DEF HandleRegisterKey
    <3>3. outbox'[serving] = << >>
      BY <2>1, <3>2, ReadClientTypes
    <3>4. inbox[serving] = << >> /\ client[serving] # "answered"
      BY <2>1, <3>2 DEF OneRequest, Fresh, Unseen
    <3>. QED
      BY <2>1, <2>2, <3>2, <3>3, <3>4 DEF Served
  <2>3. CASE hostPc' = "answer"
    <3>1. hostPc = "report" /\ UNCHANGED outbox
      BY <1>2, <2>3, HostGoesOn DEF RelayReport
    <3>. QED
      BY <2>1, <2>3, <3>1 DEF Served
  <2>4. CASE hostPc' = "result"
    <3>1. CASE \E m : RelayReport(m) /\ UNCHANGED inbox
      <4>1. hostPc = "report" /\ UNCHANGED inbox
        BY <3>1 DEF RelayReport
      <4>. QED
        BY <2>1, <2>4, <4>1 DEF Served
    <3>2. CASE \E a \in Answers : RelayAnswer(a)
      <4>1. hostPc = "answer" /\ outbox[serving] # << >>
        BY <3>2, ShortConnections DEF RelayAnswer, ReadClient
      <4>. QED
        BY <2>1, <2>4, <4>1 DEF Served
    <3>. QED
      BY <1>2, <2>4, <3>1, <3>2, HostGoesOn
  <2>. QED
    BY <1>2, <2>2, <2>3, <2>4
<1>3. CASE hostPc' \notin {"report", "answer", "result"}
  BY <1>3 DEF Served
<1>4. CASE EnclaveStep \/ Garble \/ UNCHANGED regVars
  BY <1>1, <1>4 DEF EnclaveStep, Garble, regVars, clientVars, hostVars
<1>5. CASE Crash
  BY <1>5, RegistrationAssumption DEF Crash, Served
<1>6. ASSUME NEW c \in Clients,
             \/ Connect(c) \/ ClientStep(c) \/ Vanish(c)
             \/ \E r \in Requests : Ask(c, r)
      PROVE  Served'
  <2>1. UNCHANGED <<hostPc, serving>>
    BY <1>6, ClientChanges
  <2>2. CASE serving # c
    BY <1>6, <2>1, <2>2, ClientChanges DEF Served
  <2>3. CASE serving = c /\ client[c] \in {"new", "connected"}
    <3>1. hostPc = "request"
      BY <2>3 DEF OneRequest
    <3>. QED
      BY <2>1, <3>1 DEF Served
  <2>4. CASE serving = c /\ client[c] \notin {"new", "connected"}
    <3>1. ASSUME hostPc = "report"
          PROVE  /\ outbox'[c] = << >> /\ inbox'[c] = << >>
                 /\ client'[c] # "answered"
      <4>1. inbox[c] = << >> /\ outbox[c] = << >> /\ client[c] # "answered"
        BY <2>4, <3>1 DEF Served
      <4>2. << >> # << Msg("RATLS", c) >>
        BY ShortConnections
      <4>. QED
        BY <1>6, <2>4, <4>1, <4>2, ClientChanges
    <3>2. client'[c] # "asked"
      BY <1>6, <2>4, ClientChanges
    <3>. QED
      BY <2>1, <2>4, <3>1, <3>2 DEF Served
  <2>. QED
    BY <2>2, <2>3, <2>4
<1>. QED
  BY <1>2, <1>3, <1>4, <1>5, <1>6 DEF RegNext

(* A request is handled: its report is still to come, and it is the last   *)
(* the enclave has been asked.                                             *)
LEMMA ReportAsked ==
  ASSUME RegTypeOK, OneRequest, NEW r \in Registrations, HandleRegisterKey(r)
  PROVE  ReportStep'
<1>1. /\ serving \in Clients /\ serving' = serving /\ Fresh(serving)
      /\ toEnclave' = Append(toEnclave, Msg(r, serving)) /\ toHost' = toHost
  BY DEF HandleRegisterKey, RegTypeOK, Fresh, SendEnclave
<1>2. Unseen(serving)
  BY <1>1 DEF OneRequest
<1>3. \A i \in DOMAIN toHost : toHost[i] # OwnReport
  BY <1>2, MsgParts DEF Unseen, OwnReport
<1>4. \A i \in DOMAIN toEnclave' : toEnclave'[i].of = serving => i = Len(toEnclave')
  BY <1>1, <1>2, ConnectionTypes, MessagesOfAppend DEF Unseen
<1>5. OwnReport' = OwnReport
  BY <1>1 DEF OwnReport, Msg
<1>. QED
  BY <1>1, <1>3, <1>4, <1>5 DEF ReportStep

(* The enclave sends the report of the client that is served when it has   *)
(* read all it was asked.                                                  *)
LEMMA ReportSent ==
  ASSUME RegTypeOK, serving \in Clients, ReportStep, EnclaveStep
  PROVE  ReportStep'
<1>1. serving' = serving
  BY DEF EnclaveStep, hostVars
<1>2. OwnReport' = OwnReport
  BY <1>1 DEF OwnReport, Msg
<1>3. toEnclave # << >> /\ toEnclave \in Seq(Message) /\ toEnclave' \in Seq(Message)
      /\ toHost \in Seq(Replies)
  BY EnclaveReads, ConnectionTypes
<1>4. /\ \A i \in DOMAIN toHost : toHost[i] # OwnReport
      /\ \A i \in DOMAIN toEnclave : toEnclave[i].of = serving => i = Len(toEnclave)
  BY <1>3 DEF ReportStep
<1>5. \A i \in DOMAIN toEnclave' : toEnclave'[i].of = serving => i = Len(toEnclave')
  <2>1. PICK k \in {1, 2} :
          /\ Len(toEnclave') = Len(toEnclave) - k
          /\ \A i \in DOMAIN toEnclave' :
               i + k \in DOMAIN toEnclave /\ toEnclave'[i] = toEnclave[i + k]
    BY MessagesLeft
  <2>2. /\ Len(toEnclave) \in Nat /\ \A i \in DOMAIN toEnclave' : i \in Nat
        /\ \A i, n \in Nat : i + k = n => i = n - k
    BY <1>3
  <2>3. \A i \in DOMAIN toEnclave' : toEnclave'[i].of = serving => i + k = Len(toEnclave)
    BY <1>4, <2>1
  <2>. QED
    BY <2>1, <2>2, <2>3
<1>6. ASSUME toHost' = toHost PROVE ReportStep'
  BY <1>1, <1>2, <1>4, <1>5, <1>6 DEF ReportStep
<1>7. ASSUME NEW m, m # OwnReport, toHost' = Append(toHost, m) PROVE ReportStep'
  <2>1. \A i \in DOMAIN toHost' :
          toHost'[i] = m \/ (i \in DOMAIN toHost /\ toHost'[i] = toHost[i])
    BY <1>3, <1>7, MessagesOfAppend
  <2>. QED
    BY <1>1, <1>2, <1>4, <1>5, <1>7, <2>1 DEF ReportStep
<1>8. ASSUME toHost' = Append(toHost, OwnReport), toEnclave[1].of = serving,
             session' = serving, toEnclave' = Tail(toEnclave)
      PROVE  ReportStep'
  <2>1. 1 = Len(toEnclave)
    BY <1>3, <1>4, <1>8, ConnectionTypes
  <2>2. toEnclave' = << >>
    BY <1>3, <1>8, <2>1
  <2>3. \A i \in DOMAIN toHost' : toHost'[i] = OwnReport => i = Len(toHost')
    BY <1>3, <1>4, <1>8, MessagesOfAppend
  <2>. QED
    BY <1>1, <1>2, <1>8, <2>2, <2>3 DEF ReportStep
<1>9. \A t : Plain(t) = OwnReport => t = "RATLS"
  BY PlainParts DEF OwnReport
<1>10. Msg("RATLS", toEnclave[1].of) = OwnReport => toEnclave[1].of = serving
  BY MsgEqual DEF OwnReport
<1>. QED
  BY <1>6, <1>7, <1>8, <1>9, <1>10, EnclaveReads

(* A client that has sent its key is told that it is registered when it    *)
(* is.                                                                     *)
LEMMA ResultSent ==
  ASSUME RegTypeOK, serving \in Clients, ResultStep, EnclaveStep
  PROVE  ResultStep'
<1>1. UNCHANGED <<serving, client>>
  BY DEF EnclaveStep, hostVars, clientVars
<1>2. CASE client[serving] # "answered"
  BY <1>1, <1>2 DEF ResultStep
<1>3. CASE client[serving] = "answered"
  <2>1. toEnclave # << >>
    BY EnclaveReads
  <2>2. PICK a \in Answers :
          toHost = << >> /\ session = serving /\ toEnclave = << Msg(a, serving) >>
    BY <1>3, <2>1 DEF ResultStep
  <2>3. /\ toEnclave[1] = Msg(a, serving) /\ Tail(toEnclave) = << >>
        /\ Msg(a, serving) # Half /\ Msg(a, serving).type = a
    BY <2>2, ShortConnections, WholeFrames, MsgParts
  <2>4. toEnclave' = << >>
    BY <2>3, EnclaveReads
  <2>5. CASE toHost' = toHost
    <3>1. \A i \in DOMAIN toHost' : FALSE
      BY <2>2, <2>5
    <3>. QED
      BY <2>4, <3>1 DEF ResultStep
  <2>6. ASSUME NEW t, t # "KeyRegSuccess", toHost' = Append(toHost, Plain(t))
        PROVE  ResultStep'
    <3>1. toHost' = << Plain(t) >>
      BY <2>2, <2>6, AppendsToShort
    <3>2. \A i \in DOMAIN toHost' : toHost'[i] = Plain(t)
      BY <3>1
    <3>3. Plain(t) # Plain("KeyRegSuccess")
      BY <2>6, PlainParts
    <3>4. Plain("KeyRegSuccess")' = Plain("KeyRegSuccess")
      BY DEF Plain, Msg
    <3>. QED
      BY <2>4, <3>2, <3>3, <3>4 DEF ResultStep
  <2>7. CASE registered' = Append(registered, session)
    <3>1. IsRegistered(serving)'
      <4>1. PICK c \in Clients : c = session
        BY <2>2
      <4>2. registered \in Seq(Clients) /\ registered' = Append(registered, c)
        BY <2>7, <4>1 DEF RegTypeOK
      <4>3. \A d : IsRegistered(d)' <=> IsRegistered(d) \/ d = c
        BY <4>2, RegisteredGrows
      <4>. QED
        BY <1>1, <2>2, <4>1, <4>3
    <3>2. \E i \in DOMAIN registered' : registered'[i] = serving'
      BY <1>1, <3>1 DEF IsRegistered
    <3>. QED
      BY <2>4, <3>2 DEF ResultStep, IsRegistered
  <2>. QED
    BY <2>3, <2>5, <2>6, <2>7, EnclaveReads DEF Answers
<1>. QED
  BY <1>2, <1>3

(* The host gives the client what it has read; its own report was the last *)
(* in the connection.                                                      *)
LEMMA ReportRelayed ==
  ASSUME RegTypeOK, serving \in Clients, Served, ReportStep,
         UNCHANGED <<client, serving, session, toEnclave>>,
         NEW m, RelayReport(m), SendClient(m)
  PROVE  AnswerStep'
<1>1. /\ hostPc = "report" /\ toHost # << >> /\ toHost' = Tail(toHost)
      /\ m = toHost[1] /\ 1 \in DOMAIN toHost /\ toHost \in Seq(Replies)
  BY ConnectionTypes DEF RelayReport, ReadEnclave
<1>2. client'[serving'] # "answered"
  BY <1>1 DEF Served
<1>3. inbox'[serving] = << m >>
  BY DEF SendClient, RegTypeOK
<1>4. OwnReport' = OwnReport
  BY DEF OwnReport, Msg
<1>5. ASSUME << m >> = << OwnReport >> PROVE Nothing' /\ session' = serving'
  <2>1. m = OwnReport
    BY <1>5
  <2>2. toEnclave = << >> /\ session = serving /\ 1 = Len(toHost)
    BY <1>1, <2>1 DEF ReportStep
  <2>3. Tail(toHost) = << >>
    BY <1>1, <2>2
  <2>. QED
    BY <1>1, <2>2, <2>3 DEF Nothing
<1>. QED
  BY <1>2, <1>3, <1>4, <1>5 DEF AnswerStep

(* The host and the enclave are in step when a client has its own report.  *)
LEMMA InStepStep ==
  ASSUME RegTypeOK, OneRequest, Served, InStep, [RegNext]_regVars
  PROVE  InStep'
<1>1. CASE UNCHANGED <<client, inbox, hostPc, serving, toEnclave, toHost, session, registered>>
  <2>1. OwnReport' = OwnReport /\ \A t, c : Msg(t, c)' = Msg(t, c) /\ Plain(t)' = Plain(t)
    BY <1>1 DEF OwnReport, Plain, Msg
  <2>2. ReportStep' <=> ReportStep
    BY <1>1, <2>1 DEF ReportStep
  <2>3. AnswerStep' <=> AnswerStep
    BY <1>1, <2>1 DEF AnswerStep, Nothing
  <2>4. ResultStep' <=> ResultStep
    BY <1>1, <2>1 DEF ResultStep, IsRegistered
  <2>. QED
    BY <1>1, <2>2, <2>3, <2>4 DEF InStep
<1>2. CASE hostPc' \notin {"report", "answer", "result"}
  BY <1>2 DEF InStep
<1>3. CASE HostStep /\ hostPc' \in {"report", "answer", "result"}
  <2>1. serving' = serving /\ serving \in Clients /\ UNCHANGED <<client, session, registered>>
    BY <1>3, HostGoesOn
  <2>2. CASE hostPc' = "report"
    BY <1>3, <2>2, HostGoesOn, ReportAsked DEF InStep
  <2>3. CASE hostPc' = "answer"
    <3>1. PICK m : RelayReport(m) /\ SendClient(m) /\ UNCHANGED toEnclave
      BY <1>3, <2>3, HostGoesOn
    <3>2. ReportStep
      BY <2>1, <3>1 DEF InStep, RelayReport
    <3>. QED
      BY <2>1, <2>3, <3>1, <3>2, ReportRelayed DEF InStep
  <2>4. CASE hostPc' = "result" /\ \E m : RelayReport(m)
    <3>1. client'[serving'] # "answered"
      BY <2>1, <2>4 DEF RelayReport, Served
    <3>. QED
      BY <2>4, <3>1 DEF InStep, ResultStep
  <2>5. ASSUME hostPc' = "result", NEW a \in Answers, RelayAnswer(a),
               SendEnclave(Msg(a, serving))
        PROVE  InStep'
    <3>1. CASE client[serving] = "answered"
      <4>1. Nothing /\ session = serving
        BY <2>1, <2>5, <3>1 DEF InStep, AnswerStep, RelayAnswer
      <4>2. toHost' = << >> /\ toEnclave' = << Msg(a, serving) >>
        BY <2>5, <4>1, AppendsToShort DEF Nothing, SendEnclave, RelayAnswer
      <4>3. Msg(a, serving)' = Msg(a, serving)
        BY <2>1 DEF Msg
      <4>4. ResultStep'
        BY <2>1, <4>1, <4>2, <4>3 DEF ResultStep
      <4>. QED
        BY <2>5, <4>4 DEF InStep
    <3>2. CASE client[serving] # "answered"
      BY <2>1, <2>5, <3>2 DEF InStep, ResultStep
    <3>. QED
      BY <3>1, <3>2
  <2>. QED
    BY <1>3, <2>2, <2>3, <2>4, <2>5, HostGoesOn
<1>4. CASE EnclaveStep
  <2>1. UNCHANGED <<client, inbox, hostPc, serving>> /\ toEnclave # << >>
    BY <1>4, EnclaveReads DEF EnclaveStep, clientVars, hostVars
  <2>2. AnswerStep => AnswerStep'
    <3>1. OwnReport' = OwnReport
      BY <2>1 DEF OwnReport, Msg
    <3>. QED
      BY <2>1, <3>1 DEF AnswerStep, Nothing
  <2>. QED
    BY <1>4, <2>1, <2>2, ReportSent, ResultSent DEF InStep
<1>5. CASE Crash
  BY <1>2, <1>5 DEF Crash
<1>6. CASE Garble
  <2>1. UNCHANGED <<client, inbox, hostPc, serving, toEnclave, session, registered>>
        /\ toHost # << >>
    BY <1>6 DEF Garble, clientVars, hostVars, enclaveVars
  <2>2. /\ DOMAIN toHost' = DOMAIN toHost /\ Len(toHost') = Len(toHost)
        /\ \A i \in DOMAIN toHost' : toHost'[i] = Undecodable \/ toHost'[i] = toHost[i]
    BY <1>6, ReplyTypes DEF Garble, RegTypeOK
  <2>3. Undecodable # OwnReport /\ Undecodable # Plain("KeyRegSuccess")
    BY PlainParts DEF Undecodable, OwnReport
  <2>4. OwnReport' = OwnReport /\ Plain("KeyRegSuccess")' = Plain("KeyRegSuccess")
    BY <2>1 DEF OwnReport, Plain, Msg
  <2>5. ReportStep => ReportStep'
    BY <2>1, <2>2, <2>3, <2>4 DEF ReportStep
  <2>6. AnswerStep => AnswerStep'
    BY <2>1, <2>4 DEF AnswerStep, Nothing
  <2>7. ResultStep => ResultStep'
    BY <2>1, <2>2, <2>3, <2>4 DEF ResultStep, IsRegistered
  <2>. QED
    BY <2>1, <2>5, <2>6, <2>7 DEF InStep
<1>7. ASSUME NEW c \in Clients,
             \/ Connect(c) \/ ClientStep(c) \/ Vanish(c)
             \/ \E r \in Requests : Ask(c, r)
      PROVE  InStep'
  <2>1. UNCHANGED <<hostPc, serving, toEnclave, toHost, session, registered>>
    BY <1>7, ClientChanges
  <2>2. /\ OwnReport' = OwnReport /\ \A t, d : Msg(t, d)' = Msg(t, d) /\ Plain(t)' = Plain(t)
    BY <2>1 DEF OwnReport, Plain, Msg
  <2>3. ReportStep => ReportStep'
    BY <2>1, <2>2 DEF ReportStep
  <2>4. CASE serving # c
    <3>1. serving \in Clients =>
            client'[serving] = client[serving] /\ inbox'[serving] = inbox[serving]
      BY <1>7, <2>4, ClientChanges
    <3>2. serving \in Clients /\ AnswerStep => AnswerStep'
      BY <2>1, <2>2, <3>1 DEF AnswerStep, Nothing
    <3>3. serving \in Clients /\ ResultStep => ResultStep'
      BY <2>1, <2>2, <3>1 DEF ResultStep, IsRegistered
    <3>. QED
      BY <2>1, <2>3, <3>2, <3>3 DEF InStep
  <2>5. CASE serving = c /\ client[c] \in {"new", "connected"}
    BY <1>2, <2>1, <2>5 DEF OneRequest
  <2>6. CASE serving = c /\ client[c] \notin {"new", "connected"}
    <3>1. ASSUME hostPc = "answer", AnswerStep PROVE AnswerStep'
      <4>1. << >> # << OwnReport >>
        BY ShortConnections
      <4>2. client'[c] = "answered" =>
              client[c] = "asked" /\ inbox[c] = << OwnReport >>
        BY <1>7, <2>6, ClientChanges DEF OwnReport
      <4>3. inbox' = inbox \/ inbox'[c] = << >>
        BY <1>7, <2>6, ClientChanges
      <4>. QED
        BY <2>1, <2>2, <2>6, <3>1, <4>1, <4>2, <4>3 DEF AnswerStep, Nothing
    <3>2. ASSUME hostPc = "result", ResultStep PROVE ResultStep'
      <4>1. << >> # << OwnReport >>
        BY ShortConnections
      <4>2. client[c] = "asked" => inbox[c] = << >>
        BY <2>6, <3>2 DEF Served
      <4>3. client'[c] # "answered"
        BY <1>7, <2>6, <4>1, <4>2, ClientChanges DEF OwnReport
      <4>. QED
        BY <2>1, <2>6, <4>3 DEF ResultStep
    <3>. QED
      BY <2>1, <2>3, <3>1, <3>2 DEF InStep
  <2>. QED
    BY <2>4, <2>5, <2>6
<1>8. CASE UNCHANGED regVars
  BY <1>1, <1>8 DEF regVars, clientVars, hostVars, enclaveVars
<1>. QED
  BY <1>2, <1>3, <1>4, <1>5, <1>6, <1>7, <1>8 DEF RegNext

(* Registered keys are kept.                                               *)
LEMMA RegisteredKept ==
  ASSUME RegTypeOK, [RegNext]_regVars, NEW c, IsRegistered(c)
  PROVE  IsRegistered(c)'
<1>1. CASE registered' = registered
  BY <1>1 DEF IsRegistered
<1>2. CASE EnclaveStep
  <2>1. ASSUME session \in Clients, registered' = Append(registered, session)
        PROVE  IsRegistered(c)'
    <3>1. PICK s \in Clients : s = session
      BY <2>1
    <3>2. \A d : IsRegistered(d)' <=> IsRegistered(d) \/ d = s
      BY <2>1, <3>1, RegisteredGrows DEF RegTypeOK
    <3>. QED
      BY <3>2
  <2>. QED
    BY <1>1, <1>2, <2>1, EnclaveReads
<1>3. CASE HostStep
  BY <1>1, <1>3, HostSends
<1>4. CASE Crash \/ Garble \/ UNCHANGED regVars
  BY <1>1, <1>4 DEF Crash, Garble, regVars, enclaveVars
<1>5. ASSUME NEW d \in Clients,
             \/ Connect(d) \/ ClientStep(d) \/ Vanish(d)
             \/ \E r \in Requests : Ask(d, r)
      PROVE  IsRegistered(c)'
  BY <1>1, <1>5, ClientChanges
<1>. QED
  BY <1>2, <1>3, <1>4, <1>5 DEF RegNext

(* A client is told that it is registered only when it is: the host has    *)
(* nothing else to tell the client that has sent its key.                  *)
LEMMA ToldStep ==
  ASSUME RegTypeOK, Served, InStep, Told, [RegNext]_regVars
  PROVE  Told'
<1>. SUFFICES ASSUME NEW c \in Clients, ToldSo(c)' PROVE IsRegistered(c) \/ IsRegistered(c)'
  BY RegisteredKept DEF Told
<1>. DEFINE told == << Plain("KeyRegSuccess") >>
<1>0. Plain("KeyRegSuccess")' = Plain("KeyRegSuccess")
  BY DEF Plain, Msg
<1>1. CASE client'[c] = client[c] /\ inbox'[c] = inbox[c]
  BY <1>0, <1>1 DEF Told, ToldSo
<1>2. CASE HostStep
  <2>1. client' = client
    BY <1>2, HostSends
  <2>2. CASE c # serving
    BY <1>1, <1>2, <2>1, <2>2, HostSeesServed
  <2>3. ASSUME c = serving, NEW t, t # "KeyRegSuccess", SendClient(Plain(t))
        PROVE  IsRegistered(c)
    <3>1. inbox'[c] = << Plain(t) >>
      BY <2>3 DEF SendClient, RegTypeOK
    <3>2. << Plain(t) >> # << Plain("KeyRegSuccess") >>
      BY <2>3, PlainParts
    <3>. QED
      BY <1>0, <2>1, <3>1, <3>2 DEF Told, ToldSo
  <2>4. ASSUME c = serving, NEW m, RelayReport(m) PROVE IsRegistered(c)
    <3>1. client[c] # "answered"
      BY <2>4 DEF RelayReport, Served
    <3>. QED
      BY <2>1, <3>1 DEF Told, ToldSo
  <2>5. ASSUME c = serving, NEW m, RelayResult(m), SendClient(m) PROVE IsRegistered(c)
    <3>1. /\ hostPc = "result" /\ toHost # << >> /\ m = toHost[1] /\ 1 \in DOMAIN toHost
      BY <2>5, ConnectionTypes DEF RelayResult, ReadEnclave
    <3>2. CASE client[c] = "answered"
      <4>1. inbox'[c] = << m >>
        BY <2>5 DEF SendClient, RegTypeOK
      <4>2. << m >> = << Plain("KeyRegSuccess") >> => m = Plain("KeyRegSuccess")
        OBVIOUS
      <4>3. m = Plain("KeyRegSuccess")
        BY <1>0, <2>1, <3>2, <4>1, <4>2 DEF ToldSo
      <4>. QED
        BY <2>5, <3>1, <3>2, <4>3 DEF InStep, ResultStep
    <3>3. CASE client[c] # "answered"
      BY <2>1, <3>3 DEF Told, ToldSo
    <3>. QED
      BY <3>2, <3>3
  <2>6. \/ inbox' = inbox
        \/ \E t \in {"UUID", "IndicesResponse", "Error"} : SendClient(Plain(t))
        \/ \E m : RelayReport(m)
        \/ \E m : RelayResult(m) /\ SendClient(m)
    BY <1>2 DEF HostStep, Restart, Accept, IgnoreStray, BeginFmd, HandleRegisterKey,
         HandleQuery, Response, RelayAnswer, RelayResult, ReadBlocks, ReadResults, clientVars
  <2>. QED
    BY <1>1, <2>1, <2>2, <2>3, <2>4, <2>5, <2>6
<1>3. CASE EnclaveStep \/ Crash \/ Garble \/ UNCHANGED regVars
  BY <1>1, <1>3 DEF EnclaveStep, Crash, Garble, regVars, clientVars
<1>4. ASSUME NEW d \in Clients,
             \/ Connect(d) \/ ClientStep(d) \/ Vanish(d)
             \/ \E r \in Requests : Ask(d, r)
      PROVE  IsRegistered(c)
  <2>1. CASE c # d
    BY <1>0, <1>4, <2>1, ClientChanges DEF Told, ToldSo
  <2>2. CASE c = d
    <3>1. << >> # << Plain("KeyRegSuccess") >>
      BY ShortConnections
    <3>. QED
      BY <1>0, <1>4, <2>2, <3>1, ClientChanges DEF Told, ToldSo
  <2>. QED
    BY <2>1, <2>2
<1>. QED
  BY <1>2, <1>3, <1>4 DEF RegNext

-----------------------------------------------------------------------------
(* The turns are kept until the first crash.                               *)
LEMMA TurnsStep ==
  ASSUME RegTypeOK, Turns, OneRequest, Served, [RegNext]_regVars
  PROVE  Turns'
<1>. SUFFICES ASSUME crashes' = 0 PROVE InTurn'
  BY DEF Turns
<1>1. ~Crash
  BY RegistrationAssumption DEF Crash, RegTypeOK
<1>2. crashes = 0
  <2>1. UNCHANGED crashes
    BY <1>1, ClientChanges DEF RegNext, HostStep, Restart, Accept, IgnoreStray, BeginFmd,
         HandleRegisterKey, HandleQuery, RelayAnswer, RelayReport, RelayResult,
         ReadBlocks, ReadResults, EnclaveStep, Garble, regVars, faultVars
  <2>. QED
    BY <2>1
<1>3. InTurn
  BY <1>2 DEF Turns
<1>4. CASE HostStep
  BY <1>3, <1>4, HostTurns, RegistrationAssumption DEF Served, RegTypeOK
<1>5. CASE EnclaveStep
  BY <1>3, <1>5, EnclaveTurns
<1>. QED
  BY <1>1, <1>3, <1>4, <1>5, OtherTurns DEF RegNext

RegInv ==
  /\ RegTypeOK /\ Turns
  /\ OneRequest /\ QueuedOnce /\ Served /\ NotYet /\ InStep /\ Told

(* The invariant holds of every behaviour: for any number of clients,      *)
(* crashes and undecodable replies.                                        *)
THEOREM RegInvariance == RegSpec => []RegInv
<1>1. RegInit => RegInv
  <2>. SUFFICES ASSUME RegInit PROVE RegInv
    OBVIOUS
  <2>1. /\ << >> \in Seq(Requests \cup Answers) /\ << >> \in Seq(ToClient)
        /\ << >> \in Seq(Clients) /\ << >> \in Seq(Message) /\ << >> \in Seq(Replies)
        /\ Len(<< >>) = 0 /\ DOMAIN << >> = {}
    OBVIOUS
  <2>2. RegTypeOK
    BY <2>1, RegistrationAssumption DEF RegInit, RegTypeOK, ToClient
  <2>3. Turns
    BY DEF RegInit, Turns, InTurn, IdleTurn, Quiet, ReportTurn, AnswerTurn, ResultTurn,
           BlocksTurn, ResultsTurn
  <2>4. OneRequest /\ QueuedOnce
    BY <2>1, RegistrationAssumption
       DEF RegInit, OneRequest, QueuedOnce, Fresh, Queued, Unseen, IsRegistered
  <2>5. Served /\ InStep /\ Told
    BY RegistrationAssumption DEF RegInit, Served, InStep, Told, ToldSo
  <2>6. NotYet
    BY <2>1 DEF RegInit, NotYet
  <2>. QED
    BY <2>2, <2>3, <2>4, <2>5, <2>6 DEF RegInv
<1>2. RegInv /\ [RegNext]_regVars => RegInv'
  BY RegTypeStep, TurnsStep, OneRequestStep, ServedStep, NotYetStep, InStepStep, ToldStep
     DEF RegInv
<1>. QED
  BY <1>1, <1>2, PTL DEF RegSpec

(* Each client has at most one message on its way in each direction, and   *)
(* the host serves a client exactly while it handles a connection          *)
(* (main.rs:102-106).                                                      *)
THEOREM RegTypeCorrect == RegSpec => []RegTypeOK
<1>1. RegInv => RegTypeOK
  BY DEF RegInv
<1>. QED
  BY <1>1, RegInvariance, PTL

(* Until the host crashes, what it reads from the enclave is the answer to *)
(* what it sent last, also after it has given up on a client               *)
(* (main.rs:155-272).                                                      *)
THEOREM RepliesAlwaysMatch == RegSpec => []RepliesMatch
<1>1. RegInv => RepliesMatch
  <2>. SUFFICES ASSUME RegInv, toHost # << >>, crashes = 0
                PROVE  /\ Len(toHost) = 1 /\ toEnclave = << >>
                       /\ \/ toHost[1] \in Expected
                          \/ garbled > 0 /\ Expected # {} /\ toHost[1] = Undecodable
    BY DEF RepliesMatch
  <2>1. RegTypeOK /\ InTurn
    BY DEF RegInv, Turns
  <2>2. \A m : Got(m) => Len(toHost) = 1 /\ toHost[1] = m /\ toEnclave = << >>
    BY ShortConnections DEF Got
  <2>3. hostPc \in {"report", "result", "blocks", "results"}
    BY <2>1 DEF RegTypeOK, InTurn, IdleTurn, Quiet, AnswerTurn, Nothing
  <2>4. CASE hostPc = "report"
    <3>1. Expected = {Msg("RATLS", serving), Plain("ErrorForClient")}
      BY <2>4 DEF Expected
    <3>. QED
      BY <2>1, <2>2, <2>4, <3>1 DEF InTurn, ReportTurn, Sent, GotGarbled
  <2>5. CASE hostPc = "result"
    <3>1. Expected = {Plain("KeyRegSuccess"), Plain("ErrorForClient")}
      BY <2>5 DEF Expected
    <3>. QED
      BY <2>1, <2>2, <2>5, <3>1 DEF InTurn, ResultTurn, Nothing, GotGarbled
  <2>6. CASE hostPc = "blocks"
    <3>1. Expected = {Plain("BlockRequests"), Plain("NoBlockRequests")}
      BY <2>6 DEF Expected
    <3>. QED
      BY <2>1, <2>2, <2>6, <3>1 DEF InTurn, BlocksTurn, Sent, GotGarbled
  <2>7. CASE hostPc = "results"
    <3>1. Expected = {Plain("FmdResults")}
      BY <2>7 DEF Expected
    <3>. QED
      BY <2>1, <2>2, <2>7, <3>1 DEF InTurn, ResultsTurn, GotGarbled
  <2>. QED
    BY <2>3, <2>4, <2>5, <2>6, <2>7
<1>. QED
  BY <1>1, RegInvariance, PTL

(* The enclave is never left waiting for the key of a client that the host *)
(* has given up, unless the host has crashed (main.rs:169-178).            *)
THEOREM EnclaveLetGo == RegSpec => []EnclaveNotLeftWaiting
<1>1. RegInv => EnclaveNotLeftWaiting
  <2>. SUFFICES ASSUME RegInv, session # None, serving # session, ~(crashes > 0)
                PROVE  toEnclave # << >> /\ Head(toEnclave).type = "Fail"
    BY DEF EnclaveNotLeftWaiting
  <2>1. RegTypeOK /\ InTurn
    BY DEF RegInv, Turns, RegTypeOK
  <2>2. toEnclave = << GiveUp >> \/ \E m : toEnclave = << GiveUp, m >>
    BY <2>1 DEF RegTypeOK, InTurn, IdleTurn, Quiet, ReportTurn, AnswerTurn,
                ResultTurn, BlocksTurn, ResultsTurn, Sent, GotGarbled
  <2>3. toEnclave # << >> /\ Head(toEnclave) = GiveUp
    BY <2>2, ShortConnections
  <2>. QED
    BY <2>3, PlainParts DEF GiveUp
<1>. QED
  BY <1>1, RegInvariance, PTL

(* A client that is told so is registered, and no client is registered     *)
(* twice, also when the host has crashed and the answers to the first are  *)
(* read by the next (enclave ratls.rs:76-80, lib.rs:58-65).                *)
THEOREM RegisteredWhenTold == RegSpec => []SuccessIsTrue
<1>1. RegInv => SuccessIsTrue
  BY DEF RegInv, Told, NotYet, IsRegistered, SuccessIsTrue
<1>. QED
  BY <1>1, RegInvariance, PTL
=============================================================================
