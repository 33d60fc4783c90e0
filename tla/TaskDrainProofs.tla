-------------------------- MODULE TaskDrainProofs --------------------------
(***************************************************************************)
(* The safety properties of one sync, and that it is a sync of Fetcher,    *)
(* for every tip, batch size, capacity of the channel and number of failed *)
(* downloads.                                                              *)
(***************************************************************************)
EXTENDS TaskDrain, FiniteSetTheorems, SequenceTheorems, TLAPS

-----------------------------------------------------------------------------
(* The channel as a set, and the intervals of a set of messages.           *)
Queued(q) == {q[i] : i \in DOMAIN q}
Froms(M) == {m[1] : m \in M}
Distinct(q) == \A i, j \in DOMAIN q : q[i] = q[j] => i = j

(* A message that is sent goes behind the others.                          *)
LEMMA AppendQueued ==
  ASSUME NEW S, NEW q \in Seq(S), NEW m \in S
  PROVE  /\ Append(q, m) \in Seq(S)
         /\ Len(Append(q, m)) = Len(q) + 1
         /\ Queued(Append(q, m)) = Queued(q) \cup {m}
         /\ Distinct(q) /\ m \notin Queued(q) => Distinct(Append(q, m))
<1>1. /\ Append(q, m) \in Seq(S)
      /\ Len(q) \in Nat /\ Len(Append(q, m)) = Len(q) + 1
      /\ DOMAIN q = 1..Len(q)
      /\ DOMAIN Append(q, m) = 1..(Len(q) + 1)
  OBVIOUS
<1>2. /\ \A i \in 1..Len(q) : Append(q, m)[i] = q[i]
      /\ Append(q, m)[Len(q) + 1] = m
  OBVIOUS
<1>3. \A i \in 1..(Len(q) + 1) : i \in 1..Len(q) \/ i = Len(q) + 1
  BY <1>1
<1>4. \A i \in 1..Len(q) : i \in 1..(Len(q) + 1)
  BY <1>1
<1>5. Len(q) + 1 \in 1..(Len(q) + 1)
  BY <1>1
<1>6. Queued(Append(q, m)) = Queued(q) \cup {m}
  BY <1>1, <1>2, <1>3, <1>4, <1>5 DEF Queued
<1>7. ASSUME Distinct(q), m \notin Queued(q)
      PROVE  Distinct(Append(q, m))
  BY <1>1, <1>2, <1>3, <1>7 DEF Distinct, Queued
<1>. QED
  BY <1>1, <1>6, <1>7

(* The message taken is the first.                                         *)
LEMMA TailQueued ==
  ASSUME NEW S, NEW q \in Seq(S), q # <<>>
  PROVE  /\ Head(q) \in S /\ Tail(q) \in Seq(S)
         /\ Len(Tail(q)) = Len(q) - 1
         /\ Queued(q) = Queued(Tail(q)) \cup {Head(q)}
         /\ Distinct(q) => /\ Distinct(Tail(q))
                           /\ Head(q) \notin Queued(Tail(q))
<1>1. /\ Head(q) \in S /\ Tail(q) \in Seq(S)
      /\ Len(Tail(q)) = Len(q) - 1
      /\ \A i \in 1..Len(Tail(q)) : Tail(q)[i] = q[i + 1]
  BY HeadTailProperties
<1>2. /\ Len(q) \in Nat \ {0} /\ DOMAIN q = 1..Len(q)
      /\ DOMAIN Tail(q) = 1..(Len(q) - 1)
  BY <1>1, EmptySeq, LenProperties
<1>3. Head(q) = q[1] /\ 1 \in 1..Len(q)
  BY <1>2
<1>4. \A i \in 1..(Len(q) - 1) : i + 1 \in 1..Len(q) /\ i + 1 # 1
  BY <1>2
<1>5. \A i \in 1..Len(q) : i = 1 \/ (i - 1 \in 1..(Len(q) - 1) /\ (i - 1) + 1 = i)
  BY <1>2
<1>6. \A i \in 1..(Len(q) - 1) : Tail(q)[i] = q[i + 1]
  BY <1>1
<1>7. Queued(q) = Queued(Tail(q)) \cup {Head(q)}
  <2>1. ASSUME NEW x \in Queued(q) PROVE x \in Queued(Tail(q)) \cup {Head(q)}
    <3>1. PICK i \in 1..Len(q) : x = q[i]
      BY <1>2, <2>1 DEF Queued
    <3>2. CASE i = 1
      BY <1>3, <3>1, <3>2
    <3>3. CASE i # 1
      <4>1. i - 1 \in 1..(Len(q) - 1) /\ (i - 1) + 1 = i
        BY <1>5, <3>3
      <4>2. Tail(q)[i - 1] = x
        BY <1>6, <3>1, <4>1
      <4>. QED
        BY <1>2, <4>1, <4>2 DEF Queued
    <3>. QED
      BY <3>2, <3>3
  <2>2. Queued(Tail(q)) \cup {Head(q)} \subseteq Queued(q)
    BY <1>2, <1>3, <1>4, <1>6 DEF Queued
  <2>. QED
    BY <2>1, <2>2
<1>8. ASSUME Distinct(q)
      PROVE  Distinct(Tail(q)) /\ Head(q) \notin Queued(Tail(q))
  <2>1. ASSUME NEW i \in 1..(Len(q) - 1), NEW j \in 1..(Len(q) - 1),
               Tail(q)[i] = Tail(q)[j]
        PROVE  i = j
    <3>1. q[i + 1] = q[j + 1] /\ i + 1 \in 1..Len(q) /\ j + 1 \in 1..Len(q)
      BY <1>4, <1>6, <2>1
    <3>2. i + 1 = j + 1
      BY <1>2, <1>8, <3>1 DEF Distinct
    <3>. QED
      BY <3>2
  <2>2. ASSUME NEW i \in 1..(Len(q) - 1) PROVE Tail(q)[i] # q[1]
    <3>1. i + 1 \in 1..Len(q) /\ i + 1 # 1 /\ Tail(q)[i] = q[i + 1]
      BY <1>4, <1>6
    <3>. QED
      BY <1>2, <1>3, <1>8, <3>1 DEF Distinct
  <2>. QED
    BY <1>2, <1>3, <2>1, <2>2 DEF Distinct, Queued
<1>. QED
  BY <1>1, <1>7, <1>8

(* An empty channel.                                                       *)
LEMMA EmptyQueued == Queued(<<>>) = {} /\ Distinct(<<>>)
  BY DEF Queued, Distinct

-----------------------------------------------------------------------------
(* The invariant.                                                          *)

(* The counter counts the tasks that download, wait for room, or have      *)
(* ended without having decremented it.                                    *)
Counted ==
  /\ IsFiniteSet(running) /\ IsFiniteSet(sending)
  /\ count = Cardinality(running) + Cardinality(sending) + dropping

(* Each interval is in one place: to be spawned, with a task, on its way   *)
(* to the fetcher, or handled.                                             *)
OnePlace ==
  /\ toSpawn \cap running = {} /\ toSpawn \cap handled = {}
  /\ running \cap handled = {}
  /\ \A m \in InTransit :
       m[1] \notin toSpawn /\ m[1] \notin running /\ m[1] \notin handled
  /\ \A m, n \in InTransit : m[1] = n[1] => m = n
  /\ sending \cap hand = {} /\ sending \cap Queued(queue) = {}
  /\ hand \cap Queued(queue) = {}
  /\ Distinct(queue)

(* What there is where the fetcher is.                                     *)
Places ==
  /\ fpc = "top" => /\ toSpawn = {} /\ running = {} /\ sending = {}
                    /\ handled = {} /\ queue = <<>>
  /\ toSpawn # {} => fpc = "spawn"
  /\ hand # {} <=> fpc = "handle"
  /\ \A m, n \in hand : m = n

(* Once the fetcher has read zero no task starts, and the sync ends with   *)
(* an empty channel.                                                       *)
Drained ==
  /\ fpc = "drain" \/ (fpc = "done" /\ ~interruptFlag) => count = 0
  /\ fpc = "done" /\ ~interruptFlag => queue = <<>>

(* The flag is raised by the signal.                                       *)
FlagFollows == interruptFlag => shutdownSignal

(* No interval is forgotten.                                               *)
Accounted == fpc # "top" /\ ~interruptFlag => Awaited \cup handled = Ranges

(* A fetcher that has found the channel empty is woken by a message, and,  *)
(* once it has registered, by the end of the last task.                    *)
Listens ==
  /\ fpc \in {"load", "register", "parked"} /\ ~notified => queue = <<>>
  /\ fpc \in {"register", "parked"} /\ ~notified =>
       count > 0 \/ waking > 0 \/ missedWake
  /\ fpc = "parked" => waker \/ notified

DrainInv ==
  /\ DrainTypeOK /\ Counted /\ OnePlace /\ Places
  /\ Drained /\ FlagFollows /\ Accounted /\ Listens

(* What is on its way, with the channel as a set.                          *)
LEMMA InTransitIs ==
  InTransit = sending \cup hand \cup Queued(queue)
  BY DEF InTransit, Queued

(* A message is an interval and a verdict.                                 *)
LEMMA MessageIs ==
  /\ \A m \in Message : m[1] \in Ranges /\ m[2] \in BOOLEAN /\ m = <<m[1], m[2]>>
  /\ \A r \in Ranges, ok \in BOOLEAN : <<r, ok>> \in Message
  BY DEF Message

(* The counter is zero only when there is nothing to count.                *)
LEMMA NothingCounted ==
  ASSUME DrainTypeOK, Counted
  PROVE  /\ count = 0 => running = {} /\ sending = {} /\ dropping = 0
         /\ running # {} \/ sending # {} \/ dropping > 0 => count > 0
<1>1. /\ Cardinality(running) \in Nat /\ Cardinality(sending) \in Nat
      /\ Cardinality(running) = 0 <=> running = {}
      /\ Cardinality(sending) = 0 <=> sending = {}
  BY FS_CardinalityType, FS_EmptySet DEF Counted
<1>2. /\ count \in Nat /\ dropping \in Nat
      /\ count = Cardinality(running) + Cardinality(sending) + dropping
  BY DEF Counted, DrainTypeOK
<1>3. /\ count = 0 => /\ Cardinality(running) = 0 /\ Cardinality(sending) = 0
                     /\ dropping = 0
      /\ Cardinality(running) # 0 => count > 0
      /\ Cardinality(sending) # 0 => count > 0
      /\ dropping > 0 => count > 0
  BY <1>1, <1>2
<1>. QED
  BY <1>1, <1>3

-----------------------------------------------------------------------------
(* The steps.                                                              *)

(* Taking a message from the channel.                                      *)
LEMMA TakeIs ==
  ASSUME DrainTypeOK, OnePlace, hand = {}, Take
  PROVE  /\ queue # <<>> /\ fpc' = "handle"
         /\ queue' \in Seq(Message) /\ Len(queue') <= Capacity
         /\ Head(queue) \in Message /\ hand' = {Head(queue)}
         /\ hand' \cup Queued(queue') = Queued(queue)
         /\ Distinct(queue') /\ hand' \cap Queued(queue') = {}
<1>1. /\ queue \in Seq(Message) /\ queue # <<>> /\ Distinct(queue)
      /\ hand' = {Head(queue)} /\ queue' = Tail(queue) /\ fpc' = "handle"
  BY DEF DrainTypeOK, OnePlace, Take
<1>2. /\ Head(queue) \in Message /\ Tail(queue) \in Seq(Message)
      /\ Len(Tail(queue)) = Len(queue) - 1
      /\ Queued(queue) = Queued(Tail(queue)) \cup {Head(queue)}
      /\ Distinct(Tail(queue)) /\ Head(queue) \notin Queued(Tail(queue))
  BY <1>1, TailQueued
<1>3. Len(queue) \in Nat /\ Len(queue) <= Capacity
  BY <1>1, LenProperties DEF DrainTypeOK
<1>4. Len(Tail(queue)) <= Capacity
  BY <1>2, <1>3, DrainAssumption
<1>. QED
  BY <1>1, <1>2, <1>4

(* The types of the variables.                                             *)
LEMMA TypeStep ==
  ASSUME DrainInv, DrainNext
  PROVE  DrainTypeOK'
<1>. USE DEF DrainTypeOK, DrainInv
<1>1. CASE Signal \/ StopRequested \/ BeginSync \/ EndSpawn \/ Write \/ Check
           \/ LoadCounter \/ RegisterWaker \/ Unpark \/ WakeCounter
  <2>1. CASE Signal \/ StopRequested \/ EndSpawn \/ Write
    BY <2>1 DEF Signal, StopRequested, EndSpawn, Write, taskVars, polled,
       loopVars, signals
  <2>2. CASE Check \/ LoadCounter \/ RegisterWaker \/ Unpark
    BY <2>2 DEF Check, LoadCounter, RegisterWaker, Unpark, taskVars, polled,
       loopVars, signals
  <2>3. CASE BeginSync
    BY <2>3 DEF BeginSync, polled, signals
  <2>4. CASE WakeCounter
    <3>1. waking' \in Nat
      BY <2>4 DEF WakeCounter
    <3>2. /\ waker' = FALSE
          /\ notified' = (notified \/ waker)
          /\ missedWake' = (missedWake \/ (fpc = "register" /\ ~waker))
      BY <2>4 DEF WakeCounter
    <3>3. waker' \in BOOLEAN /\ notified' \in BOOLEAN /\ missedWake' \in BOOLEAN
      BY <3>2
    <3>. QED
      BY <2>4, <3>1, <3>3 DEF WakeCounter, signals, loopVars
  <2>. QED
    BY <1>1, <2>1, <2>2, <2>3, <2>4
<1>2. CASE Decrement
  <2>1. count > 0
    BY <1>2, NothingCounted DEF Decrement
  <2>2. count - 1 \in Nat /\ dropping - 1 \in Nat
    BY <1>2, <2>1 DEF Decrement
  <2>. QED
    BY <1>2, <2>2 DEF Decrement, signals, loopVars
<1>3. CASE \E r \in running : SeesShutdown(r)
  BY <1>3 DEF SeesShutdown, polled, loopVars
<1>4. CASE \E r \in running, ok \in BOOLEAN : Download(r, ok)
  <2>1. PICK r \in running, ok \in BOOLEAN : Download(r, ok)
    BY <1>4
  <2>2. <<r, ok>> \in Message
    BY MessageIs
  <2>3. sending' \in SUBSET Message /\ running' \in SUBSET Ranges
    BY <2>1, <2>2 DEF Download
  <2>4. errors' \in 0..MaxErrors
    BY <2>1, DrainAssumption DEF Download
  <2>. QED
    BY <2>1, <2>3, <2>4 DEF Download, signals, polled, loopVars
<1>5. CASE PollChannel \/ Drain
  <2>1. hand = {}
    BY <1>5 DEF PollChannel, Drain, Places
  <2>2. CASE Take
    <3>1. /\ queue' \in Seq(Message) /\ Len(queue') <= Capacity
          /\ hand' \in SUBSET Message /\ fpc' = "handle"
      BY <2>1, <2>2, TakeIs
    <3>. QED
      BY <1>5, <3>1 DEF PollChannel, Drain, signals, taskVars
  <2>3. CASE ~Take
    BY <1>5, <2>3 DEF PollChannel, Drain, signals, taskVars
  <2>. QED
    BY <2>2, <2>3
<1>6. CASE \E r \in toSpawn : SpawnTask(r)
  BY <1>6 DEF SpawnTask, signals, loopVars
<1>7. CASE \E m \in hand : Handle(m[1], m[2])
  <2>1. PICK m \in hand : Handle(m[1], m[2])
    BY <1>7
  <2>2. m[1] \in Ranges
    BY MessageIs
  <2>. HIDE DEF DrainInv
  <2>. DEFINE r == m[1]
              ok == m[2]
  <2>3. r \in Ranges /\ Handle(r, ok)
    BY <2>1, <2>2
  <2>. HIDE DEF r, ok
  <2>4. /\ running' \in SUBSET Ranges /\ count' \in Nat
        /\ handled' \in SUBSET Ranges /\ hand' = {}
        /\ fpc' \in {"write", "check"} /\ interruptFlag' \in BOOLEAN
    BY <2>3 DEF Handle, DrainInv
  <2>. QED
    BY <2>3, <2>4 DEF Handle, DrainInv
<1>8. CASE \E m \in sending : Send(m)
  <2>1. PICK m \in sending : Send(m)
    BY <1>8
  <2>2. /\ Append(queue, m) \in Seq(Message)
        /\ Len(Append(queue, m)) = Len(queue) + 1
    BY AppendQueued
  <2>3. Len(queue) \in Nat
    BY LenProperties
  <2>4. queue' \in Seq(Message) /\ Len(queue') <= Capacity
    BY <2>1, <2>2, <2>3, DrainAssumption DEF Send
  <2>. QED
    BY <2>1, <2>4 DEF Send, signals, loopVars
<1>. QED
  BY <1>1, <1>2, <1>3, <1>4, <1>5, <1>6, <1>7, <1>8
  DEF DrainNext, TaskSteps, FetcherSteps

(* The counter, decremented last, never misses a task.                     *)
LEMMA CountedStep ==
  ASSUME DrainInv, DrainNext
  PROVE  Counted'
<1>. DEFINE R == Cardinality(running)
            S == Cardinality(sending)
<1>0. /\ IsFiniteSet(running) /\ IsFiniteSet(sending)
      /\ R \in Nat /\ S \in Nat
      /\ count \in Nat /\ dropping \in Nat
      /\ count = R + S + dropping
  BY FS_CardinalityType DEF DrainInv, DrainTypeOK, Counted
<1>1. CASE Signal \/ StopRequested \/ BeginSync \/ EndSpawn \/ Write \/ Check
           \/ LoadCounter \/ RegisterWaker \/ Unpark \/ WakeCounter
           \/ PollChannel \/ Drain
  <2>1. UNCHANGED <<running, sending, count, dropping>>
    BY <1>1 DEF Signal, StopRequested, BeginSync, EndSpawn, Write, Check,
       LoadCounter, RegisterWaker, Unpark, WakeCounter, PollChannel, Drain,
       taskVars, polled
  <2>. QED
    BY <1>0, <2>1 DEF Counted
<1>2. CASE Decrement
  BY <1>0, <1>2 DEF Decrement, Counted
<1>3. CASE \E r \in running : SeesShutdown(r)
  <2>1. PICK r \in running : SeesShutdown(r)
    BY <1>3
  <2>2. /\ IsFiniteSet(running \ {r})
        /\ Cardinality(running \ {r}) = R - 1
    BY <1>0, FS_RemoveElement
  <2>3. /\ running' = running \ {r} /\ sending' = sending
        /\ dropping' = dropping + 1 /\ count' = count
    BY <2>1 DEF SeesShutdown, polled
  <2>. QED
    BY <1>0, <2>2, <2>3 DEF Counted
<1>4. CASE \E r \in running, ok \in BOOLEAN : Download(r, ok)
  <2>1. PICK r \in running, ok \in BOOLEAN : Download(r, ok)
    BY <1>4
  <2>2. /\ IsFiniteSet(running \ {r})
        /\ Cardinality(running \ {r}) = R - 1
    BY <1>0, FS_RemoveElement
  <2>3. <<r, ok>> \notin sending
    <3>1. SUFFICES ASSUME <<r, ok>> \in sending PROVE FALSE
      OBVIOUS
    <3>2. <<r, ok>>[1] \notin running
      BY <3>1, InTransitIs DEF DrainInv, OnePlace
    <3>. QED
      BY <3>2
  <2>4. /\ IsFiniteSet(sending \cup {<<r, ok>>})
        /\ Cardinality(sending \cup {<<r, ok>>}) = S + 1
    BY <1>0, <2>3, FS_AddElement
  <2>5. /\ running' = running \ {r} /\ sending' = sending \cup {<<r, ok>>}
        /\ dropping' = dropping /\ count' = count
    BY <2>1 DEF Download, polled
  <2>. QED
    BY <1>0, <2>2, <2>4, <2>5 DEF Counted
<1>5. CASE \E r \in toSpawn : SpawnTask(r)
  <2>1. PICK r \in toSpawn : SpawnTask(r)
    BY <1>5
  <2>2. r \notin running
    BY DEF DrainInv, OnePlace
  <2>3. /\ IsFiniteSet(running \cup {r})
        /\ Cardinality(running \cup {r}) = R + 1
    BY <1>0, <2>2, FS_AddElement
  <2>4. /\ running' = running \cup {r} /\ sending' = sending
        /\ dropping' = dropping /\ count' = count + 1
    BY <2>1 DEF SpawnTask
  <2>. QED
    BY <1>0, <2>3, <2>4 DEF Counted
<1>6. CASE \E m \in hand : Handle(m[1], m[2])
  <2>1. PICK m \in hand : Handle(m[1], m[2])
    BY <1>6
  <2>2. m[1] \notin running
    BY InTransitIs DEF DrainInv, OnePlace
  <2>3. /\ IsFiniteSet(running \cup {m[1]})
        /\ Cardinality(running \cup {m[1]}) = R + 1
    BY <1>0, <2>2, FS_AddElement
  <2>4. /\ sending' = sending /\ dropping' = dropping
        /\ \/ running' = running /\ count' = count
           \/ running' = running \cup {m[1]} /\ count' = count + 1
    BY <2>1 DEF Handle
  <2>5. CASE running' = running /\ count' = count
    BY <1>0, <2>4, <2>5 DEF Counted
  <2>6. CASE running' = running \cup {m[1]} /\ count' = count + 1
    BY <1>0, <2>3, <2>4, <2>6 DEF Counted
  <2>. QED
    BY <2>4, <2>5, <2>6
<1>7. CASE \E m \in sending : Send(m)
  <2>1. PICK m \in sending : Send(m)
    BY <1>7
  <2>2. /\ IsFiniteSet(sending \ {m})
        /\ Cardinality(sending \ {m}) = S - 1
    BY <1>0, FS_RemoveElement
  <2>3. /\ sending' = sending \ {m} /\ running' = running
        /\ dropping' = dropping + 1 /\ count' = count
    BY <2>1 DEF Send
  <2>. QED
    BY <1>0, <2>2, <2>3 DEF Counted
<1>. QED
  BY <1>1, <1>2, <1>3, <1>4, <1>5, <1>6, <1>7
  DEF DrainNext, TaskSteps, FetcherSteps

(* Where the fetcher is, what it has read, and what has woken it.          *)
LEMMA PlacesStep ==
  ASSUME DrainInv, DrainNext
  PROVE  Places' /\ FlagFollows'
<1>. USE DEF DrainInv, Places, FlagFollows
<1>1. CASE Signal \/ StopRequested \/ EndSpawn \/ Write
  <2>1. CASE Signal
    BY <2>1 DEF Signal, taskVars, polled, loopVars
  <2>2. CASE StopRequested
    BY <2>2 DEF StopRequested, taskVars, polled
  <2>3. CASE EndSpawn \/ Write
    BY <2>3 DEF EndSpawn, Write, taskVars, polled, signals
  <2>. QED
    BY <1>1, <2>1, <2>2, <2>3
<1>2. CASE Check \/ LoadCounter \/ RegisterWaker \/ Unpark
  BY <1>2 DEF Check, LoadCounter, RegisterWaker, Unpark, taskVars, polled,
     signals
<1>3. CASE BeginSync
  BY <1>3 DEF BeginSync, polled, signals
<1>4. CASE WakeCounter \/ Decrement
  BY <1>4 DEF WakeCounter, Decrement, signals, loopVars
<1>5. CASE \E r \in running : SeesShutdown(r)
  BY <1>5 DEF SeesShutdown, polled, loopVars
<1>6. CASE \E r \in running, ok \in BOOLEAN : Download(r, ok)
  BY <1>6 DEF Download, polled, loopVars, signals
<1>7. CASE PollChannel \/ Drain
  <2>1. hand = {} /\ toSpawn = {} /\ UNCHANGED taskVars
    BY <1>7 DEF PollChannel, Drain
  <2>2. interruptFlag' => shutdownSignal'
    BY <1>7 DEF PollChannel, Drain, signals
  <2>3. CASE Take
    <3>1. fpc' = "handle" /\ hand' = {Head(queue)}
      BY <2>3 DEF Take
    <3>. QED
      BY <2>1, <2>2, <3>1 DEF taskVars
  <2>4. CASE ~Take
    <3>1. hand' = hand /\ fpc' \in {"load", "done"}
      BY <1>7, <2>4 DEF PollChannel, Drain
    <3>. QED
      BY <2>1, <2>2, <3>1 DEF taskVars
  <2>. QED
    BY <2>3, <2>4
<1>8. CASE \E r \in toSpawn : SpawnTask(r)
  BY <1>8 DEF SpawnTask, signals, loopVars
<1>9. CASE \E m \in hand : Handle(m[1], m[2])
  <2>1. /\ hand' = {} /\ fpc' \in {"write", "check"}
        /\ toSpawn = {} /\ toSpawn' = toSpawn
    BY <1>9 DEF Handle
  <2>2. PICK m \in hand : Handle(m[1], m[2])
    BY <1>9
  <2>3. /\ interruptFlag' = (interruptFlag \/ shutdownSignal)
        /\ shutdownSignal' = shutdownSignal
    BY Zenon, <2>2 DEF Handle
  <2>. QED
    BY <2>1, <2>3
<1>10. CASE \E m \in sending : Send(m)
  BY <1>10 DEF Send, signals, loopVars
<1>. QED
  BY <1>1, <1>2, <1>3, <1>4, <1>5, <1>6, <1>7, <1>8, <1>9, <1>10
  DEF DrainNext, TaskSteps, FetcherSteps

(* After the fetcher has read zero, only what is in the channel is left.   *)
LEMMA DrainedStep ==
  ASSUME DrainInv, DrainNext
  PROVE  Drained'
<1>. USE DEF DrainInv, Drained
<1>0. /\ count = 0 => running = {} /\ sending = {} /\ dropping = 0
      /\ count \in Nat /\ dropping \in Nat
  BY NothingCounted DEF DrainTypeOK
<1>1. CASE Signal \/ EndSpawn \/ Write
  BY <1>1 DEF Signal, EndSpawn, Write, taskVars, polled, loopVars
<1>2. CASE StopRequested
  BY <1>2 DEF StopRequested
<1>3. CASE Check \/ LoadCounter \/ RegisterWaker \/ Unpark
  BY <1>3 DEF Check, LoadCounter, RegisterWaker, Unpark, polled, signals
<1>4. CASE BeginSync
  BY <1>4 DEF BeginSync
<1>5. CASE WakeCounter
  BY <1>5 DEF WakeCounter, signals, loopVars
<1>6. CASE Decrement
  <2>1. count # 0
    BY <1>0, <1>6 DEF Decrement
  <2>. QED
    BY <1>6, <2>1 DEF Decrement, signals, loopVars
<1>7. CASE \E r \in running : SeesShutdown(r)
  <2>1. count # 0 /\ fpc' = fpc /\ interruptFlag'
    BY <1>0, <1>7 DEF SeesShutdown, loopVars
  <2>. QED
    BY <2>1
<1>8. CASE \E r \in running, ok \in BOOLEAN : Download(r, ok)
  <2>1. count # 0 /\ fpc' = fpc /\ interruptFlag' = interruptFlag
    BY <1>0, <1>8 DEF Download, loopVars, signals
  <2>. QED
    BY <2>1
<1>9. CASE PollChannel
  BY <1>9 DEF PollChannel, Take
<1>10. CASE Drain
  BY <1>10 DEF Drain, Take
<1>11. CASE \E r \in toSpawn : SpawnTask(r)
  BY <1>11 DEF SpawnTask, loopVars
<1>12. CASE \E m \in hand : Handle(m[1], m[2])
  BY <1>12 DEF Handle
<1>13. CASE \E m \in sending : Send(m)
  <2>1. count # 0 /\ fpc' = fpc /\ interruptFlag' = interruptFlag
    BY <1>0, <1>13 DEF Send, loopVars, signals
  <2>. QED
    BY <2>1
<1>. QED
  BY <1>1, <1>2, <1>3, <1>4, <1>5, <1>6, <1>7, <1>8, <1>9, <1>10, <1>11,
     <1>12, <1>13
  DEF DrainNext, TaskSteps, FetcherSteps

(* No wake is lost but the one that comes between the load and the         *)
(* registration.                                                           *)
LEMMA ListensStep ==
  ASSUME DrainInv, DrainNext
  PROVE  Listens'
<1>. USE DEF DrainInv, Listens
<1>0. /\ count \in Nat /\ waking \in Nat
      /\ notified \in BOOLEAN /\ waker \in BOOLEAN
  BY DEF DrainTypeOK
<1>1. CASE Signal
  BY <1>1 DEF Signal, taskVars, polled, loopVars
<1>2. CASE StopRequested \/ EndSpawn \/ Write \/ BeginSync \/ Check
  BY <1>2 DEF StopRequested, EndSpawn, Write, BeginSync, Check
<1>3. CASE LoadCounter
  BY <1>0, <1>3 DEF LoadCounter, taskVars, polled
<1>4. CASE RegisterWaker
  BY <1>4 DEF RegisterWaker, taskVars
<1>5. CASE Unpark
  BY <1>5 DEF Unpark
<1>6. CASE WakeCounter
  <2>1. /\ waking' = waking - 1 /\ waking > 0 /\ waker' = FALSE
        /\ notified' = (notified \/ waker)
        /\ missedWake' = (missedWake \/ (fpc = "register" /\ ~waker))
        /\ fpc' = fpc /\ queue' = queue /\ count' = count
    BY <1>6 DEF WakeCounter, loopVars
  <2>2. CASE waker
    BY <2>1, <2>2
  <2>3. CASE ~waker
    <3>1. notified' = notified /\ (fpc = "register" => missedWake')
      BY <1>0, <2>1, <2>3
    <3>2. fpc = "parked" => notified
      BY <2>3
    <3>. QED
      BY <2>1, <3>1, <3>2
  <2>. QED
    BY <2>2, <2>3
<1>7. CASE Decrement
  <2>1. /\ count' = count - 1
        /\ waking' = IF count = 1 THEN waking + 1 ELSE waking
        /\ UNCHANGED <<queue, waker, notified, fpc, missedWake>>
    BY <1>7 DEF Decrement, loopVars
  <2>2. count > 0 => count' > 0 \/ waking' > 0
    BY <1>0, <2>1
  <2>3. waking > 0 => waking' > 0
    BY <1>0, <2>1
  <2>. QED
    BY <2>1, <2>2, <2>3
<1>8. CASE \E r \in running : SeesShutdown(r)
  BY <1>8 DEF SeesShutdown, polled, loopVars
<1>9. CASE \E r \in running, ok \in BOOLEAN : Download(r, ok)
  BY <1>9 DEF Download, polled, loopVars
<1>10. CASE PollChannel
  BY <1>10 DEF PollChannel, Take
<1>11. CASE Drain
  BY <1>11 DEF Drain, Take
<1>12. CASE \E r \in toSpawn : SpawnTask(r)
  BY <1>12 DEF SpawnTask, loopVars, Places
<1>13. CASE \E m \in hand : Handle(m[1], m[2])
  BY <1>13 DEF Handle
<1>14. CASE \E m \in sending : Send(m)
  <2>1. /\ notified' = (notified \/ fpc \in {"load", "register", "parked"})
        /\ UNCHANGED <<fpc, count, waking, missedWake>>
    BY <1>14 DEF Send, loopVars
  <2>2. fpc' \in {"load", "register", "parked"} => notified'
    BY <2>1
  <2>. QED
    BY <2>2
<1>. QED
  BY <1>1, <1>2, <1>3, <1>4, <1>5, <1>6, <1>7, <1>8, <1>9, <1>10, <1>11,
     <1>12, <1>13, <1>14
  DEF DrainNext, TaskSteps, FetcherSteps

(* A step that moves nothing.                                              *)
LEMMA NothingMoves ==
  ASSUME UNCHANGED <<sending, queue, hand>>
  PROVE  InTransit' = InTransit
  BY DEF InTransit

(* An interval is never in two places.                                     *)
LEMMA OnePlaceStep ==
  ASSUME DrainInv, DrainNext
  PROVE  OnePlace'
<1>0. /\ OnePlace /\ DrainTypeOK /\ Places
      /\ InTransit = sending \cup hand \cup Queued(queue)
      /\ InTransit' = sending' \cup hand' \cup Queued(queue')
      /\ Queued(queue)' = Queued(queue') /\ Distinct(queue)' = Distinct(queue')
  BY InTransitIs DEF DrainInv, InTransit, Queued, Distinct
<1>1. CASE UNCHANGED <<toSpawn, running, handled, sending, hand, queue>>
  BY <1>0, <1>1, NothingMoves DEF OnePlace
<1>2. CASE BeginSync
  <2>1. /\ running = {} /\ sending = {} /\ handled = {} /\ queue = <<>>
        /\ hand = {}
    BY <1>0, <1>2 DEF BeginSync, Places
  <2>2. UNCHANGED <<running, sending, handled, queue, hand>>
    BY <1>2 DEF BeginSync, polled
  <2>. QED
    BY <1>0, <2>1, <2>2, EmptyQueued DEF OnePlace
<1>3. CASE \E r \in toSpawn : SpawnTask(r)
  <2>1. PICK r \in toSpawn : SpawnTask(r)
    BY <1>3
  <2>2. /\ toSpawn' = toSpawn \ {r} /\ running' = running \cup {r}
        /\ UNCHANGED <<handled, sending, hand, queue>>
    BY <2>1 DEF SpawnTask, loopVars
  <2>3. InTransit' = InTransit
    BY <2>2, NothingMoves
  <2>. QED
    BY <1>0, <2>2, <2>3 DEF OnePlace
<1>4. CASE \E r \in running : SeesShutdown(r)
  <2>1. PICK r \in running : SeesShutdown(r)
    BY <1>4
  <2>2. /\ running' = running \ {r}
        /\ UNCHANGED <<toSpawn, handled, sending, hand, queue>>
    BY <2>1 DEF SeesShutdown, loopVars, polled
  <2>3. InTransit' = InTransit
    BY <2>2, NothingMoves
  <2>. QED
    BY <1>0, <2>2, <2>3 DEF OnePlace
<1>5. CASE \E r \in running, ok \in BOOLEAN : Download(r, ok)
  <2>1. PICK r \in running, ok \in BOOLEAN : Download(r, ok)
    BY <1>5
  <2>. DEFINE m == <<r, ok>>
  <2>2. /\ running' = running \ {r} /\ sending' = sending \cup {m}
        /\ UNCHANGED <<toSpawn, handled, hand, queue>>
    BY <2>1 DEF Download, loopVars, polled
  <2>3. m[1] = r
    OBVIOUS
  <2>. HIDE DEF m
  <2>4. \A n \in InTransit : n[1] # m[1]
    BY <1>0, <2>3 DEF OnePlace
  <2>5. InTransit' = InTransit \cup {m} /\ m \notin InTransit
    BY <1>0, <2>2, <2>4
  <2>6. r \notin toSpawn /\ r \notin handled
    BY <1>0 DEF OnePlace
  <2>7. \A n \in InTransit' :
          n[1] \notin toSpawn' /\ n[1] \notin running' /\ n[1] \notin handled'
    BY <1>0, <2>2, <2>3, <2>5, <2>6 DEF OnePlace
  <2>8. \A n, k \in InTransit' : n[1] = k[1] => n = k
    BY <1>0, <2>4, <2>5 DEF OnePlace
  <2>. QED
    BY <1>0, <2>2, <2>5, <2>7, <2>8 DEF OnePlace
<1>6. CASE \E m \in sending : Send(m)
  <2>1. PICK m \in sending : Send(m)
    BY <1>6
  <2>2. /\ sending' = sending \ {m} /\ queue' = Append(queue, m)
        /\ UNCHANGED <<toSpawn, running, handled, hand>>
    BY <2>1 DEF Send, loopVars
  <2>3. m \in Message /\ queue \in Seq(Message) /\ m \notin Queued(queue)
    BY <1>0 DEF DrainTypeOK, OnePlace
  <2>4. Queued(queue') = Queued(queue) \cup {m} /\ Distinct(queue')
    BY <1>0, <2>2, <2>3, AppendQueued DEF OnePlace
  <2>5. InTransit' = InTransit
    BY <1>0, <2>2, <2>4
  <2>. QED
    BY <1>0, <2>2, <2>4, <2>5 DEF OnePlace
<1>7. CASE (PollChannel \/ Drain) /\ Take
  <2>1. hand = {} /\ UNCHANGED <<toSpawn, running, handled, sending>>
    BY <1>0, <1>7 DEF PollChannel, Drain, Places, taskVars
  <2>2. /\ hand' \cup Queued(queue') = Queued(queue)
        /\ Distinct(queue') /\ hand' \cap Queued(queue') = {}
    BY <1>0, <1>7, <2>1, TakeIs
  <2>3. InTransit' = InTransit
    BY <1>0, <2>1, <2>2
  <2>4. sending' \cap hand' = {} /\ sending' \cap Queued(queue') = {}
    BY <1>0, <2>1, <2>2 DEF OnePlace
  <2>. QED
    BY <1>0, <2>1, <2>2, <2>3, <2>4 DEF OnePlace
<1>8. CASE \E m \in hand : Handle(m[1], m[2])
  <2>1. PICK m \in hand : Handle(m[1], m[2])
    BY <1>8
  <2>2. hand = {m} /\ hand' = {} /\ UNCHANGED <<toSpawn, sending, queue>>
    BY <1>0, <2>1 DEF Handle, Places
  <2>3. /\ running' \in {running, running \cup {m[1]}}
        /\ handled' \in {handled, handled \cup {m[1]}}
        /\ running' = running \/ handled' = handled
    BY <2>1 DEF Handle
  <2>4. InTransit' = InTransit \ {m}
    BY <1>0, <2>2 DEF OnePlace
  <2>5. /\ m \in InTransit /\ m[1] \notin toSpawn
        /\ m[1] \notin running /\ m[1] \notin handled
    BY <1>0 DEF OnePlace
  <2>6. \A n \in InTransit' : n[1] # m[1]
    BY <1>0, <2>4, <2>5 DEF OnePlace
  <2>7. \A n \in InTransit' :
          n[1] \notin toSpawn' /\ n[1] \notin running' /\ n[1] \notin handled'
    BY <1>0, <2>2, <2>3, <2>4, <2>6 DEF OnePlace
  <2>8. /\ toSpawn' \cap running' = {} /\ toSpawn' \cap handled' = {}
        /\ running' \cap handled' = {}
    BY <1>0, <2>2, <2>3, <2>5 DEF OnePlace
  <2>. QED
    BY <1>0, <2>2, <2>4, <2>7, <2>8 DEF OnePlace
<1>9. ASSUME \/ Signal \/ StopRequested \/ EndSpawn \/ Write \/ Check
             \/ LoadCounter \/ RegisterWaker \/ Unpark \/ WakeCounter
             \/ Decrement
      PROVE  UNCHANGED <<toSpawn, running, handled, sending, hand, queue>>
  BY <1>9 DEF Signal, StopRequested, EndSpawn, Write, Check, LoadCounter,
     RegisterWaker, Unpark, WakeCounter, Decrement, taskVars, polled, loopVars
<1>10. ASSUME PollChannel \/ Drain, ~Take
       PROVE  UNCHANGED <<toSpawn, running, handled, sending, hand, queue>>
  BY <1>10 DEF PollChannel, Drain, taskVars
<1>. QED
  BY <1>1, <1>2, <1>3, <1>4, <1>5, <1>6, <1>7, <1>8, <1>9, <1>10
  DEF DrainNext, TaskSteps, FetcherSteps

(* Every interval is asked for, handled, or given up by an interrupted     *)
(* fetcher.                                                                *)
LEMMA AccountedStep ==
  ASSUME DrainInv, DrainNext
  PROVE  Accounted'
<1>0. /\ Accounted /\ OnePlace /\ DrainTypeOK /\ Places
      /\ InTransit = sending \cup hand \cup Queued(queue)
      /\ InTransit' = sending' \cup hand' \cup Queued(queue')
      /\ Awaited = toSpawn \cup running \cup Froms(InTransit)
      /\ Awaited' = toSpawn' \cup running' \cup Froms(InTransit')
  BY InTransitIs DEF DrainInv, InTransit, Queued, Awaited, Froms
<1>1. /\ \A A, B : Froms(A \cup B) = Froms(A) \cup Froms(B)
      /\ \A m : Froms({m}) = {m[1]}
      /\ Froms({}) = {}
  BY DEF Froms
<1>2. ASSUME fpc # "top", fpc' # "top", interruptFlag' = interruptFlag,
             Awaited' \cup handled' = Awaited \cup handled
      PROVE  Accounted'
  BY <1>0, <1>2 DEF Accounted
<1>3. ASSUME interruptFlag' PROVE Accounted'
  BY <1>3 DEF Accounted
<1>4. ASSUME UNCHANGED <<fpc, interruptFlag>>,
             Awaited' \cup handled' = Awaited \cup handled
      PROVE  Accounted'
  BY <1>0, <1>4 DEF Accounted
<1>5. CASE StopRequested \/ \E r \in running : SeesShutdown(r)
  BY <1>3, <1>5 DEF StopRequested, SeesShutdown
<1>6. CASE BeginSync
  <2>1. /\ toSpawn' = Ranges /\ running' = {} /\ sending' = {}
        /\ handled' = {} /\ hand' = {} /\ queue' = <<>>
    BY <1>0, <1>6 DEF BeginSync, polled, Places
  <2>2. Awaited' \cup handled' = Ranges
    BY <1>0, <1>1, <2>1, EmptyQueued
  <2>. QED
    BY <2>2 DEF Accounted
<1>7. CASE Signal \/ WakeCounter \/ Decrement
  <2>1. UNCHANGED <<fpc, interruptFlag, toSpawn, running, sending, queue,
                    hand, handled>>
    BY <1>7 DEF Signal, WakeCounter, Decrement, signals, taskVars, polled,
       loopVars
  <2>2. InTransit' = InTransit
    BY <2>1, NothingMoves
  <2>. QED
    BY <1>0, <1>4, <2>1, <2>2
<1>8. CASE EndSpawn \/ Write \/ Check \/ LoadCounter \/ RegisterWaker \/ Unpark
  <2>1. UNCHANGED <<interruptFlag, toSpawn, running, sending, queue, hand,
                    handled>>
    BY <1>8 DEF EndSpawn, Write, Check, LoadCounter, RegisterWaker, Unpark,
       signals, taskVars, polled
  <2>2. fpc # "top" /\ fpc' # "top"
    BY <1>8 DEF EndSpawn, Write, Check, LoadCounter, RegisterWaker, Unpark
  <2>3. InTransit' = InTransit
    BY <2>1, NothingMoves
  <2>. QED
    BY <1>0, <1>2, <2>1, <2>2, <2>3
<1>9. CASE \E r \in toSpawn : SpawnTask(r)
  <2>1. PICK r \in toSpawn : SpawnTask(r)
    BY <1>9
  <2>2. /\ toSpawn' = toSpawn \ {r} /\ running' = running \cup {r}
        /\ UNCHANGED <<fpc, interruptFlag, handled, sending, hand, queue>>
    BY <2>1 DEF SpawnTask, loopVars, signals
  <2>3. InTransit' = InTransit
    BY <2>2, NothingMoves
  <2>. QED
    BY <1>0, <1>4, <2>2, <2>3
<1>10. CASE \E r \in running, ok \in BOOLEAN : Download(r, ok)
  <2>1. PICK r \in running, ok \in BOOLEAN : Download(r, ok)
    BY <1>10
  <2>. DEFINE m == <<r, ok>>
  <2>2. /\ running' = running \ {r} /\ sending' = sending \cup {m}
        /\ UNCHANGED <<fpc, interruptFlag, toSpawn, handled, hand, queue>>
    BY <2>1 DEF Download, loopVars, polled, signals
  <2>3. m[1] = r
    OBVIOUS
  <2>. HIDE DEF m
  <2>4. InTransit' = InTransit \cup {m}
    BY <1>0, <2>2
  <2>5. Froms(InTransit') = Froms(InTransit) \cup {r}
    <3>1. Froms(InTransit \cup {m}) = Froms(InTransit) \cup Froms({m})
      BY <1>1
    <3>. QED
      BY <1>1, <2>3, <2>4, <3>1
  <2>. QED
    BY <1>0, <1>4, <2>2, <2>5
<1>11. CASE \E m \in sending : Send(m)
  <2>1. PICK m \in sending : Send(m)
    BY <1>11
  <2>2. /\ sending' = sending \ {m} /\ queue' = Append(queue, m)
        /\ UNCHANGED <<fpc, interruptFlag, toSpawn, running, handled, hand>>
    BY <2>1 DEF Send, loopVars, signals
  <2>3. Queued(queue') = Queued(queue) \cup {m}
    BY <1>0, <2>2, AppendQueued DEF DrainTypeOK
  <2>4. InTransit' = InTransit
    BY <1>0, <2>2, <2>3
  <2>. QED
    BY <1>0, <1>4, <2>2, <2>4
<1>12. CASE (PollChannel \/ Drain) /\ Take
  <2>1. /\ hand = {} /\ fpc # "top" /\ fpc' # "top"
        /\ UNCHANGED <<interruptFlag, toSpawn, running, handled, sending>>
    BY <1>0, <1>12 DEF PollChannel, Drain, Take, Places, taskVars, signals
  <2>2. hand' \cup Queued(queue') = Queued(queue)
    BY <1>0, <1>12, <2>1, TakeIs
  <2>3. InTransit' = InTransit
    BY <1>0, <2>1, <2>2
  <2>. QED
    BY <1>0, <1>2, <2>1, <2>3
<1>13. CASE (PollChannel \/ Drain) /\ ~Take
  <2>1. /\ fpc # "top" /\ fpc' # "top"
        /\ UNCHANGED <<toSpawn, running, handled, sending, hand, queue>>
    BY <1>13 DEF PollChannel, Drain, taskVars
  <2>2. InTransit' = InTransit
    BY <2>1, NothingMoves
  <2>3. interruptFlag => interruptFlag'
    BY <1>13 DEF PollChannel, Drain, signals
  <2>. QED
    BY <1>0, <2>1, <2>2, <2>3 DEF Accounted
<1>14. CASE \E m \in hand : Handle(m[1], m[2])
  <2>1. PICK m \in hand : Handle(m[1], m[2])
    BY <1>14
  <2>2. /\ hand = {m} /\ hand' = {} /\ UNCHANGED <<toSpawn, sending, queue>>
        /\ fpc # "top" /\ fpc' # "top"
    BY <1>0, <2>1 DEF Handle, Places
  <2>3. CASE m[2] \/ ~shutdownSignal
    <3>1. \/ handled' = handled \cup {m[1]} /\ running' = running
          \/ handled' = handled /\ running' = running \cup {m[1]}
      BY <2>1, <2>3 DEF Handle
    <3>2. InTransit = InTransit' \cup {m}
      BY <1>0, <2>2
    <3>3. Froms(InTransit) = Froms(InTransit') \cup {m[1]}
      <4>1. Froms(InTransit' \cup {m}) = Froms(InTransit') \cup Froms({m})
        BY <1>1
      <4>. QED
        BY <1>1, <3>2, <4>1
    <3>4. Awaited' \cup handled' = Awaited \cup handled
      BY <1>0, <2>2, <3>1, <3>3
    <3>5. interruptFlag => interruptFlag'
      BY Zenon, <2>1 DEF Handle
    <3>. QED
      BY <1>0, <2>2, <3>4, <3>5 DEF Accounted
  <2>4. CASE shutdownSignal
    BY Zenon, <1>3, <2>1, <2>4 DEF Handle
  <2>. QED
    BY <2>3, <2>4
<1>. QED
  BY <1>5, <1>6, <1>7, <1>8, <1>9, <1>10, <1>11, <1>12, <1>13, <1>14
  DEF DrainNext, TaskSteps, FetcherSteps

-----------------------------------------------------------------------------
(* The invariant holds at first.                                           *)
LEMMA InitDrainInv ==
  ASSUME DrainInit
  PROVE  DrainInv
<1>. USE DEF DrainInit
<1>1. InTransit = {}
  BY DEF InTransit
<1>2. DrainTypeOK
  <2>1. queue \in Seq(Message) /\ Len(queue) = 0
    BY EmptySeq
  <2>2. Len(queue) <= Capacity /\ 0 \in 0..MaxErrors
    BY <2>1, DrainAssumption
  <2>. QED
    BY <2>1, <2>2 DEF DrainTypeOK
<1>3. Counted
  BY FS_EmptySet DEF Counted
<1>4. OnePlace
  BY <1>1, EmptyQueued DEF OnePlace
<1>5. Places /\ Drained /\ FlagFollows /\ Accounted /\ Listens
  BY DEF Places, Drained, FlagFollows, Accounted, Listens
<1>. QED
  BY <1>2, <1>3, <1>4, <1>5 DEF DrainInv

(* Nothing changes when nothing happens.                                   *)
LEMMA StutterDrainInv ==
  ASSUME DrainInv, UNCHANGED drainVars
  PROVE  DrainInv'
<1>. USE DEF drainVars, signals, taskVars, polled, loopVars, DrainInv
<1>1. InTransit' = InTransit
  BY NothingMoves
<1>2. DrainTypeOK' /\ Counted' /\ Places' /\ Drained' /\ FlagFollows' /\ Listens'
  BY DEF DrainTypeOK, Counted, Places, Drained, FlagFollows, Listens
<1>3. OnePlace'
  BY <1>1 DEF OnePlace
<1>4. Accounted'
  BY <1>1 DEF Accounted, Awaited
<1>. QED
  BY <1>2, <1>3, <1>4

(* The invariant of one sync.                                              *)
LEMMA DrainInvariance == DrainSpec => []DrainInv
<1>1. DrainInit => DrainInv
  BY InitDrainInv
<1>2. DrainInv /\ [DrainNext]_drainVars => DrainInv'
  BY TypeStep, CountedStep, OnePlaceStep, PlacesStep, DrainedStep,
     AccountedStep, ListensStep, StutterDrainInv DEF DrainInv
<1>. QED
  BY <1>1, <1>2, PTL DEF DrainSpec

(* The types of the variables, and the bound of the channel: a task sends  *)
(* only when there is room (fetch.rs:163, fetch.rs:335).                   *)
THEOREM DrainTypeCorrect == DrainSpec => []DrainTypeOK
<1>1. DrainInv => DrainTypeOK
  BY DEF DrainInv
<1>. QED
  BY <1>1, DrainInvariance, PTL

(* The counter is zero only when no task can still send a message: a task  *)
(* is counted before it is spawned and until it has sent (fetch.rs:34,     *)
(* utils.rs:54-68).                                                        *)
THEOREM ZeroIsQuiet == DrainSpec => []ZeroMeansQuiet
<1>1. DrainInv => ZeroMeansQuiet
  BY NothingCounted DEF DrainInv, ZeroMeansQuiet
<1>. QED
  BY <1>1, DrainInvariance, PTL

(* A sync that ends leaves nothing, unless it is interrupted: a zero read  *)
(* after the channel was found empty says that all there is to come is in  *)
(* the channel, which is then emptied (fetch.rs:50-61).                    *)
LEMMA EndIsDrained ==
  ASSUME DrainInv, fpc = "drain" \/ (fpc = "done" /\ ~interruptFlag),
         queue = <<>>
  PROVE  Awaited = {}
<1>1. running = {} /\ sending = {}
  BY NothingCounted DEF DrainInv, Drained
<1>2. toSpawn = {} /\ hand = {}
  BY DEF DrainInv, Places
<1>. QED
  BY <1>1, <1>2 DEF Awaited, InTransit

(* The sync ends only when every interval has been handled and nothing is  *)
(* left in the channel, unless the fetcher is interrupted                  *)
(* (fetch.rs:50-61).                                                       *)
THEOREM SyncEndsDrained == DrainSpec => []EndsDrained
<1>1. ASSUME DrainInv, fpc = "done", ~interruptFlag
      PROVE  handled = Ranges /\ Awaited = {}
  <2>1. queue = <<>>
    BY <1>1 DEF DrainInv, Drained
  <2>2. Awaited = {}
    BY <1>1, <2>1, EndIsDrained
  <2>. QED
    BY <1>1, <2>2 DEF DrainInv, Accounted
<1>2. DrainInv => EndsDrained
  BY <1>1 DEF EndsDrained
<1>. QED
  BY <1>2, DrainInvariance, PTL

(* The fetcher does not sleep over a message, nor over the end of the last *)
(* task but for a wake between the load of the counter and the             *)
(* registration of the waker (utils.rs:70-81).                             *)
THEOREM SleepIsSound == DrainSpec => []SleepsSoundly
<1>1. DrainInv => SleepsSoundly
  BY DEF DrainInv, Listens, SleepsSoundly
<1>. QED
  BY <1>1, DrainInvariance, PTL

-----------------------------------------------------------------------------
(* The refinement.                                                         *)
Fetches == IF fpc = "done" THEN {} ELSE Awaited
SyncedTo == IF handled = {} THEN 1 ELSE First(Fetched) - 1

(* The two instances of Heights are one.                                   *)
LEMMA SameFirst == \A S : F!First(S) = First(S)
  BY DEF First, F!First, Lowest, F!Lowest, After, F!After

(* Before the first message nothing is fetched.                            *)
LEMMA NothingFetched == handled = {} => Fetched = {} /\ First(Fetched) = 1
  BY DEF Fetched, First

(* A step that Fetcher does not see.                                       *)
LEMMA Stutters ==
  ASSUME UNCHANGED <<shutdownSignal, interruptFlag, handled>>,
         Fetches' = Fetches, FetcherPc' = FetcherPc
  PROVE  UNCHANGED F!vars
<1>1. Fetched' = Fetched
  BY DEF Fetched
<1>. QED
  BY <1>1 DEF F!vars, F!memory, F!disk, F!bounds, Fetches

(* The first state is one of Fetcher.                                      *)
LEMMA DrainInitImplements ==
  ASSUME DrainInit
  PROVE  F!Init
<1>1. Fetched = {} /\ Fetches = {} /\ FetcherPc = "top"
  BY DEF DrainInit, Fetched, Fetches, Awaited, InTransit, FetcherPc
<1>2. Tip \in 1..Tip
  BY DrainAssumption
<1>. QED
  BY <1>1, <1>2 DEF DrainInit, F!Init, F!Blocks, Fetches

(* What Fetcher sees awaited moves as the tasks do.                        *)
LEMMA AwaitedIs ==
  /\ Awaited = toSpawn \cup running \cup Froms(InTransit)
  /\ Awaited' = toSpawn' \cup running' \cup Froms(InTransit')
  /\ InTransit = sending \cup hand \cup Queued(queue)
  /\ InTransit' = sending' \cup hand' \cup Queued(queue')
  BY DEF Awaited, Froms, InTransit, Queued

(* Intervals of two sets of messages.                                      *)
LEMMA FromsOfUnion ==
  /\ \A A, B : Froms(A \cup B) = Froms(A) \cup Froms(B)
  /\ \A m : Froms({m}) = {m[1]}
  BY DEF Froms

(* Steps of the tasks, of the polls and of the channel that move an        *)
(* interval from one place to another.                                     *)
LEMMA MovesStutter ==
  ASSUME DrainInv,
         \/ \E r \in toSpawn : SpawnTask(r)
         \/ \E r \in running, ok \in BOOLEAN : Download(r, ok)
         \/ \E m \in sending : Send(m)
         \/ (PollChannel \/ Drain) /\ Take
  PROVE  UNCHANGED F!vars
<1>0. /\ OnePlace /\ DrainTypeOK /\ Places /\ Drained
      /\ InTransit = sending \cup hand \cup Queued(queue)
      /\ InTransit' = sending' \cup hand' \cup Queued(queue')
      /\ Awaited = toSpawn \cup running \cup Froms(InTransit)
      /\ Awaited' = toSpawn' \cup running' \cup Froms(InTransit')
  BY AwaitedIs DEF DrainInv
<1>1. ASSUME UNCHANGED <<fpc, interruptFlag, shutdownSignal, handled>>,
             Awaited' = Awaited
      PROVE  UNCHANGED F!vars
  BY <1>1, Stutters DEF Fetches, FetcherPc
<1>2. CASE \E r \in toSpawn : SpawnTask(r)
  <2>1. PICK r \in toSpawn : SpawnTask(r)
    BY <1>2
  <2>2. /\ toSpawn' = toSpawn \ {r} /\ running' = running \cup {r}
        /\ UNCHANGED <<fpc, signals, handled, sending, hand, queue>>
    BY <2>1 DEF SpawnTask, loopVars
  <2>3. InTransit' = InTransit
    BY <2>2, NothingMoves
  <2>. QED
    BY <1>0, <1>1, <2>2, <2>3 DEF signals
<1>3. CASE \E r \in running, ok \in BOOLEAN : Download(r, ok)
  <2>1. PICK r \in running, ok \in BOOLEAN : Download(r, ok)
    BY <1>3
  <2>. DEFINE m == <<r, ok>>
  <2>2. /\ running' = running \ {r} /\ sending' = sending \cup {m}
        /\ UNCHANGED <<fpc, signals, toSpawn, handled, hand, queue>>
    BY <2>1 DEF Download, loopVars, polled
  <2>3. m[1] = r
    OBVIOUS
  <2>. HIDE DEF m
  <2>4. InTransit' = InTransit \cup {m}
    BY <1>0, <2>2
  <2>5. Froms(InTransit \cup {m}) = Froms(InTransit) \cup {r}
    <3>1. Froms(InTransit \cup {m}) = Froms(InTransit) \cup Froms({m})
      BY FromsOfUnion
    <3>2. Froms({m}) = {m[1]}
      BY FromsOfUnion
    <3>. QED
      BY <2>3, <3>1, <3>2
  <2>. QED
    BY <1>0, <1>1, <2>2, <2>4, <2>5 DEF signals
<1>4. CASE \E m \in sending : Send(m)
  <2>1. PICK m \in sending : Send(m)
    BY <1>4
  <2>2. /\ sending' = sending \ {m} /\ queue' = Append(queue, m)
        /\ UNCHANGED <<fpc, signals, toSpawn, running, handled, hand>>
    BY <2>1 DEF Send, loopVars
  <2>3. Queued(queue') = Queued(queue) \cup {m}
    BY <1>0, <2>2, AppendQueued DEF DrainTypeOK
  <2>4. InTransit' = InTransit
    BY <1>0, <2>2, <2>3
  <2>. QED
    BY <1>0, <1>1, <2>2, <2>4 DEF signals
<1>5. CASE (PollChannel \/ Drain) /\ Take
  <2>1. /\ hand = {} /\ fpc \in {"poll", "drain"} /\ fpc' = "handle"
        /\ UNCHANGED <<signals, toSpawn, running, handled, sending>>
    BY <1>0, <1>5 DEF PollChannel, Drain, Take, Places, taskVars, signals
  <2>2. hand' \cup Queued(queue') = Queued(queue)
    BY <1>0, <1>5, <2>1, TakeIs
  <2>3. Awaited' = Awaited
    BY <1>0, <2>1, <2>2
  <2>4. FetcherPc' = FetcherPc
    BY <2>1 DEF FetcherPc
  <2>. QED
    BY <2>1, <2>3, <2>4, Stutters DEF Fetches, signals
<1>. QED
  BY <1>2, <1>3, <1>4, <1>5

(* Steps of the counter, of its waker and of the fetcher's own way to the  *)
(* next message.                                                           *)
LEMMA RestStutters ==
  ASSUME DrainInv,
         \/ Decrement \/ WakeCounter \/ EndSpawn
         \/ PollChannel /\ ~Take
         \/ LoadCounter \/ RegisterWaker \/ Unpark
  PROVE  UNCHANGED F!vars
<1>1. /\ UNCHANGED <<signals, toSpawn, running, sending, hand, handled>>
      /\ UNCHANGED queue
  BY DEF Decrement, WakeCounter, EndSpawn, PollChannel, LoadCounter,
     RegisterWaker, Unpark, taskVars, polled, loopVars
<1>2. InTransit' = InTransit
  BY <1>1, NothingMoves
<1>3. Awaited' = Awaited
  BY <1>1, <1>2 DEF Awaited
<1>4. \/ fpc' = fpc
      \/ fpc = "spawn" /\ fpc' = "check"
      \/ /\ fpc \in {"poll", "load", "register", "parked"}
         /\ fpc' \in {"poll", "load", "drain", "register", "parked"}
  BY DEF Decrement, WakeCounter, EndSpawn, PollChannel, LoadCounter,
     RegisterWaker, Unpark, loopVars
<1>5. FetcherPc' = FetcherPc
  BY <1>1, <1>4 DEF FetcherPc, signals
<1>6. Fetches' = Fetches
  BY <1>3, <1>4 DEF Fetches
<1>. QED
  BY <1>1, <1>5, <1>6, Stutters DEF signals

(* A task that sees the signal is one of Fetcher's, unless the sync is     *)
(* over, when Fetcher has forgotten it.                                    *)
LEMMA SeesShutdownImplements ==
  ASSUME DrainInv, NEW r \in running, SeesShutdown(r)
  PROVE  [F!Next]_(F!vars)
<1>0. /\ OnePlace /\ DrainTypeOK /\ Places /\ Drained /\ Counted
      /\ Awaited = toSpawn \cup running \cup Froms(InTransit)
      /\ Awaited' = toSpawn' \cup running' \cup Froms(InTransit')
  BY AwaitedIs DEF DrainInv
<1>1. /\ running' = running \ {r} /\ interruptFlag' = TRUE /\ shutdownSignal
      /\ UNCHANGED <<shutdownSignal, toSpawn, sending, queue, fpc, hand, handled>>
  BY DEF SeesShutdown, polled, loopVars
<1>2. InTransit' = InTransit
  BY <1>1, NothingMoves
<1>3. fpc # "top"
  BY <1>0 DEF Places
<1>4. CASE fpc = "done"
  <2>1. interruptFlag = TRUE
    BY <1>0, <1>4, NothingCounted DEF Drained, DrainTypeOK
  <2>2. Fetches' = Fetches /\ FetcherPc' = FetcherPc
    BY <1>1, <1>4, <2>1 DEF Fetches, FetcherPc
  <2>. QED
    BY <1>1, <2>1, <2>2, Stutters
<1>5. CASE fpc # "done"
  <2>1. r \notin toSpawn /\ r \notin Froms(InTransit)
    BY <1>0 DEF OnePlace, Froms
  <2>2. Fetches' = Fetches \ {r} /\ r \in Fetches
    BY <1>0, <1>1, <1>2, <1>5, <2>1 DEF Fetches
  <2>3. FetcherPc' = FetcherPc
    BY <1>1, <1>5 DEF FetcherPc
  <2>4. Fetched' = Fetched /\ SyncedTo' = SyncedTo
    BY <1>1 DEF Fetched, SyncedTo
  <2>5. F!TaskSeesShutdown(r)
    BY <1>1, <2>2, <2>3, <2>4 DEF F!TaskSeesShutdown, F!disk, F!bounds,
       Fetches, SyncedTo
  <2>. QED
    BY <2>2, <2>5 DEF F!Next, F!Tasks, Fetches
<1>. QED
  BY <1>4, <1>5

(* The signal, and the start and the end of a turn of the fetcher.         *)
LEMMA TurnImplements ==
  ASSUME DrainInv, Signal \/ StopRequested \/ BeginSync \/ Check \/ Write
  PROVE  F!Next
<1>0. DrainTypeOK /\ Places /\ OnePlace
  BY DEF DrainInv
<1>1. UNCHANGED <<running, sending, queue, hand, handled>>
  BY DEF Signal, StopRequested, BeginSync, Check, Write, taskVars, polled,
     loopVars
<1>2. InTransit' = InTransit /\ Fetched' = Fetched /\ SyncedTo' = SyncedTo
  BY <1>1, NothingMoves DEF Fetched, SyncedTo
<1>. USE DEF F!Next, F!Steps, F!disk, F!bounds, F!memory
<1>3. CASE Signal
  <2>1. UNCHANGED <<fpc, toSpawn, interruptFlag>>
    BY <1>3 DEF Signal, taskVars, loopVars
  <2>2. Fetches' = Fetches /\ FetcherPc' = FetcherPc
    BY <1>1, <1>2, <2>1 DEF Fetches, Awaited, FetcherPc
  <2>3. FetcherPc # "stopped"
    BY DEF FetcherPc
  <2>4. F!Signal
    BY <1>2, <1>3, <2>1, <2>2, <2>3 DEF F!Signal, Signal, Fetches, SyncedTo
  <2>. QED
    BY <2>4 DEF F!Environment
<1>4. CASE StopRequested
  <2>1. fpc = "top" /\ fpc' = "done" /\ interruptFlag' /\ shutdownSignal
    BY <1>4 DEF StopRequested
  <2>2. Awaited = {}
    BY <1>0, <2>1 DEF Awaited, InTransit, Places
  <2>3. Fetches' = {} /\ Fetches = {} /\ FetcherPc = "top" /\ FetcherPc' = "save"
    BY <2>1, <2>2 DEF Fetches, FetcherPc
  <2>4. F!StopRequested
    BY <1>2, <1>4, <2>1, <2>3 DEF F!StopRequested, F!StopNow, F!CheckExit,
       StopRequested, Fetches, SyncedTo
  <2>. QED
    BY <2>4
<1>5. CASE BeginSync
  <2>1. /\ fpc = "top" /\ fpc' = "spawn" /\ ~shutdownSignal
        /\ toSpawn' = Ranges /\ UNCHANGED signals
    BY <1>5 DEF BeginSync
  <2>2. InTransit = {} /\ running = {} /\ handled = {}
    BY <1>0, <2>1 DEF InTransit, Places
  <2>3. Fetches' = Ranges
    BY <1>1, <1>2, <2>1, <2>2 DEF Fetches, Awaited
  <2>4. Fetched = {} /\ ~(F!First(Fetched) > Tip)
    BY <2>2, NothingFetched, SameFirst, DrainAssumption
  <2>5. FetcherPc = "top" /\ FetcherPc' = "loop"
    BY <2>1 DEF FetcherPc
  <2>6. F!SpawnFetches
    BY <1>2, <2>1, <2>3, <2>4, <2>5 DEF F!SpawnFetches, F!StopNow, F!Synced,
       Ranges, Fetches, SyncedTo, signals
  <2>. QED
    BY <2>6
<1>6. CASE Check
  <2>1. /\ fpc = "check" /\ UNCHANGED <<signals, toSpawn>>
        /\ fpc' = IF interruptFlag THEN "done" ELSE "poll"
    BY <1>6 DEF Check, taskVars
  <2>2. FetcherPc = "loop" /\ Fetches = Awaited
    BY <2>1 DEF FetcherPc, Fetches
  <2>3. CASE interruptFlag
    <3>1. Fetches' = {} /\ FetcherPc' = "save"
      BY <2>1, <2>3 DEF Fetches, FetcherPc, signals
    <3>2. interruptFlag' = (interruptFlag \/ shutdownSignal)
      BY <1>0, <2>1, <2>3 DEF signals, DrainTypeOK
    <3>3. F!Wait
      BY <1>2, <2>1, <2>2, <2>3, <3>1, <3>2 DEF F!Wait, F!CheckExit, Fetches,
         SyncedTo, signals
    <3>. QED
      BY <3>3
  <2>4. CASE ~interruptFlag
    <3>1. FetcherPc' = "receive"
      BY <2>1, <2>4 DEF FetcherPc
    <3>2. Fetches' = Fetches
      BY <1>1, <1>2, <2>1, <2>4 DEF Fetches, Awaited
    <3>3. F!Wait
      BY <1>2, <2>1, <2>2, <2>4, <3>1, <3>2 DEF F!Wait, Fetches, SyncedTo,
         signals
    <3>. QED
      BY <3>3
  <2>. QED
    BY <2>3, <2>4
<1>7. CASE Write
  <2>1. fpc = "write" /\ fpc' = "check" /\ UNCHANGED <<signals, toSpawn>>
    BY <1>7 DEF Write, taskVars
  <2>2. FetcherPc = "extend" /\ FetcherPc' = "loop" /\ Fetches' = Fetches
    BY <1>1, <1>2, <2>1 DEF FetcherPc, Fetches, Awaited
  <2>3. ~(F!Cardinality({} \cup {}) >= 1)
    <3>1. F!Cardinality({}) = Cardinality({})
      BY DEF F!Cardinality, Cardinality
    <3>2. {} \cup {} = {}
      OBVIOUS
    <3>. QED
      BY <3>1, <3>2, FS_EmptySet
  <2>4. F!ExtendWal
    BY <1>2, <2>1, <2>2, <2>3 DEF F!ExtendWal, Fetches, SyncedTo, signals
  <2>. QED
    BY <2>4
<1>. QED
  BY <1>3, <1>4, <1>5, <1>6, <1>7

(* The end of a sync.                                                      *)
LEMMA DrainEndImplements ==
  ASSUME DrainInv, Drain, ~Take
  PROVE  F!EndReceive
<1>1. /\ fpc = "drain" /\ fpc' = "done" /\ queue = <<>>
      /\ interruptFlag' = (interruptFlag \/ shutdownSignal)
      /\ UNCHANGED <<shutdownSignal, handled>>
  BY DEF Drain
<1>2. Awaited = {}
  BY <1>1, EndIsDrained
<1>3. Fetches = {} /\ Fetches' = {}
  BY <1>1, <1>2 DEF Fetches
<1>4. interruptFlag' = shutdownSignal
  BY <1>1 DEF DrainInv, FlagFollows, DrainTypeOK
<1>5. FetcherPc = "receive" /\ FetcherPc' = IF shutdownSignal THEN "save" ELSE "sleep"
  BY <1>1, <1>4 DEF FetcherPc
<1>6. Fetched' = Fetched /\ SyncedTo' = SyncedTo
  BY <1>1 DEF Fetched, SyncedTo
<1>. QED
  BY <1>1, <1>3, <1>5, <1>6 DEF F!EndReceive, F!CheckExit, F!disk, F!bounds,
     Fetches, SyncedTo

(* A message handled: what was downloaded is recorded and published, what  *)
(* failed is fetched again unless the fetcher is stopping.                 *)
LEMMA HandleImplements ==
  ASSUME DrainInv, NEW m \in hand, Handle(m[1], m[2])
  PROVE  F!Next
<1>. DEFINE r == m[1]
            ok == m[2]
<1>0. /\ OnePlace /\ DrainTypeOK /\ Places
      /\ InTransit = sending \cup hand \cup Queued(queue)
      /\ InTransit' = sending' \cup hand' \cup Queued(queue')
      /\ Awaited = toSpawn \cup running \cup Froms(InTransit)
      /\ Awaited' = toSpawn' \cup running' \cup Froms(InTransit')
  BY AwaitedIs DEF DrainInv
<1>1. /\ fpc = "handle" /\ hand = {m} /\ hand' = {}
      /\ UNCHANGED <<shutdownSignal, toSpawn, sending, queue>>
  BY <1>0 DEF Handle, Places
<1>2. interruptFlag' = (interruptFlag \/ shutdownSignal)
  BY Zenon DEF Handle
<1>3. InTransit' = InTransit \ {m} /\ m \in InTransit
  BY <1>0, <1>1 DEF OnePlace
<1>4. /\ r \notin toSpawn /\ r \notin running
      /\ r \notin Froms(InTransit')
      /\ Froms(InTransit) = Froms(InTransit') \cup {r}
  BY <1>0, <1>3 DEF OnePlace, Froms
<1>5. Fetches = Awaited /\ r \in Fetches /\ FetcherPc = "receive"
  BY <1>0, <1>1, <1>4 DEF Fetches, FetcherPc
<1>6. CASE ok
  <2>1. /\ handled' = handled \cup {r} /\ running' = running /\ fpc' = "write"
    BY <1>6 DEF Handle
  <2>2. Fetches' = Fetches \ {r}
    BY <1>0, <1>1, <1>4, <1>5, <2>1 DEF Fetches
  <2>3. Fetched' = Fetched \cup (r[1]..r[2])
    BY <2>1 DEF Fetched
  <2>4. SyncedTo' = F!First(Fetched') - 1
    BY <2>1, SameFirst DEF SyncedTo
  <2>5. FetcherPc' = "extend"
    BY <2>1 DEF FetcherPc
  <2>6. {} = F!NotesIn(r[1], r[2])
    BY DEF F!NotesIn
  <2>. HIDE DEF r
  <2>7. F!ReceiveFetched(r)
    BY <1>1, <1>2, <1>5, <2>2, <2>3, <2>4, <2>5, <2>6
    DEF F!ReceiveFetched, F!CheckExit, F!disk, F!bounds, Fetches, SyncedTo
  <2>. QED
    BY <1>5, <2>7 DEF F!Next, F!Tasks, Fetches
<1>7. CASE ~ok
  <2>1. /\ handled' = handled /\ fpc' = "check"
        /\ running' = IF shutdownSignal THEN running ELSE running \cup {r}
    BY <1>7 DEF Handle
  <2>2. Fetches' = IF shutdownSignal THEN Fetches \ {r} ELSE Fetches
    <3>1. Fetches' = Awaited'
      BY <2>1 DEF Fetches
    <3>2. Fetches = toSpawn \cup running \cup Froms(InTransit') \cup {r}
      BY <1>0, <1>4, <1>5
    <3>3. Fetches' = toSpawn \cup running' \cup Froms(InTransit')
      BY <1>0, <1>1, <3>1
    <3>4. CASE shutdownSignal
      BY <1>4, <2>1, <3>2, <3>3, <3>4
    <3>5. CASE ~shutdownSignal
      BY <2>1, <3>2, <3>3, <3>5
    <3>. QED
      BY <3>4, <3>5
  <2>3. Fetched' = Fetched /\ SyncedTo' = SyncedTo
    BY <2>1 DEF Fetched, SyncedTo
  <2>4. FetcherPc' = "loop"
    BY <2>1 DEF FetcherPc
  <2>. HIDE DEF r
  <2>5. F!ReceiveError(r)
    BY <1>1, <1>2, <1>5, <2>2, <2>3, <2>4
    DEF F!ReceiveError, F!CheckExit, F!disk, F!bounds, Fetches, SyncedTo
  <2>. QED
    BY <1>5, <2>5 DEF F!Next, F!Tasks, Fetches
<1>. QED
  BY <1>6, <1>7

(* The sync is a sync of Fetcher: the steps in which it polls the channel, *)
(* reads the counter, parks and wakes are steps in which Fetcher waits, a  *)
(* message taken is one received, and the sync ends where Fetcher's may    *)
(* (fetch.rs:43-66, fetch.rs:214-278).                                     *)
THEOREM DrainIsFetcher == DrainSpec => ImplementsFetcher
<1>1. DrainInit => F!Init
  BY DrainInitImplements
<1>2. ASSUME DrainInv, DrainNext PROVE [F!Next]_(F!vars)
  <2>1. CASE Signal \/ StopRequested \/ BeginSync \/ Check \/ Write
    BY <1>2, <2>1, TurnImplements
  <2>2. CASE \/ Decrement \/ WakeCounter \/ EndSpawn
             \/ PollChannel /\ ~Take
             \/ LoadCounter \/ RegisterWaker \/ Unpark
    BY <1>2, <2>2, RestStutters
  <2>3. CASE \/ \E r \in toSpawn : SpawnTask(r)
             \/ \E r \in running, ok \in BOOLEAN : Download(r, ok)
             \/ \E m \in sending : Send(m)
             \/ (PollChannel \/ Drain) /\ Take
    BY <1>2, <2>3, MovesStutter
  <2>4. CASE Drain /\ ~Take
    BY <1>2, <2>4, DrainEndImplements DEF F!Next, F!Steps
  <2>5. CASE \E r \in running : SeesShutdown(r)
    BY <1>2, <2>5, SeesShutdownImplements
  <2>6. CASE \E m \in hand : Handle(m[1], m[2])
    BY <1>2, <2>6, HandleImplements
  <2>. QED
    BY <1>2, <2>1, <2>2, <2>3, <2>4, <2>5, <2>6
    DEF DrainNext, TaskSteps, FetcherSteps
<1>3. ASSUME UNCHANGED drainVars PROVE UNCHANGED F!vars
  <2>1. UNCHANGED <<shutdownSignal, interruptFlag, handled, fpc, toSpawn,
                    running, sending, queue, hand>>
    BY <1>3 DEF drainVars, signals, taskVars, polled, loopVars
  <2>2. Fetches' = Fetches /\ FetcherPc' = FetcherPc
    BY <2>1, NothingMoves DEF Fetches, FetcherPc, Awaited
  <2>. QED
    BY <2>1, <2>2, Stutters
<1>4. DrainInv /\ [DrainNext]_drainVars => [F!Next]_(F!vars)
  BY <1>2, <1>3
<1>. QED
  BY <1>1, <1>4, DrainInvariance, PTL
  DEF DrainSpec, ImplementsFetcher, F!Spec
=============================================================================
