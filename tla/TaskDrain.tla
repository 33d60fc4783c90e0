----------------------------- MODULE TaskDrain -----------------------------
(***************************************************************************)
(* How the fetcher waits for its fetch tasks in one sync                   *)
(* (host/src/db/fetch.rs, sync and get_next_message; host/src/db/utils.rs, *)
(* AsyncCounter), for the first sync of a new host.  Fetcher takes a       *)
(* message, or the end of the last task, in one step: that this is right   *)
(* is the refinement at the end.  Tasks that panic are left to Fetcher.    *)
(*                                                                         *)
(* The fetcher selects over a bounded channel and a counter of the live    *)
(* tasks.  Both are polled by the fetcher and changed by the tasks, on     *)
(* other threads, so every load, store and wake is a step here.  notified  *)
(* says that the runtime will poll the fetcher again.  The counter is      *)
(* accessed with relaxed ordering; the lock of the channel orders what     *)
(* matters: who reads zero finds the messages that were sent before.       *)
(***************************************************************************)
EXTENDS Heights, Sequences, FiniteSets

CONSTANTS
  Tip,        \* the last block the indexer knows when the sync begins
  BatchSize,  \* BATCH_SIZE: the most blocks of one fetch task
  Capacity,   \* DEFAULT_BUF_SIZE: the size of the channel
  MaxErrors   \* bound on the failed downloads

ASSUME DrainAssumption ==
  /\ Tip \in Nat \ {0} /\ BatchSize \in Nat \ {0}
  /\ Capacity \in Nat \ {0}
  /\ MaxErrors \in Nat

VARIABLES
  shutdownSignal,  \* SIGINT or SIGTERM has been received
  interruptFlag,   \* Fetcher.interrupt_flag
  toSpawn,         \* the intervals whose task is still to be spawned
  running,         \* the intervals being downloaded
  sending,         \* the messages of the tasks in send_async: <<range, ok>>
  queue,           \* the channel
  count,           \* AsyncCounterInner.count
  dropping,        \* tasks that have not yet decremented the counter
  waking,          \* tasks that have brought it to zero and will wake
  waker,           \* AsyncCounterInner.waker is registered
  notified,        \* the fetcher has been woken
  fpc,             \* where the fetcher is
  hand,            \* the message it handles
  handled,         \* the intervals handled
  errors,          \* failed downloads so far
  missedWake       \* history: a wake came between the load and the register

signals   == <<shutdownSignal, interruptFlag>>
taskVars  == <<toSpawn, running, sending, dropping, waking>>
polled    == <<queue, count, waker, notified>>
loopVars  == <<fpc, hand, handled>>
drainVars == <<signals, taskVars, polled, loopVars, errors, missedWake>>

-----------------------------------------------------------------------------
(* What Fetcher sees of this: the intervals that are still to be handled,  *)
(* the blocks of those that have been, and where the fetcher is.           *)
InTransit == sending \cup hand \cup {queue[i] : i \in DOMAIN queue}
Awaited == toSpawn \cup running \cup {m[1] : m \in InTransit}
Fetched == UNION {r[1]..r[2] : r \in handled}

FetcherPc ==
  CASE fpc = "top" -> "top"
    [] fpc \in {"spawn", "check"} -> "loop"
    [] fpc = "write" -> "extend"
    [] fpc = "done" -> IF interruptFlag THEN "save" ELSE "sleep"
    [] OTHER -> "receive"

F == INSTANCE Fetcher WITH
       MaxHeight <- Tip, Notes <- {}, MaxWalSize <- 1,
       MaxRestarts <- 0, MaxFaults <- 0, Torn <- {0},
       tip <- Tip, fetched <- Fetched,
       fetches <- IF fpc = "done" THEN {} ELSE Awaited,
       syncedTo <- IF handled = {} THEN 1 ELSE First(Fetched) - 1,
       pc <- FetcherPc, wal <- {}, hand <- {},
       txs <- [n \in {} |-> 0], fetcherDat <- {}, lost <- {}, abandoned <- {},
       restarts <- 0, faults <- 0

(* One fetch task each.                                                    *)
Ranges == F!Missing({}, Tip)
Message == Ranges \X BOOLEAN

-----------------------------------------------------------------------------
DrainInit ==
  /\ shutdownSignal = FALSE /\ interruptFlag = FALSE
  /\ toSpawn = {} /\ running = {} /\ sending = {} /\ queue = <<>>
  /\ count = 0 /\ dropping = 0 /\ waking = 0
  /\ waker = FALSE /\ notified = FALSE
  /\ fpc = "top" /\ hand = {} /\ handled = {}
  /\ errors = 0 /\ missedWake = FALSE

Signal ==
  /\ ~shutdownSignal
  /\ shutdownSignal' = TRUE
  /\ UNCHANGED <<interruptFlag, taskVars, polled, loopVars, errors, missedWake>>

-----------------------------------------------------------------------------
(* run and the beginning of sync: the tasks are spawned one by one, and    *)
(* the first may end before the last is spawned.                           *)
StopRequested ==
  /\ fpc = "top" /\ shutdownSignal
  /\ interruptFlag' = TRUE
  /\ fpc' = "done"
  /\ UNCHANGED <<shutdownSignal, taskVars, polled, hand, handled, errors,
                 missedWake>>

BeginSync ==
  /\ fpc = "top" /\ ~shutdownSignal
  /\ toSpawn' = Ranges
  /\ fpc' = "spawn"
  /\ UNCHANGED <<signals, running, sending, dropping, waking, polled, hand,
                 handled, errors, missedWake>>

(* Cloning Tasks counts the task.                                          *)
SpawnTask(r) ==
  /\ fpc = "spawn" /\ r \in toSpawn
  /\ toSpawn' = toSpawn \ {r}
  /\ running' = running \cup {r}
  /\ count' = count + 1
  /\ UNCHANGED <<signals, sending, dropping, waking, queue, waker, notified,
                 loopVars, errors, missedWake>>

EndSpawn ==
  /\ fpc = "spawn" /\ toSpawn = {}
  /\ fpc' = "check"
  /\ UNCHANGED <<signals, taskVars, polled, hand, handled, errors, missedWake>>

-----------------------------------------------------------------------------
(* spawn_fetch_txs.  The download succeeds or fails.                       *)
Download(r, ok) ==
  /\ r \in running
  /\ ok \/ errors < MaxErrors
  /\ errors' = IF ok THEN errors ELSE errors + 1
  /\ running' = running \ {r}
  /\ sending' = sending \cup {<<r, ok>>}
  /\ UNCHANGED <<signals, toSpawn, dropping, waking, polled, loopVars, missedWake>>

(* The select of the task takes the shutdown signal instead.               *)
SeesShutdown(r) ==
  /\ r \in running /\ shutdownSignal
  /\ interruptFlag' = TRUE
  /\ running' = running \ {r}
  /\ dropping' = dropping + 1
  /\ UNCHANGED <<shutdownSignal, toSpawn, sending, waking, polled, loopVars, errors,
                 missedWake>>

(* Mutant: the channel has no bound.                                       *)
MutSendUnbounded(m) ==
  /\ m \in sending
  /\ queue' = Append(queue, m)
  /\ notified' = (notified \/ fpc \in {"load", "register", "parked"})
  /\ sending' = sending \ {m}
  /\ dropping' = dropping + 1
  /\ UNCHANGED <<signals, toSpawn, running, waking, count, waker, loopVars, errors,
                 missedWake>>

(* Mutant: a message does not wake a fetcher that waits for it.            *)
MutSend(m) ==
  /\ m \in sending /\ Len(queue) < Capacity
  /\ queue' = Append(queue, m)
  /\ sending' = sending \ {m}
  /\ dropping' = dropping + 1
  /\ UNCHANGED <<signals, toSpawn, running, waking, count, waker, notified, loopVars,
                 errors, missedWake>>

(* The message goes into the channel when it has room, and wakes the       *)
(* fetcher if it has polled the channel and found it empty.                *)
Send(m) ==
  /\ m \in sending /\ Len(queue) < Capacity
  /\ queue' = Append(queue, m)
  /\ notified' = (notified \/ fpc \in {"load", "register", "parked"})
  /\ sending' = sending \ {m}
  /\ dropping' = dropping + 1
  /\ UNCHANGED <<signals, toSpawn, running, waking, count, waker, loopVars, errors,
                 missedWake>>

(* Drop for AsyncCounter: the decrement, and the wake if it was the last.  *)
Decrement ==
  /\ dropping > 0
  /\ dropping' = dropping - 1
  /\ count' = count - 1
  /\ waking' = IF count = 1 THEN waking + 1 ELSE waking
  /\ UNCHANGED <<signals, toSpawn, running, sending, queue, waker, notified, loopVars,
                 errors, missedWake>>

(* Mutant: the wake does not reach a fetcher that has registered.          *)
MutWakeCounter ==
  /\ waking > 0
  /\ waking' = waking - 1
  /\ waker' = FALSE
  /\ UNCHANGED <<signals, toSpawn, running, sending, dropping, queue, count, notified,
                 loopVars, errors, missedWake>>

WakeCounter ==
  /\ waking > 0
  /\ waking' = waking - 1
  /\ waker' = FALSE
  /\ notified' = (notified \/ waker)
  /\ missedWake' = (missedWake \/ (fpc = "register" /\ ~waker))
  /\ UNCHANGED <<signals, toSpawn, running, sending, dropping, queue, count, loopVars,
                 errors>>

-----------------------------------------------------------------------------
(* get_next_message: the interrupt flag, then a poll of the channel, then  *)
(* a poll of the counter: its load, and the registration of the waker.     *)
Check ==
  /\ fpc = "check"
  /\ fpc' = IF interruptFlag THEN "done" ELSE "poll"
  /\ UNCHANGED <<signals, taskVars, polled, hand, handled, errors, missedWake>>

Take ==
  /\ queue # <<>>
  /\ hand' = {Head(queue)} /\ queue' = Tail(queue)
  /\ fpc' = "handle"

PollChannel ==
  /\ fpc = "poll"
  /\ \/ Take
     \/ queue = <<>> /\ fpc' = "load" /\ UNCHANGED <<queue, hand>>
  /\ UNCHANGED <<signals, taskVars, count, waker, notified, handled, errors,
                 missedWake>>

(* AsyncCounter::poll.                                                     *)
LoadCounter ==
  /\ fpc = "load"
  /\ fpc' = IF count = 0 THEN "drain" ELSE "register"
  /\ UNCHANGED <<signals, taskVars, polled, hand, handled, errors, missedWake>>

RegisterWaker ==
  /\ fpc = "register"
  /\ waker' = TRUE
  /\ fpc' = "parked"
  /\ UNCHANGED <<signals, taskVars, queue, count, notified, hand, handled,
                 errors, missedWake>>

Unpark ==
  /\ fpc = "parked" /\ notified
  /\ notified' = FALSE
  /\ fpc' = "poll"
  /\ UNCHANGED <<signals, taskVars, queue, count, waker, hand, handled, errors,
                 missedWake>>

(* Mutant: when no task is left the channel is not looked at again.        *)
MutDrain ==
  /\ fpc = "drain"
  /\ fpc' = "done"
  /\ interruptFlag' = (interruptFlag \/ shutdownSignal)
  /\ UNCHANGED <<shutdownSignal, taskVars, polled, hand, handled, errors,
                 missedWake>>

(* No task is left: try_recv until the channel is empty, then              *)
(* check_exit_conditions.                                                  *)
Drain ==
  /\ fpc = "drain"
  /\ \/ Take /\ UNCHANGED interruptFlag
     \/ /\ queue = <<>> /\ fpc' = "done" /\ UNCHANGED <<queue, hand>>
        /\ interruptFlag' = (interruptFlag \/ shutdownSignal)
  /\ UNCHANGED <<shutdownSignal, taskVars, count, waker, notified, handled,
                 errors, missedWake>>

(* Mutant: the task of a retry is not counted.                             *)
MutHandle(r, ok) ==
  /\ fpc = "handle" /\ hand = {<<r, ok>>}
  /\ interruptFlag' = (interruptFlag \/ shutdownSignal)
  /\ handled' = IF ok THEN handled \cup {r} ELSE handled
  /\ running' = IF ok \/ shutdownSignal THEN running ELSE running \cup {r}
  /\ hand' = {}
  /\ fpc' = IF ok THEN "write" ELSE "check"
  /\ UNCHANGED <<shutdownSignal, toSpawn, sending, dropping, waking, polled, errors,
                 missedWake>>

(* check_exit_conditions and handle_fetched, which spawns a failed         *)
(* download again unless the fetcher is interrupted.                       *)
Handle(r, ok) ==
  /\ fpc = "handle" /\ hand = {<<r, ok>>}
  /\ interruptFlag' = (interruptFlag \/ shutdownSignal)
  /\ handled' = IF ok THEN handled \cup {r} ELSE handled
  /\ IF ok \/ shutdownSignal
     THEN UNCHANGED <<running, count>>
     ELSE running' = running \cup {r} /\ count' = count + 1
  /\ hand' = {}
  /\ fpc' = IF ok THEN "write" ELSE "check"
  /\ UNCHANGED <<shutdownSignal, toSpawn, sending, dropping, waking, queue, waker,
                 notified, errors, missedWake>>

(* DbConn::extend.                                                         *)
Write ==
  /\ fpc = "write"
  /\ fpc' = "check"
  /\ UNCHANGED <<signals, taskVars, polled, hand, handled, errors, missedWake>>

-----------------------------------------------------------------------------
TaskSteps ==
  \/ Decrement \/ WakeCounter
  \/ \E r \in running : SeesShutdown(r) \/ \E ok \in BOOLEAN : Download(r, ok)

FetcherSteps ==
  \/ StopRequested \/ BeginSync \/ EndSpawn \/ Write
  \/ Check \/ PollChannel \/ LoadCounter \/ RegisterWaker \/ Unpark \/ Drain
  \/ \E r \in toSpawn : SpawnTask(r)
  \/ \E m \in hand : Handle(m[1], m[2])

DrainNext ==
  Signal \/ TaskSteps \/ FetcherSteps \/ \E m \in sending : Send(m)

DrainSpec == DrainInit /\ [][DrainNext]_drainVars

(* The threads of the runtime make progress, and a download ends; a task   *)
(* that waits for room in the channel is served in turn.                   *)
DrainFairSpec ==
  /\ DrainSpec
  /\ WF_drainVars(TaskSteps) /\ WF_drainVars(FetcherSteps)
  /\ \A m \in Message : SF_drainVars(Send(m))

-----------------------------------------------------------------------------
(* The types of the variables; the channel stays within its capacity       *)
(* (fetch.rs:163).                                                         *)
DrainTypeOK ==
  /\ shutdownSignal \in BOOLEAN /\ interruptFlag \in BOOLEAN
  /\ toSpawn \in SUBSET Ranges
  /\ running \in SUBSET Ranges /\ sending \in SUBSET Message
  /\ queue \in Seq(Message) /\ Len(queue) <= Capacity
  /\ count \in Nat /\ dropping \in Nat /\ waking \in Nat
  /\ waker \in BOOLEAN /\ notified \in BOOLEAN
  /\ fpc \in {"top", "spawn", "check", "poll", "load", "register", "parked",
              "drain", "handle", "write", "done"}
  /\ hand \in SUBSET Message /\ handled \in SUBSET Ranges
  /\ errors \in 0..MaxErrors /\ missedWake \in BOOLEAN

(* The sync ends only when every interval has been handled and nothing is  *)
(* left in the channel, however the last messages and the end of their     *)
(* tasks interleave, unless the fetcher is interrupted (fetch.rs:50-61     *)
(* "queueing a message to a channel doesn't mean we actually consume it"). *)
EndsDrained ==
  fpc = "done" /\ ~interruptFlag =>
    handled = Ranges /\ Awaited = {}

(* The counter is zero only when no task can still send a message, retried *)
(* downloads included (fetch.rs:34, utils.rs:54-68).                       *)
ZeroMeansQuiet == count = 0 => running = {} /\ sending = {} /\ dropping = 0

(* The sync, with its tasks, its channel and its counter, is a sync of     *)
(* Fetcher: it handles a message, retries, ends and stops where Fetcher    *)
(* may (fetch.rs:43-66, fetch.rs:214-278).                                 *)
ImplementsFetcher == F!Spec

(* A fetcher that is asleep with a message in the channel is being woken,  *)
(* and one that is asleep with nothing left to wait for is being woken     *)
(* too, unless the last task ended between the load of the counter and the *)
(* registration of the waker (utils.rs:70-81).                             *)
SleepsSoundly ==
  fpc = "parked" /\ ~notified =>
    /\ queue = <<>>
    /\ count > 0 \/ waking > 0 \/ missedWake

(* A task never waits for ever to send what it fetched, even when the      *)
(* channel is full, unless the fetcher stops listening (fetch.rs:335).     *)
SendersAreServed ==
  \A m \in Message : m \in sending ~> (m \notin sending \/ fpc = "done")

(* The sync ends: "if the prev value is 1, the new value is eq to 0, which *)
(* means we must wake the waiting future" (utils.rs:28-31).                *)
SyncEnds == <>(fpc = "done")
=============================================================================
