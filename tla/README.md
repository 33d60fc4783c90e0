# A TLA+ model of the Kassandra service

The Kassandra service finds, on behalf of its users, the MASP transactions of
the Namada chain that are relevant to them, by fuzzy message detection (FMD).
A *host* downloads the transactions of every block and stores them, an
*enclave* holds the users' detection keys and scans what the host shows it, and
a *client* registers keys and downloads the results. This directory models the
parts that run concurrently or survive a restart, checks them with TLC and
proves the properties that matter most with TLAPS.

    tlc -workers 2 -config MCFetcher.cfg MCFetcher     # one configuration per run
    tlapm FetcherProofs.tla                            # the proofs of one module

## 1. The system

| Component | State it keeps | Operations | Talks to |
|---|---|---|---|
| Fetched blocks (`host/src/db/utils.rs`, `FetchedRanges`) | a flat vector of interval bounds, saved in `fetcher.dat` | `first`, `contains`, `insert`, `blocks_left_to_fetch` | the fetcher |
| Fetcher (`host/src/db/fetch.rs`) | fetched blocks, write-ahead buffer, shutdown state | `run`, `sync`, `handle_fetched`, `extend`, `save`, `Drop` | MASP indexer, fetch tasks (bounded channel), table `Txs`, the host (watch channel) |
| Fetch tasks (`spawn_fetch_txs`, `AsyncCounter`) | counter of live tasks, waker | download, send, end | the fetcher |
| Host loop (`host/src/main.rs`, `scheduler.rs`, `db.rs`) | tables `Txs` and `Indices`, what it is doing | next event, `handle_connection`, `handle_key_registration`, `handle_fmd`, `close` | clients and enclave (blocking sockets) |
| Enclave (`enclave/src`) | registered keys, each with a height and the indices found | `RegisterKey`, `RequiredBlocks`, `RequestedFlags` | the host only; never speaks first |
| Client (`client/src`) | its configuration file | `add-service`, `register-key`, `query-indices` | the hosts of its services |
| Index lists (`shared/src/db.rs`, `IndexList`) | none | `combine`, `union` | no other part; meant for a wallet that has queried several services |
| Transport (`shared/src/communication`, `host/src/com.rs`, `tdx/src/com.rs`) | a read buffer | COBS frames over TCP or a serial port | all three processes |

Two tasks run in the host. The fetcher's task owns the connection that writes
`Txs`; the main loop reads `Txs`, reads the height the fetcher publishes on a
watch channel, and writes `Indices`. A signal stops the fetcher; when its task
ends it drops the interrupt flag, which the main loop notices, and the main loop
then waits for the task. The enclave may be another process (`transparent`) or a
virtual machine behind a serial port (`tdx`), which outlives the host.

What is hard here, and what correctness means for each part:

- **Fetched blocks.** Bounds are inserted and merged by hand. The vector must
  stay canonical and stand for exactly the blocks inserted.
- **Fetcher.** Tasks finish in any order and fail; the process is killed,
  restarted, or fails to write. No block twice, no transaction lost or doubled,
  no hole, and it stops when told to.
- **Fetch tasks.** A hand-written future over an atomic counter, selected with a
  bounded channel, across threads. The sync must end, and only when everything
  that was sent has been handled.
- **FMD rounds.** A round reads rows, then a height, while the fetcher moves
  both. No key may pass over a transaction, or be scanned above the chain; what
  a client downloads must be current and never regress.
- **Registration.** One connection to the enclave carries the registrations of
  all clients and FMD, and a host that is started again may find the answers to
  the one before it. A reply must not be taken for the answer to another
  request; where it is, no client may be told of a success it did not have.
- **Transport.** The reader grows its buffer in the middle of a frame and feeds
  the bytes again; the guest's serial port rewrites bytes; a writer may die with
  half a frame on the line. A message must arrive as it was sent, and a broken
  frame must not take more with it than itself.
- **Client.** The privacy of a user rests on each service having another share
  of the key. A wallet gets the answers of several services, which have scanned
  different blocks at different moments, and possibly not all of their rows.
  Commands stop half-way, files are cut short, services forget.

`PROJECT.json` lists the hazards of the code line by line, with the properties
that are about each, or a note that says why none is.

## 2. The modules

| Module | Models | Extends |
|---|---|---|
| `Heights` | `first` and `blocks_left_to_fetch` as operators on sets of heights | |
| `FetchedRanges` | the vector and its algorithms; a state machine of insertions | (instance of `Heights`) |
| `Fetcher` | the fetcher, its disk and its faults | `Heights` |
| `Enclave` | the enclave's keys and the scan, under an arbitrary host | |
| `FmdService` | the host's main loop, composed with `Fetcher` and `Enclave` | both |
| `TaskDrain` | how the fetcher waits for its tasks, at the grain of atomic accesses | `Heights` (instance of `Fetcher`) |
| `KeyRegistration` | the messages of clients, host and enclave | |
| `Framing` | one direction of a connection, byte by byte | |
| `IndexList` | `combine`, and what it is documented to compute | |
| `Client` | the user's commands, with several services | `IndexList` (one instance of `Enclave` per service) |
| `MCFetcher`, `MCFmdService`, `MCFraming`, `MCClient` | constants for TLC | |
| `HeightsProofs`, `FetchedRangesProofs`, `FetcherProofs`, `FmdServiceProofs` (with `Enclave`), `TaskDrainProofs`, `KeyRegistrationProofs`, `FramingProofs`, `ClientProofs` (with `IndexList`) | lemmas, theorems, proofs | the module they are about, and `TLAPS` |

The modules are levels of one system. `FetchedRanges` shows that the vector
computes the operators of `Heights` (`BlocksLeftAreGaps` and `InsertIsExact` are
checked and proved, and the theorem `FirstIsAfterLowest` says of `first` what the
code does), and `Fetcher` uses a set and these operators. `TaskDrain`
opens the steps of one sync and *implements* `Fetcher`: the property
`ImplementsFetcher` is `Fetcher`'s `Spec` under a refinement mapping, checked by
TLC and proved as the theorem `DrainIsFetcher`.
`KeyRegistration` opens single steps of `FmdService` (what happens in the state
`serving`, and the exchange of messages of a round), and `Framing` one step of
`KeyRegistration` (a message): `Garble` and the half frames of `Crash` there are
what `Framing` shows a serial line may do. `FmdService` keeps to one abstraction
that `KeyRegistration` does not: a reply belongs to the request before it, so
that what a host makes of the answers to the host before it is looked at in
`KeyRegistration` only. `FmdService` implements `Fetcher`: that is the
theorem `ServiceImplementsFetcher`. `Client` sees a service from outside, as an
enclave that registers keys and is scanned at any pace, with any of its rows.

**Fetcher.** `pc` is the place of the fetcher's task: `top` (head of `run`),
`loop` and `receive` (`get_next_message`), `extend` and `flush`
(`DbConn::extend`), `sleep`, `save` and `drop` (the end of the task in
`start_updates`), `stopped`. `fetches` holds the intervals that are being
downloaded or wait in the channel; a task that sees the shutdown signal leaves
without a message. `wal` is the buffer, `hand` what is being put in it or
flushed from it, `txs` counts the rows of each transaction in the table, so
that a doubled row can be seen. `fetcherDat` is the file, possibly `Torn`.
`lost` is a history variable: what was in the buffer when a stopping fetcher
was cut short; `abandoned`, another, holds the blocks of the fetch tasks that
panicked in this sync. Faults, at most `MaxFaults`: the process is killed
anywhere, also while it writes the file (`Kill`); a row cannot be written
(`FlushFails`, `DropFails`); the file cannot be written (`SaveFails`), or not be
read, which counts as no file (`RestartUnread`); a fetch task panics, which is
only logged when the sync is over (`TaskPanics`); the main loop panics and the
runtime drops the fetcher's task where it awaits (`Cancel`). After `Cancel` and
`SaveFails` the task unwinds (`pc = "unwind"`): nothing is recorded, and `Drop`
for `DbConn` still writes the buffer. `FetcherState::Interrupted` is only set
together with the signal having been received, and is folded into the test of
the signal. A signal between the test and the indexer's answer has no effect
before the next test, so that these are one step.

**Enclave.** `keys` is `registered_keys`. `Detected` is the relation of FMD
detection, a parameter; a row without a flag is detected by every key. The host
writes `""` as the flag of every row (`TODO: Add fmd flag` in `fetch.rs`), which
does not parse, so that in `FmdService` all rows have `NoFlag`. Indices are a
set: a row that is stored twice after a crash is detected twice, and this
difference is left out. Encryption is left out: a response is read by its owner.

**FmdService.** A round is one action per read: `BeginFmd` (the exchange of
`RequiredBlocks`), `ReadHeight` per height, in order, `SendFlags` (the read of
the height, the exchange of `RequestedFlags` and the scan), `StoreResult` per
row, `EndFmd`. The fetcher's steps interleave with all of them. A client is
served from `Accept` on: the service ends with a registration that succeeds
(`Register`), with anything else (`EndServing`), or never, for the host waits for
a client as long as it takes. `HostStart` keeps the keys of the enclave or loses
them. `late` records the rows that were not in the table when their
height was read and whose height then counted as synced. A panic of the main
loop (a table that cannot be read or written, a lost enclave, a client that
does not take its answer) is `HostPanics`, the `Cancel` of the fetcher and the
end of the host.

**TaskDrain.** Every load, store, wake and poll is an action. The tasks are
spawned one by one, and the first may end before the last is spawned. The counter
uses relaxed ordering; the decrement of a task comes after its send, which takes
the lock of the channel, and the fetcher looks at the channel under the same lock
after it has read zero, so that it finds the messages. The first sync of a new
host is modelled; the join of the handles at its end is not. The mapping to
`Fetcher` takes the intervals that are to be spawned, downloaded, sent, queued or
in hand for `fetches`, the blocks of the handled ones for `fetched`, and `fpc`
for `pc` (`FetcherPc`); the transactions are left out on both sides.

**KeyRegistration.** Messages are types, and carry the client whose key could
encrypt them, which is all the handshake is for here. A client connects
(`Connect`) and may then say nothing, or ask (`Ask`) for the UUID or its indices,
send a public key, a weak one (the exchange is refused) or a message of the second
round (`Stray`: the host drops the connection, and the client reads on). In the
second round it may send a good or a garbled key, a failing acknowledgement or
something else, and it may go away at any moment. A report is only accepted by
the client it was made for, whose nonce it carries. A connection that is closed
reads like one on which nothing arrives: `read` returns no bytes and the loop goes
on.

A reply of the enclave may be undecodable (`Garble`). A crash of the host closes
its connections and cuts what it has sent to the enclave at any point, also inside
a frame (`Half`, which takes the next frame with it). The host is started again
at any moment after that. What the enclave has sent in between is lost, but for
the end of a frame it is just sending; what it had not answered yet it answers
now, and the new host reads that as the answer to its own first request. From then
on the answers are one behind, until a registration takes one answer more than it
asks for: its client refuses a report that is not its own, or a report cannot be
decoded, and the host reads once more, which without an answer left over is the
hang of `nobodys_turn`.

**Framing.** `wire` is the line, `buffered` what one `read` brought, `readBytes`
the bytes of the frame and `decoder` what they have made of the decoder; `sent` and
`received` are histories. COBS itself comes from a library: `Encode`, `Feed` and
`Push` say what it does, with the length of a block (254) as the constant
`MaxRun`. `serial` says whether the writer is the TDX guest, whose serial port
writes a backspace, a space and a backspace for the bytes 8 and 0x7F.

**IndexList, Client.** A list of indices is a set, since `combine` sorts. `file`
is the configuration file; `command`, `config` and `next` are the command that
runs, the services it has loaded and the one it is at. An owner of `Enclave` is
here the share a service was given, and `Round(s, h, there)` is a round of FMD of
that service at the height `h`, when the table of the service has the rows
`there`, with the row it writes for the user: any row that the service has not
found before may be missing, and stays so once the round has passed it.
`lists` holds the answers side by side, as `query_fmd_key` returns them. A file
that is cut short is `Torn`, or holds the first services only. `Saved` sorts the
services it keeps by their indices, as the code does. Any command may also end
before it does anything: the code that loads the file is not modelled beyond this. (That code
may well reject every file that holds a key: `EncKey` is read back with a visitor
that accepts bytes only, `shared/src/db.rs:61`, while the TOML file holds a list of
numbers. The model of the client therefore states safety only.)

## 3. What TLC checks

Every passing run but `fmd_progress`, which is about liveness, checks one type
invariant; the other properties are:

| Run | Question | Properties |
|---|---|---|
| `fetched_ranges` | Does the vector compute what the fetcher relies on? | `InsertIsExact`, `BlocksLeftAreGaps` |
| `fetcher` | Does the fetcher download and store each transaction once, whatever happens? | `FetchesDisjoint`, `ExactlyOnce`, `NothingElseLost`, `DoubledOnlyByFaults`, `NoHoleAfterSync`, `ChainIsFetched`, `ShutdownStops` |
| `fmd_service` | What do clients get while the fetcher runs, stops, crashes and restarts? | `IndicesInRange`, `NoScanAboveTip`, `OnlyLateRowsAreMissed`, `StoredIsCurrent`, `StoredNeverRegresses`, `CleanShutdownPersists` |
| `fmd_progress` | Does the service get on, and does it stop? | `KeysCatchUp`, `HostStops` |
| `task_drain` | Is a sync with its tasks, channel and counter a sync of `Fetcher`, does it end only when all is handled, and who sleeps? | `ImplementsFetcher`, `EndsDrained`, `ZeroMeansQuiet`, `SleepsSoundly`, `SendersAreServed` |
| `key_registration` | Are replies, keys and clients kept apart, who is served, and what is left of this when the host crashes? | `RepliesMatch`, `EnclaveNotLeftWaiting`, `SuccessIsTrue`, `ServedUnlessHung`, `FmdGoesOn` |
| `framing` | Does each message arrive as it was sent, and does a broken frame end? | `OneFrameInOneOut`, `EventuallyReceived` |
| `client` | Do the shares stay apart, is a registration that ends well complete, and whose are the answers of a query? | `SharesApart`, `OkMeansRegistered`, `AnswersAreOwn`, `AnswersCombine` |

Each property has a mutant beside the definition it changes (`Mut...`), a
plausible bug that makes TLC find the property violated.

Four runs end in a violation, each of what the code or its documentation says:

| Run | Claim | What the code does |
|---|---|---|
| `synced_to_has_holes` | the published height is "completely synced" (`db.rs:30`) | `first` looks at the lowest interval only: if a later batch arrives first, earlier blocks are missing below the height |
| `missed_note` | FMD "should detect all transactions relevant to a user" (`README.md:18`) | rows are read before the height, and the height is published before the rows are in the table |
| `sync_may_not_end` | reaching zero must "wake the waiting future" (`utils.rs:28`) | the counter is loaded, then the waker registered: the last task can end in between |
| `nobodys_turn` | host and enclave "always take turns" (`enclave/README.md:8`) | after a failing acknowledgement the host reads, and the enclave does not answer |

The passing properties say what holds in spite of these, and of further
weaknesses that no document speaks of:

- `OnlyLateRowsAreMissed`: the window of `missed_note` is the only way to miss a
  row. It leaves these rows out, and so does not catch them.
- `NothingElseLost`: `fetcher.dat` is written before the buffer is flushed, and a
  fault in between is the only way to lose a transaction.
- `DoubledOnlyByFaults`: blocks are fetched again after a fault, and each fault
  stores a transaction once more at most.
- `NoHoleAfterSync`: a task that panics leaves a hole, and nothing else does;
  `ChainIsFetched`: the next sync fills it.
- `SleepsSoundly`: the missed wake-up of `sync_may_not_end` is the only unsound
  sleep. `ChainIsFetched`, `ShutdownStops` and `HostStops` name it as the case in
  which they do not hold (`NeverWoken`).
- `ServedUnlessHung` and `FmdGoesOn`: the states of `Hung` are the only ones in
  which the host waits for ever, and only the clients of `Excused` are dropped
  without an answer.
- `SuccessIsTrue`: when the answers are one behind after a crash, a client may get
  the report or the error of another, and may be dropped, but it is told of a
  success only if it is registered. `RepliesMatch` and `EnclaveNotLeftWaiting` are
  false then, and are stated until the first crash.
- `StoredIsCurrent`: without faults, between two rounds the row of an owner is what
  one of its keys has found, up to the height of that key or one block behind it.

### Where documents and code differ

Besides the four runs, these are disagreements that no run is about: each is one
assignment or one call, read directly off the code, and no property asserts what
a document denies.

| What is said | What the code does | In the models |
|---|---|---|
| `first` is the "first block height not contained" (`utils.rs:129`) | the height after the lowest interval, also when that begins above 1 (`utils.rs:130-135`) | `First`; its consequence is the run `synced_to_has_holes` |
| a birthday is the height "to start detecting from" (`shared/src/ratls.rs:51`), only blocks "prior to" it are skipped (`client/README.md:41-43`) | the first block scanned is the one after it; without a birthday it is block 2 (`enclave/src/lib.rs:62`, `fmd.rs:48`) | `Birthday`, `NextHeight`; `IndicesInRange` admits the birthday itself |
| a result has the "last height FMD was performed at" (`shared/src/db.rs:257`) | it has the height before the scan (`fmd.rs:70`) | `Response`; `StoredIsCurrent` admits both heights |
| a client gets this height (`client/README.md:62-64`) | it is logged and dropped (`client/src/query.rs:75`) | answers have no height |
| the answers of several services are combined (`client/README.md:64`, `query.rs:14`) | they are returned side by side (`query.rs:15-24`); only a test calls `combine` | `lists`; `AnswersCombine` is about a caller who would |

### Bounds

- `fetched_ranges`: heights to 8 reach every canonical vector with up to four
  intervals (256), and every interval is tried on each: neighbours that touch,
  overlap, enclose and meet at either bound all occur.
- `fetcher` (408,000 states): six blocks in batches of two give up to three tasks
  in flight and gaps inside batches after a restart; block 2 has two transactions
  (a flush that can stop half-way), blocks 3, 4 and 6 none; `MaxWalSize = 2` makes
  the buffer stay, fill and overflow; two restarts and two faults put faults
  before, between and after clean shutdowns, and a second fault after a row has
  been doubled.
- `fmd_service` (2.5 million states): three blocks, two transactions at heights 2
  and 3, two clients or one that registers twice, with and without a birthday, so
  that keys at different heights share a round; one restart, one fault.
- `fmd_progress`: the same with one registration.
- `task_drain`: two tasks, two failures and a channel of one: a full channel, a
  retry while the other task ends, an end before the next task is spawned, and
  the last end at each step of the poll.
- `key_registration` (241,000 states): two clients, each with any request and
  answer, one crash of the host at any point and one undecodable reply. A second
  crash finds what the first has left on the line: the same configuration with
  `MaxCrashes = 2` passes with `MaxGarbled = 0` (634,000 states), and its
  invariants with `MaxGarbled = 1` (1.3 million), but takes longer.
- `framing`: messages over four byte values, with a zero first and last, a full
  block (`MaxRun = 2`) and a rewritten byte; a buffer of one byte, which grows
  several times in a frame; chunks of one or two bytes, so that a chunk ends
  inside a frame, at its end and in the next; two whole frames and one that is
  cut, in any order.
- `client` (1.2 million states): two services, three entries of the file (so that a
  service is entered twice), two keys per service, one failed save and one restart;
  two blocks above the birthday, with one transaction of the user and, at the
  greater height, a false positive of the first share. Each row may be missing at
  each service, so that the lists of two services differ at either height, and one
  may be empty. The services are symmetric: no property or constant names one.

The bounds on restarts, faults, registrations, failed downloads and crashes are
constants (`MaxRestarts`, `MaxFaults`, `MaxRegistrations`, `MaxErrors`,
`MaxCrashes`, `MaxGarbled`, `MaxFrames`, `MaxCuts`, `MaxServices`); the chain is
bounded by `MaxHeight`. Symmetry is used in `client` only, which checks no
liveness.
Deadlock is not checked, because each system may really stop: the fetcher and
the host end on a signal, a sync is over, the chain of the model is full, the
line is silent, no service or registration is left to add, and `KeyRegistration`
contains the hang of `nobodys_turn`.

### Fairness

The tokio runtime polls a task that has been woken: the steps of the fetcher
(`Steps`) and of the host's loop while it does not serve a client (`HostSteps`) are
weakly fair. What the code does not guarantee is not assumed:

- The end of a sync (`EndReceive`) is the wake-up at the end of the last task,
  which `sync_may_not_end` shows can be missed. It is not fair; `NeverWoken`, a
  fetcher that waits and has no task, is the case that `ChainIsFetched`,
  `ShutdownStops` and `HostStops` leave open if it lasts for ever.
- A client may hold the host for ever (`Hung` in `KeyRegistration`, also
  `nobodys_turn`). In `FmdService` nothing forces the end of `serving`;
  `KeysCatchUp` and `HostStops` leave this case open, as a host that answers
  client after client does not get to FMD: the scheduler prefers connections.
- In `KeyRegistration` the liveness properties are therefore relative to a bounded
  number of clients, and to `Hung`. Clients owe nothing but to read what they are
  sent (`ClientStep`), and may go away instead or never ask.

The indexer may fail, but not for ever: receiving a downloaded interval is
strongly fair in `Fetcher`, and the number of failures is bounded in `TaskDrain`.
`flume` serves waiting senders in turn: `Send` is strongly fair per message. A
host that has crashed is started again in `KeyRegistration` (`Restart` is one of
its `HostStep`s), as `FmdGoesOn` needs; in `Fetcher` and `FmdService` it need not
be. In `Framing` only the reader is fair: it takes the bytes that are there, and
nobody has to write. `Client` assumes no fairness.

## 4. What is proved

For every value of the constants that their `ASSUME`s allow: any chain, any
transactions, batch and buffer sizes, capacity of the channel, numbers of
restarts, faults, failed downloads, clients, services and registrations, any
detection relation. Nothing else is assumed.

| Theorem | Says |
|---|---|
| `TypeCorrect` | `Spec => []TypeOK`: types, and nothing above the tip is asked for or recorded |
| `NeverFetchedTwice` | `Spec => []FetchesDisjoint` |
| `StoredExactlyOnce` | `Spec => []ExactlyOnce` |
| `OnlyTheBufferIsLost` | `Spec => []NothingElseLost` |
| `SyncLeavesNoHole` | `Spec => []NoHoleAfterSync` |
| `OnlyFaultsDouble` | `Spec => []DoubledOnlyByFaults` |
| `RangesCanonical` | `Spec => []TypeOK` of `FetchedRanges`: the vector stays canonical |
| `InsertionsAreExact` | `Spec => []InsertIsExact`: `insert` is the union of sets |
| `LeftToFetchIsCorrect` | `Spec => []BlocksLeftAreGaps`: `blocks_left_to_fetch` is `Gaps` of `Heights` |
| `IndicesStayInRange` | `EnclaveSpec => []IndicesInRange`, under any host: no index is before the birthday |
| `ServiceImplementsFetcher` | `ServiceSpec => Spec` |
| `KeysStayBelowTip` | `ServiceSpec => []NoScanAboveTip` |
| `OnlyLateRowsMissed` | `ServiceSpec => []OnlyLateRowsAreMissed` |
| `IndicesInRangeInService` | `ServiceSpec => []IndicesInRange` |
| `ServiceTypeCorrect` | `ServiceSpec => []ServiceTypeOK` |
| `StoredRowsAreCurrent` | `ServiceSpec => []StoredIsCurrent`: a row has all its key has found, with a height at most one block behind it |
| `ShutdownPersists` | `ServiceSpec => []CleanShutdownPersists` |
| `StoredRowsOnlyGrow` | `ServiceSpec => StoredNeverRegresses`, an action property |
| `DrainTypeCorrect` | `DrainSpec => []DrainTypeOK` |
| `ZeroIsQuiet` | `DrainSpec => []ZeroMeansQuiet` |
| `SyncEndsDrained` | `DrainSpec => []EndsDrained` |
| `SleepIsSound` | `DrainSpec => []SleepsSoundly` |
| `DrainIsFetcher` | `DrainSpec => ImplementsFetcher`: the refinement |
| `RegTypeCorrect` | `RegSpec => []RegTypeOK` |
| `RepliesAlwaysMatch` | `RegSpec => []RepliesMatch`, until the first crash of the host |
| `EnclaveLetGo` | `RegSpec => []EnclaveNotLeftWaiting`, until the first crash |
| `RegisteredWhenTold` | `RegSpec => []SuccessIsTrue`, for any number of crashes |
| `FramingTypeCorrect` | `FramingSpec => []FramingTypeOK` |
| `FramesArriveInOrder` | `FramingSpec => []OneFrameInOneOut` |
| `EncodedIsDecoded` | decoding an encoded message gives the message back, for all messages |
| `ClientTypeCorrect` | `ClientSpec => []ClientTypeOK` |
| `SharesStayApart` | `ClientSpec => []SharesApart` |
| `OkIsRegistered` | `ClientSpec => []OkMeansRegistered` |
| `AnswersAreOfService` | `ClientSpec => []AnswersAreOwn` |
| `AnswersAgree` | `ClientSpec => []AnswersCombine`, for the answers of any query |
| `CombineAgrees` | `Combine(a, b) = Agreement(a, b)`, for all lists |
| `CombineLosesNothing` | a lemma for a caller of `combine`: two lists that are complete up to some heights combine to one that is complete up to the greater |

Each invariant below was checked by TLC on the bounds of its run before it was
proved.

**Heights.** `HeightsProofs` proves what `First` and `Gaps` return: the height
after the lowest interval; intervals that are disjoint, that avoid the set and
together leave nothing of the request. The least element of a set of naturals
comes from the library's well-founded induction.

**Fetched blocks.** The loops of `simplify`, `retain` and
`blocks_left_to_fetch` are recursive functions in `FetchedRanges`. That such a
function exists (`LoopExists`), and that what its steps preserve holds of all its
values (`LoopInduction`), are proved from the least counterexample, since the
library's induction takes an operator. A vector is canonical if it is strictly
sorted and two neighbouring intervals do not touch. `insert` keeps the prefix of
the bounds below the interval and the suffix of those above it (`Outside`,
`RetainedIs`), writes in between the bounds that the vector does not contain
(`FindIndexIs`, `SplicedIs`, `BoundsAre`), and `simplify` removes the pairs that
touch (`SimplifyLoop`, `SimplifyIs`); `InsertIs` puts these together: the result
is canonical, and covers the union. `FirstIsAfterLowest` says what `first` returns
of a canonical vector: the operator `First` of `Heights`. The invariant of `blocks_left_to_fetch`
(`LoopState`) is that the list holds the gaps that are closed below the height
reached, in order, and that either the height before is covered or `start` is the
first height of the gap still open; `LeftIs` reads `Gaps` off it at the end of the
loop. `InsertIsExact` excludes the intervals that end where a stored one does, for
which it is false; the fetcher inserts only intervals that meet nothing, and
`RangesCanonical` uses no other.

**Fetcher.** The properties are not inductive. `IInv` in `FetcherProofs` adds:

- the control facts: outside `extend` and `flush` nothing is in hand, in-flight
  intervals exist only inside a sync, a stopped fetcher holds nothing in memory;
- for `ExactlyOnce` and `NothingElseLost`, what the *saved* file accounts for
  while the process still runs, since a kill makes it what is recorded;
- for `DoubledOnlyByFaults`, that a transaction whose block is not recorded is
  stored or buffered at most as often as there were faults (`RowsBounded`): the
  next sync will fetch it once more;
- for `NoHoleAfterSync`, that during a sync that has not been interrupted the
  fetched blocks, the blocks in flight and those of tasks that panicked *together*
  have no hole, and begin at block 1 in the first life. A sync starts so because
  `Missing` fills every gap from `First` to the tip (`MissingFillsHoles`), each
  step keeps it, and at its end nothing is in flight.

One lemma per part shows that a step preserves it, by the action taken;
`NextIInv` puts them together.

**Service.** `ServiceStepIsFetcherStep` goes through the actions of the host;
each leaves the fetcher's variables alone or takes a step of the fetcher.
`ServiceInv` then needs, beyond `IInv`, that the published height is never above
the tip (`PublishedBelowTip`, which rests on `fetched` having an element and on
nothing being fetched above the tip) and that the rows of a round are rows of the
chain. The scan of a key takes rows of its next height only; a row of that
height that is not among the rows read is in `late` by definition of
`PassedOver`, and one that is among them is detected, because it has no flag.

`StoreInv` is about the table `Indices`. In the middle of a round the rows are
out of date, so that `StoredIsCurrent` needs what the round still owes: without
faults each key that has been advanced has its row in the table or among the
results that wait to be written (`StoredOrPending`), and a result is what its
key holds now (`ResultsAreFound`). `StoredNeverRegresses` needs that an owner
that registered once has one key (`OneKeyEach`, through restarts that lose the
keys) and that the row is behind that key (`StoredBehind`), so that writing a
result, in whichever order, only moves the row up. `CleanShutdownPersists`
combines `ExactlyOnce` of the fetcher, which holds here because the service
implements it, with `DownIsStopped`: a host that is down without a fault has a
fetcher that has stopped, and holds nothing in memory.

**Waiting for the tasks.** `DrainInv` says that the counter is the number of
tasks that download, wait for room or have yet to decrement it (`Counted`), that
each interval is in one place (`OnePlace`) and that none is forgotten
(`Accounted`); that once zero has been read nothing starts again (`Drained`); and
that a fetcher that has found the channel empty is woken by the next message,
and after it has registered also by the last task, except in the window of
`missedWake` (`Listens`). `EndsDrained` is then `Accounted` at an empty channel
and a counter of zero.

`DrainIsFetcher` is the refinement, step by step. `BeginSync` is `SpawnFetches`;
`Check` is `Wait`; a message handled is `ReceiveFetched` or `ReceiveError` of its
interval; the write that follows is `ExtendWal`; a task that sees the signal is
`TaskSeesShutdown`; the end of the drain is `EndReceive`. Spawning one task,
downloading, sending, taking a message from the channel, and every access to the
counter and the waker are stutters. The steps that take an interval from those
in flight need `OnePlace` (it is nowhere else), and `EndReceive` needs `Drained`
and `Counted` (nothing is in flight when the counter is zero and the channel
empty).

**Registration.** `RegInv` says, until the first crash, whose turn it is. For each
place of the host, `Turns` lists what can be on the way to the enclave or back and
which client the enclave has a session with: the host has sent its request and
nothing has been answered, or one reply is waiting, of the types this request can
have. Only a failing acknowledgement can be ahead of it, and that is consumed
without a reply. `RepliesMatch` and `EnclaveNotLeftWaiting` are read off that
list.

`SuccessIsTrue` has to hold when the answers are one behind as well, so `Turns` does
not help. What does is that a client asks once (`OneRequest`, `QueuedOnce`,
`Served`): what the connection holds of a client is of one request. `InStep` says
that the report of the client being served is the last message in the connection,
so that when the client has it, no old answer is left and host and enclave are in
step again (`AnswerStep`); a success that the host then reads is the one of this
client (`ResultStep`), and `Told` is what the client makes of it. A client that
gets the report of another refuses it, because of the nonce, and cannot come as
far. `NotYet` says that a client is not registered while its request is still to
be handled, so that it is registered once.

**Framing.** `EncodedIsDecoded` is about the codec alone: between two bytes, the
blocks that the encoder has closed decode to the message so far but for the bytes
of the open block (`Encodes`); `BlockDecoded` says what one more block does to the
decoder. `FramingInv` says of the bytes that are read, buffered and on the line
that they hold as many zeros as frames are unanswered, that the line ends with one
unless a frame was cut short, and that before the zero of an intact frame is what
was encoded (`Delimited`). Writing a frame adds a zero (`FrameIsWritten`, with
`SentinelIsWritten`: the serial port neither makes nor loses one), a part of a
frame adds none (`PartIsWritten`), and a zero after the bytes read is the next end
(`FrameIsRead`). What the decoder was fed is what has been read, so that a buffer
that grows changes nothing.

**Client.** `ClientInv` says that a command is at a service of the file it has
loaded, which nothing changes until it ends (`Phase`); that a key was registered
at the service that has its number in the file (`Apart`), which a save keeps
because a service is only added behind the others, and sorting a numbered file
leaves it as it is (`SavedIsSame`: a strictly growing map of `1..n` to itself is
the identity, `GrowingIsIdentity`); that the services `register-key` has passed
hold their shares (`Told`); and that what keys, services and commands hold was
detected by the share of its key (`Found`, `OwnKey`). For `AnswersAreOwn`, `Apart`
also says that the row of a service was found with the numbers this service has in
the file, which holds after the service has forgotten its keys too, and `Asked` that
each list of a query is such a row. `AnswersCombine` follows from `CombineAgrees`,
since the lists are sets of indices.

**Index lists.** `TopIsGreatest` says that `Top` is the greatest height of a
list; `CombineAgrees` goes through the four cases of `combine`.
`CombineLosesNothing` follows, and because its conclusion has the form of its
hypothesis it covers any number of lists, in any order. Its hypothesis is not one
that the services keep: a service that has missed a row (`missed_note`) has a list
that is not complete, and `combine` then drops the index that the other service
found.

Every invariant and action property that a passing run checks is proved. Only
model-checked:

- everything that rests on fairness or `ENABLED`, which are out of the prover's
  reach: `ChainIsFetched`, `ShutdownStops`, `KeysCatchUp`, `HostStops`,
  `SendersAreServed`, `ServedUnlessHung`, `FmdGoesOn`, `EventuallyReceived`.

## 5. What is not modelled

- `IndexList::union`, `retain` and `contains_height`, which nothing in the
  repository calls, and the byte format of an index. `combine` is modelled,
  although only its test calls it.
- The host's configuration: options and file are merged once at start, and
  nothing changes afterwards. Its values are constants of the models.
- The start of the host: the databases exist and are complete. A kill between
  creating a database and its tables makes the next start fail; nothing else
  happens.
- The client's command line and key derivation, and two commands of one user at
  the same time: the second save of the file would overwrite the first.
- Attestation and ciphers: who can decrypt what is modelled, quotes are not.
  CBOR: a message that cannot be decoded is a message of its own.
- The set-up of the enclave's platforms.
- The overflow of a birthday near `u64::MAX`, and heights that do not fit an
  `i64`; heights are natural numbers.
- How a host that is started again resynchronises with an enclave whose answers
  are one behind, in `FmdService`: there each reply belongs to its request. What it
  would add is a round whose rows are those of an earlier request.
- What a client that registers one owner twice should get: that is not
  documented. `StoredIsCurrent` says what it does get, and
  `StoredNeverRegresses` is stated for owners that registered once.
- A table `Indices` that cannot be written, other than as a panic of the host.

## 6. Plan

Done, in this order: `Heights` and `FetchedRanges`; `Fetcher` and its proofs;
`Enclave`, `FmdService` and their proofs; `TaskDrain`; `KeyRegistration`; then
the panics and failed saves of `Fetcher` and `FmdService`, the spawning of the
tasks and the refinement in `TaskDrain`, queries and broken frames in
`KeyRegistration`, `Framing`, `IndexList` with its proofs, and `Client`.

Then the proofs of every invariant and action property: the vector of
`FetchedRanges`, the table of indices in `FmdService`, the safety and the
refinement of `TaskDrain`, `KeyRegistration`, `Framing`, and `Client` with the fold
over the answers.

Next: compose. `InsertionsAreExact`, `FirstIsAfterLowest` and
`LeftToFetchIsCorrect` carry the theorems of `Fetcher` over to a fetcher that keeps
the vector; and `FmdService` with a connection whose answers may be one behind.
