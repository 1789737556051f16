# A verification development for the Threema bridge and libthreema

This directory holds TLA+ models of the protocol core of this repository, TLC
configurations that model-check them on small instances, and TLAPS proofs of
some of their properties. Paths below are relative to
`src/rust-bridge/libthreema/lib/src/` unless they start with `main.rs` (that is
`src/rust-bridge/src/main.rs`) or `src/`. `PROJECT.json` names the lines every
definition was translated from.

## 1. The system

A listener (`src/scripts/`, TypeScript) answers what arrives over Threema with the
Gemini CLI. A **bridge** process (Rust, `main.rs`) talks to the Threema chat server
with the library **libthreema**, which also holds the protocols a device needs to
link others, to reach the mediator of its device group and to protect its storage
with a remote secret. libthreema does no input or output of its own: each of its
protocols and tasks is a state machine that its caller polls, and that answers
with an *instruction* (send this, request that, poll again with the answer).
That is what makes it both hard to test and well suited for a model: the caller
may call in any order, the answers come at any time, and between two polls
other tasks, other devices and the network go on.

### Inventory

| Component | State | Operations | Works with | What makes it correct |
|---|---|---|---|---|
| Frame decoders (`utils/frame.rs`) | buffer, partial delimiter or frame | `add_chunks`, `required_length`, `next_frame` | CSP, D2D | frames come out as they went in, wherever the stream is cut; never ask for bytes nobody has sent |
| Sequence numbers, nonces (`utils/sequence_numbers.rs`, `csp/cipher.rs`) | two counters, two cookies | `get_and_increment`, `encrypt`, `decrypt` | CSP | no nonce seals two boxes; the ends stay in step |
| Chat server protocol (`csp/`) | one of four states, decoder, cipher | `new`, `add_chunks`, `poll`, `create_payload` | bridge, chat server | logs in to known servers only; payloads are neither lost, repeated nor reordered; errors are final |
| Transactions, reflection (`csp_e2e/transaction/`, `csp_e2e/reflect.rs`) | per task: waiting, in progress, aborting; reflect IDs | begin, reflect, commit | contact tasks, mediator | mutual exclusion of devices; every transaction ends |
| Contact tasks (`csp_e2e/contacts/create.rs`, `update.rs`) | task state, contacts to store | `poll` | transactions, contact store | devices agree; nothing is overwritten; store after commit only |
| Contact lookup (`csp_e2e/contacts/lookup.rs`, `utils/cache.rs`) | task state, cache with expiry | `poll` | directory | sender judged by store, cache and directory in that order |
| Incoming message task (`csp_e2e/message/task/incoming.rs`) | one of six states | `poll` | lookup, contact tasks, stores, mediator, CSP | handed over exactly once, acknowledged only when done |
| Outgoing messages (`csp_e2e/message/task/outgoing.rs`, `payload.rs`, `model/message.rs`) | none that outlives a call | encode, pad, seal; open, decode | bridge, incoming task | what is handed over is what was meant |
| Bridge (`main.rs`) | two queues, next instruction, pending task, line buffer, in-memory stores | three flows at their awaits | all of the above, stdin | nothing lost between the flows; frames leave in the order they were sealed |
| Mediator protocol (`d2m/`, `utils/bytes/`) | handshake state, datagram buffer; in its example two queues and a transaction state | `poll`, `create_payload` over datagrams | mediator | payloads arrive once and in order; a transaction is only used while its lock is held |
| Rendezvous (`d2d_rendezvous/`) | one state, keys and counters per path, nomination | `add_chunks`, `process_frame`, `nominate_path`, `create_ulp_frame` | two devices | both ends use the one path the nominator chose; no nonce twice |
| Remote secret monitor (`remote_secret/monitor.rs`) | locked or unlocked, failure counter, settings, timer | `poll` | work server, storage | handed out once; locked in time, and not too early |
| Identity creation (`csp_e2e/identity/`) and secret setup (`remote_secret/setup/`) | task state | `poll` | directory, work server | nothing is created twice; what is returned is stored |
| HTTPS endpoints (`https/`) | none | build a request, classify a result | all tasks | every answer becomes the error its task acts on |
| Listener (`src/scripts/listener-openclaw.ts`) | task queue, envelope queue, groups; the database | handlers cut at their awaits, resumption | mediator client, database, Gemini | receipts only for what is stored, ECHOECHO's apart; nothing answered twice; nothing forgotten |
| Cryptography, configuration, bindings, CLI, macros | none | pure functions | all | (arithmetic, encoding) |

### What is hard

* **Cuts and orders of a stream.** A chunk may end inside a delimiter, span
  several frames, or carry the first bytes of the next protocol state.
* **Nonces.** Client and server share one key; only two cookies and two
  counters keep their nonces apart, over errors and the end of the counters.
* **Other devices.** Between two polls of a contact task, the contacts it looked
  at may be created, changed or deleted in another device's transaction.
* **Redelivery.** The server delivers again what was not acknowledged: every
  failure at every state of the incoming task meets the same message again, with
  the nonces, message IDs and contacts the first attempt left.
* **Awaits.** The bridge runs three flows in one `select!`; each `await` lets the
  others change the contacts and the queues, and any flow that ends drops the
  rest. The listener is one event loop: every `await` of a handler lets all the
  others run, and what was read before it may be stale.
* **Races of paths.** Two devices shake hands on several paths at once; the
  nomination of one meets frames on the others, and the keys change with it.
* **Answers that do not come.** A request may be lost before or after the server
  has acted; the tasks that create something must not act twice, and the monitor
  has to tell an outage from a secret that was blocked.
* **Queues with an end.** The flows around the mediator protocol wait for room in
  queues that only the other side empties.

The full list, each at its line and with the properties that cover it or the
reason why none does, is `hazards` in `PROJECT.json`.

## 2. The modules

| Module | Code | State and actions |
|---|---|---|
| `FrameDecoder` | `utils/frame.rs` | both decoders as operators on a record of state, length and buffer |
| `FrameStream` | the same, with a writer and TCP | `SendFrame`, `Read`, `Poll` over bytes |
| `CspProtocol` | `csp/`, `utils/sequence_numbers.rs` | one action per state of `poll`, `AddChunks`, `CreatePayload`; chat server `Srv...` |
| `PayloadChannel` | none: the abstraction | two FIFO channels that may stop |
| `CspProtocolProofs`, `ContactTransactionsProofs`, `IncomingMessageProofs`, `BridgeProofs`, `D2dRendezvousProofs`, `D2mProofs`, `RemoteSecretProofs`, `ListenerProofs` | | the theorems about those modules, `RemoteSecretProofs` about the tasks and the monitor, `BridgeProofs` also about `FrameStream`, `ListenerProofs` also about `MessageExchange` |
| `ContactTransactions` | `csp_e2e/transaction/`, `contacts/`, `reflect.rs` | per device: `Start`, one `Poll...` per state and message; the mediator `Serve...`; `Disconnect`, `PeerTransaction` |
| `IncomingMessage` | `csp_e2e/message/task/incoming.rs`, `contacts/lookup.rs`, `model/message.rs` | one `Poll...` per state of the task; redelivery `Reconnect`; `PeerChange`, `Expire`, `BecomeLeader` |
| `Bridge` | `main.rs` | one action per stretch between two awaits of each flow; `End`, `Restart`; chat server `Srv...` |
| `D2dRendezvous` | `d2d_rendezvous/` | per role and path: `AddChunks`, `ProcessFrame`, `NominatePath`, `CreateUlpFrame`; `StrayFrame` |
| `NominatedChannel` | none: the abstraction | one chosen path, learnt once, and two FIFO channels |
| `ByteReader`, `D2mPayload` | `utils/bytes/`, `d2m/payload/` | readers, writers and the codec, byte for byte, as operators |
| `D2mProtocol` | `d2m/mod.rs`, `examples/bin/d2m_ping_pong.rs` | the protocol and the runner and app around it; mediator `Mediator...`, `Other...` |
| `HttpsEndpoints` | `https/` | requests and the classification of results as operators |
| `SetupTasks` | `csp_e2e/identity/`, `remote_secret/setup/` | one `Poll...` per state; servers `Answer...`, `Refuse`, `Lose` |
| `RemoteSecretMonitor` | `remote_secret/monitor.rs` | one `Poll...` per outcome; `Block`, `Unblock`, `Remove`, `Tick` |
| `MessageEncoding` | `model/message.rs`, `csp_e2e/message/payload.rs`, `common/mod.rs` | containers, bodies, padding, metadata and nicknames as operators |
| `MessageExchange` | `task/outgoing.rs`, `task/incoming.rs`, the commands of `main.rs` | `Send`, `Deliver`, `Receive`, `TakeAck`, `Lose`, `Reconnect` |
| `Listener` | `src/scripts/listener-openclaw.ts` | per envelope and per task one action for each stretch without an await; `Crash`, `Start`, `Resume...` |

`CspProtocol` and `FrameStream` instantiate `FrameDecoder`; `CspProtocol`
instantiates `PayloadChannel` for the refinement. `ContactTransactions`,
`IncomingMessage` and `Bridge` stand on top of each other the way the code does,
each with the layer below reduced to what it promises: in `IncomingMessage` a
contact transaction is the step in which it commits, in `Bridge` the chat server
protocol is a queue of payloads and a counter of frames, and the incoming task
is its lookup and its end. `MessageExchange` fills in what these leave out, the
encoding, and reduces the contacts in turn. `D2dRendezvous` instantiates
`FrameDecoder` once more and `NominatedChannel` for its refinement.
`RemoteSecretMonitor` runs next to `SetupTasks`, whose token it monitors and whose
servers it shares. `MC*` modules only give constants their values, except that
`MCD2mProtocol` also evaluates the readers and writers over small buffers.

### How state and actions correspond to the code

* **CspProtocol.** `state` and `decoder` are the enum `State` and its decoder
  fields, `csn`, `ssn` and `sck` the `SessionCipher`. A message on the stream is a
  sequence of *units*, one for each byte, of which the length and the position
  matter; a frame is *intact* if it holds the units of one message. A box is its
  nonce and content, and opens under just that nonce. Each poll action covers the
  whole of `poll` in that state with its error returns; an error replaces the state
  (`poll_state`), as `std::mem::replace` does. The server may choose any key and
  cookie, may repeat a box and may close.
* **ContactTransactions.** `task[d].state` merges the states of the contact task
  with those of the begin transaction subtask it wraps. The two runs of the
  precondition are `PollInitOrTransactionRejected` and `PreconditionAfterAck`.
  `reflectId` is the D2X context's counter and, being `NoContext`, says that the
  device has none. Without context the task is done in its first poll
  (`StartUnlinked`). `inbox` and `outbox` are FIFO, the mediator answers in order.
* **IncomingMessage.** `PollInit` runs from the first poll to the first
  instruction that has to be awaited; what the code does in one poll is one action,
  assembled from operators named for the methods they stand for (`ProcessSender`,
  `CreateContact`, `UpdateContact`, `Ensure`, `HandleMessage`, `Acknowledge`).
  Decryption and decoding are the field `fault` of a message.
* **Bridge.** An action ends where a flow awaits. `next` is `next_instruction`,
  `writing` the frame handed to `write_all`, `buffer` what the protocol has
  decoded and not handed out, `current` the buffer of `read_line`. `End` is any
  reason for the `select!` to complete; a flow that has been dropped takes no step
  any more. `Restart` begins with the empty in-memory database.
* **D2dRendezvous.** `path[r][pid]` is a path of one role: its state, its decoder
  and the counters of its keys. A frame is the key and nonce it is sealed with and
  its content; the keys are named by the role and the ephemeral keys they come from,
  so a frame opens only under the keys that were mixed the same way. Operators named
  `Rid...` and `Rrd...` are the arms of the two `process_frame` implementations and
  return what the path becomes, sends and hands out. The first error ends the
  protocol of that end (`cause`), as its documentation demands of the caller.
* **D2mProtocol.** A datagram is a sequence of bytes and is decoded field by field.
  The function `PollDatagram` is the handshake and payload handling of `poll`, one
  datagram each. `runner` and `app` are the two tasks of the example at their
  awaits, `incoming` and `outgoing` the queues between them.
* **SetupTasks, RemoteSecretMonitor.** `exchange` is the request a task waits for
  with its result, `Pending` until a server answers. The monitor's polls are split
  by what the answer is, in the order of the `match`. `unconfirmed` counts the ticks
  since the last check that succeeded and is compared with the settings.
* **MessageEncoding.** Bytes are tokens: a word, a coordinate, an ID, a line break.
  Escaping, trimming, truncation and padding are modelled by what they do to those.
* **Listener.** `at[envelope]` says at which await its handler is, a record in
  `active` where a task is. The statuses of a request in the database, the finding
  of an approval and the group in memory and in the database are variables of their
  own. A failing call of the database, Gemini or the client takes the path of the
  `catch` that is nearest.

## 3. The runs

All runs take at most two minutes on two workers. `CHECK_DEADLOCK FALSE` is
given where the system stops by design: no more messages, tasks or lines within
the bounds.

| Run | What it asks | Bounds |
|---|---|---|
| `frame_stream` | Does every frame come out, whatever the cuts, with a reader that blocks for `required_length` bytes? | 2 frames, byte base 2, delimiter of 2 bytes: lengths 0 to 3, all contents, a length that does not fit |
| `csp_protocol` | Nonces, authentication, agreement of the two ends; refinement of `PayloadChannel` with its liveness | sequence numbers up to 5, so that they run out after the handshake and one or two payloads; 3 server keys, 2 cookies; hello of 2 units, so that it is cut |
| `contact_transactions` | Mutual exclusion, agreement, no overwriting, termination | 2 devices, linked or not, 2 contacts, one task each, one peer transaction, one fault |
| `incoming_message` | Exactly-once handover, no acknowledgement before it, level of the contact, no message stuck | 7 mailboxes of 3 messages, 3 address books, with and without multi-device, 2 faults, 1 foreign change |
| `bridge` | Order of frames, acknowledgements across restarts, order of lines | 3 scripts of 3 lines, 2 messages, 2 processes, 1 echo, 1 fault |
| `bridge_answers` | Every message and echo request is answered while the process runs | 1 script, 1 process |
| `d2d_rendezvous` | Unique nonces through the change of keys, one path for both ends, no failure without a cause; refinement of `NominatedChannel` | 2 paths, either end the nominator, counters up to 4, 1 frame of the upper layer each way, 1 frame repeated or astray |
| `d2m_protocol` | Payloads once and in order in both directions, the lock of the group, progress of runner and app | server versions below, in and above the range, queues of 1, 1 push of 5 forms, 3 malformed datagrams, 3 ticks of the timer, 1 early call |
| `envelope_intact` | Is the envelope of a reflected message handed out as it was sent? (violated) | the same, nothing pushed |
| `remote_secret` | One identity per key, results that match the servers, locking in time, not too early and for good | 3 tasks, 7 refusals, 2 monitors, intervals below and above their range, limits 0 and 1, 7 ticks without a confirmation |
| `listener` | Places in the task queue, receipts, repeated deliveries, resumption | 2 messages, 3 deliveries, 6 scenarios, one of them an echo that comes twice, 1 place, 1 exit, 1 failing call |
| `message_exchange` | Is what is handled what was meant; nicknames, receipts, no message stuck | 11 bodies, 4 changes of the nickname, 5 raw commands, 19 payloads of other clients; up to 3 messages, 2 paddings, 1 lost connection |

The configurations that no run lists check statements of the repository that the
code does not keep (below). TLC finds each of them violated in a few seconds:
`tlc -config MCCreateFilter.cfg MCContactTransactions`, and in the same way the
others with the module their constants belong to. Where a configuration names several
statements, `tlc -continue` reports each of them.

**Why the bounds are enough.** The interesting cases are boundaries that small
numbers reach: the empty and the longest frame, a delimiter cut in the middle, the
last sequence number, two devices that ask at once, a task rejected and asked
again, a message delivered a second time under each state the first delivery can
have left. A second device suffices for the transactions since the mediator treats
all others alike, and one peer transaction between the two preconditions makes the
second one fail. Two faults let a redelivery fail too. Two paths are what a race
needs, and one stray frame meets every state of the path it arrives on. Queues of one
place fill as soon as two payloads come at once, one place in the task queue is full
with one task, and two envelopes interleave at every pair of awaits. A limit of one
failed check distinguishes the limit from the check after it. The counters behind
bounds are `MaxFrames`, `MaxTasks`, `MaxPeers`, `MaxFaults`, `MaxChanges`,
`MaxEchoes`, `MaxRuns`, `MaxUlp`, `MaxStray`, `MaxPushes`, `MaxTicks`, `MaxEarly`,
`MaxMonitors`, `MaxUnconfirmed` (where the count stops, above every limit it is
compared with), `MaxCrashes`, `MaxFailures`, `MaxMessages` and `MaxLosses`; `MaxSeq`,
`MaxSn`, `MaxTtl` and `MaxReflectId` are not bounds but widths of the code's numbers.

**Fairness.** Only what the code or its environment does by itself is fair: in
`FrameStream` the reader's loop; in `CspProtocol` the caller that adds what arrives
and polls; in `ContactTransactions` devices and mediator that handle what they have
received, and the restart of the connection of a task that failed; in
`IncomingMessage` the same, with the server handling acknowledgements; in `Bridge`
the flows (the runtime polls what is ready, requests are answered or time out) and
a server that reads; in `D2dRendezvous` ends that read and process what has arrived
and a nominator that nominates a path that awaits it; in `D2mProtocol` the runner, the
app and a mediator that reads; in `RemoteSecretMonitor` the caller's loop, the end of
a request within its timeout, and time; in `Listener` the event loop, the supervisor
that starts the process again, and requests that end; in `MessageExchange` all but the
loss of a connection. In these five the fair steps are one disjunction: either their
behaviours are finite, so that whatever stays enabled happens in the end, or, in the
monitor, the steps follow one another in one loop. New tasks, messages, lines, faults,
peers, a leader change and the end of a process, a blocked secret or a tick of the
example's timer are never fair, so no liveness property relies on them. Weak fairness
suffices everywhere: no step that is owed is disabled again and again.

### What holds, in a few words

* The decoder's two computations of `required_length` never reach past the frame
  in progress, and nothing behind a frame is lost (`RequiredStaysInFrame`,
  `BytesConserved`).
* The client's nonces are `(CCK, 1), (CCK, 2), ...` without a gap, and no server
  can seal under one of them, since a login is never made for a server whose cookie
  is the client's (`NonceUnique`, `LoginOnlyToKnownServer`).
* Transactions exclude each other, and the second run of the precondition is what
  makes `UpdatesKnownContact` and `CreateNeverOverwrites` true. Devices agree
  unless a connection broke off between reflecting and storing (`Converge`, which
  names that exception).
* A wanted message is handed over once and never acknowledged before
  (`HandledOnce`, `AckedIsHandled`). One retry is enough to get the contact's level
  right, so the error after three retries is never met (`RetriesOnce`).
* The echo response that takes the slot of the next instruction neither overtakes
  nor loses a frame (`FramesConsecutive`).
* The rendezvous ends never use two paths, and never seal twice under one nonce,
  whatever a path repeats; the handshake fails on no path that delivers what was sent
  on it (`ChannelSpec`, `NonceUnique`, `NominationLearnt`).
* A datagram that finds the mediator protocol in an earlier state waits for the later
  one, and all settles unless runner and app wait for each other (`PayloadsArrive`,
  `Settles`).
* Lost answers tie no key to two identities; the storage is locked within
  `limit + 1` checks and their timeouts, stays locked when the secret stays blocked,
  and an outage shorter than the settings say is survived (`IdentityConsistent`,
  `SecretGuarded`, `BlockedStaysLocked`, `OutageTolerated`).
* Across exits and failures, a read receipt is only sent for a logged message, or one
  of ECHOECHO, which is not answered; a request that is stored ends
  (`RedeliverySafe`, `RequestsEnd`).
* All bodies but two forms of the location and forward security envelopes, which the
  library does not open (numbers 19, 20 and 24), arrive as they were meant, with the
  nickname and the receipts their sender asked for (`EndsAgree`, `NicknameFollows`).

### Where the code and its own words disagree

`findings` in `PROJECT.json` quotes the lines. One of the statements is checked by a
run, the others by the configuration named here; three are read off the model.

| | What the code does | Shown by |
|---|---|---|
| 1 | `create.rs` keeps, of the contacts to create, those that **exist**: a create task with multi-device never creates what it was started for | `MCCreateFilter` |
| 2 | A message whose **reflection** fails is in the conversation already; delivered again it is discarded as a reused ID and acknowledged | `MCAckedAgain` |
| 3 | The web-session-resume branch for `*3MAPUSH` acknowledges without storing the **nonce** | `MCAckedAgain` |
| 4 | `AddContacts` whose identities are all known leaves its text in `current_line`; the **next line** is appended to it and dropped | `MCKnownContacts` |
| 5 | A lookup of the standard input loop **overwrites** the contact that the receive flow created meanwhile | `MCKnownContacts` |
| 6 | The nominee takes two frames in one chunk for an **oversized** one | `MCFramesWithinLimits` |
| 7 | A frame a nominator does not expect leaves its path `Invalid`, from inside a match that must not fail | the early return in `RidProcessFrame`, `RrdProcessFrame` |
| 8 | Frames on a path that was **not nominated**, which a nominator shall keep open, are errors | `AddChunks` |
| 9 | `Reflected::decode` skips one byte too many: the **envelope** loses its first | run `envelope_intact` |
| 10 | The example's app may begin a **second transaction** and wait for its own lock | `MCPingPong` |
| 11 | The example's runner and app may **wait for each other** | `MCPingPong` |
| 12 | The **documented timeout** of the monitor is one check, and one timeout for each, too short | `MCDocumentedTimeout` |
| 13 | An **envelope** queued while the session gets ready is never processed | `MCQueuedIsProcessed` |
| 14 | A process that exits between receipt and request leaves the question **unanswered** | `MCReceiptedIsAnswered` |
| 15 | Requests the process is working on are **resumed** too, and answered twice | `MCResumedAfterRestart` |
| 16 | Two **approvals** of one finding may both go through | `MCTwoAtOnce` |
| 17 | The **members** of a group in the database may be older than those in memory | `MCTwoAtOnce` |
| 18 | One failing notice abandons all other **resumptions** to the next start | `ResumeFails` |
| 19 | A **location for a group** is sent as one for a contact and cannot be decoded | `MCGroupLocationArrives` |
| 20 | A location's **name** is not escaped, or is dropped; a literal `\n` of its address becomes a line break | `MCChangedOnTheWay` |
| 21 | `SendRaw` sends the **nickname** in clear to everyone | `MCChangedOnTheWay` |
| 22 | A long nickname is cut inside a **character**, and the message discarded by the receiver | `MCLongNickname` |
| 23 | A blank nickname becomes an update to the **empty** one | `MCChangedOnTheWay` |
| 24 | A **forward security envelope**, which a test expects to be discarded, is handed over unopened | `MCChangedOnTheWay` |

Also worth knowing, though nothing in the repository says otherwise: a payload too
large for a frame has spent its sequence number before it is refused, so that the
server can open none of the later ones (`CreatePayload`); a close-error is ignored
and the bridge goes on sealing frames; a message printed and not yet acknowledged
is printed again by the next process, whose database is empty.

## 4. The proofs

Each theorem holds for all values of the constants that satisfy the assumption its
module names: any number of devices, messages, keys, tasks and faults, any width of the
counters. For every invariant that is not inductive the module states the stronger one
that is, which TLC was given first. A proof that a step preserves it has one step or
lemma for each action.

### The chat server protocol

From `CspAssumption`, which asks that the counters hold more than 2: the handshake
itself spends two sequence numbers of each end, and the code's are 64 bits wide.

`CspProtocolProofs`:

* `TypeCorrect`: `Spec => []TypeOK`. `TypeOK` is inductive with one addition, that
  a connected server has a cookie and has spent its first two sequence numbers.
* `NoncesUnique`: `Spec => []NonceUnique`. `NonceUnique` is not inductive; `NonceInv`
  adds where the nonces come from: `sealed[i]` is the nonce of cookie `CCK` and
  number `i`, its length follows `csn` in the states that seal, all the server's
  nonces carry its cookie, and no login for the cookie `CCK` is on its way, which is
  what makes a connected server's cookie another one.
* `LoginsToKnownServer`: `Spec => []LoginOnlyToKnownServer`. `LoginInv` types the
  stream and the decoder's buffer with `OwnUnits`, the units whose hello names the
  key and cookie the server has chosen; the server says hello once, while both are
  still empty.
* `ErrorStaysFinal`: `Spec => ErrorIsFinal`, from the guards alone.

Its first lemmas say that encoding, cutting and decoding stay within the types
(`EncodedType`, `TakeDelimiterType`, `AfterNextType`, `PartsType`, `AfterNextParts`).

The last two need the stream in order:

* `ConnectionLosesNothing`: `Spec => []NothingLost`. Each unit of the server's stream
  has a place, its message and its index there. By `Stream`, what the client has not
  read yet, its buffer and the connection behind it, is what the server sent from
  `Read` on, however it is cut, up to the first box that a misbehaving server repeats
  (`Following`); a hello that is not authentic makes the client fail (`BadHello`).
  `ServerPhase` and `ClientPhase` tie the places to the states and sequence numbers of
  the two ends. `Upward` says the like of the payloads to the server.
* `ImplementsChannel`: `Spec => Channel!Init /\ [][Channel!Next]_(Channel!vars)`, the
  safety part of the refinement of `PayloadChannel`.

### The contact transactions

`ContactTransactionsProofs`, from `TransactionAssumption`: any number of devices, linked
or not, of contacts, tasks, peers and faults.

* `TransactionInvariant`: `Spec => []TransactionInv`; from it `TypesAreKept`:
  `Spec => []TypeOK`.
* `TransactionsAreProtected`: `Spec => []TransactionsProtect`.
* `DevicesConverge`: `Spec => []Converge`.
* `TasksStoreSafely`: `Spec => StoresSafely`.

`TransactionInv` has three parts on top of the types. `PhasesFit`: for each state of a
task, how far its request has come: in the outbox, or answered by the one response in
the inbox, in front of which or behind which no reflected message may stand. It gives
mutual exclusion, and that a device that commits has applied all that was reflected
before. `ReflectedFits`: `EndsIn` is what a contact will be once an inbox is applied;
there is one set of contacts that all linked devices will *know*, what is reflected is
about these, and each update in an inbox finds its contact. `Agreement`: unless a
transaction broke off, there is one `group` of values with which all linked devices
end. A committing device counts with its batch stored already, and a contact it is
still to reflect does not count, so that the step that reflects a contact for the last
time moves the group for all devices at once (`ServeReflectKeeps`). `Kept`, the filter
of the stores and of a lost connection, is a recursive function; that it has a solution
and which elements it picks is proved by induction (`KeptIsDefined`, `KeptPicks`).

### The incoming message task

`IncomingMessageProofs`, from `IncomingAssumption` (any messages, contacts, blocked and
registered identities, any number of faults and changes):

* `IncomingTypes`: `Spec => []TypeOK`.
* `HandedOverOnce`: `Spec => []HandledOnce`. The code reads whether a message ID is
  used in one poll and writes it in a later one. `HandledInv` says why that is safe
  for one task at a time: every message handed over has its ID in the conversations,
  and while a task waits for its contact the ID of its message is not among them.
* `AckedWasHandled`: `Spec => []AckedIsHandled`. By `AckedInv` the nonce of a wanted
  message is stored, and the message reflected, only once its ID is in the conversations,
  and the lookup cache and the contacts never say of its sender what would make the task
  drop it. Each method *protects* the message: it puts it into the conversations, or
  leaves nonces and acknowledgements alone and does not go on to reflect it.
* `LevelStaysAdjusted`: `Spec => LevelAdjusted`, from its two halves.
  `OneRetryIsEnough`: `Spec => []RetriesOnce`; by `RetriesInv` a retry asks for a
  direct contact, which is what it finds in the step it stores it in.
  `HandedOverFromDirectContact`: `Spec => DirectWhenHandled`.

The argument goes through `Outcome`, the three things a poll can do for its message
(end quietly, hand over and end, wait for the contact): one lemma for each method of
the task shows that it is an outcome, `OutcomeTypes` and `OutcomeKeeps` that every
outcome keeps the invariant.

### The bridge

`BridgeProofs`, from `BridgeAssumption` (any scripts, messages and bounds):

* `FramesStayConsecutive`: `Spec => []FramesConsecutive`. Over the *pipeline* of
  frames (on the wire, being written, next), sealing appends one, a write moves one
  along and the server takes the oldest; a frame is only sealed while the two slots
  are empty, which is what `MayPoll` is for.
* `AckedWasPrinted`: `Spec => []AckedIsPrinted`. `QueueInv` types the queues with the
  payloads that are *true*: an acknowledgement is one only of a message that was
  printed or that the user should not see.
* `LinesSentInOrder`: `Spec => []SentInOrder`. By `StdinInv` the IDs of what was sent, of
  what is in `current_line` or waits for a lookup, and of the lines to come follow each
  other.

### The stream of frames

The last part of `BridgeProofs` is about `FrameStream`, whose loop is that of the bridge,
from `StreamAssumption` alone: any base of the bytes, length of a delimiter and number of
frames. (Since the module extends both, the names in `FrameStream` are not those of
`Bridge`.)

* `FrameTypes`: `StreamSpec => []StreamTypeOK`.
* `FramesConserved`: `StreamSpec => []BytesConserved`.
* `RequiredIsSent`: `StreamSpec => []RequiredStaysInFrame`.

A length survives its delimiter (`LengthSurvives`), as it is not more than the delimiter
can hold (`RestFits`, against the recursion of `MaxLength`). Frames joined to a stream
can be taken off it in front and put on it behind (`JoinedFirst`, `JoinedLast`).
`BytesConserved` is not inductive: what it says of a decoder inside a frame holds of any
split of the same bytes. `Follows` adds that the length the decoder has taken is that of
the next frame, and holds of the decoder `next_frame_and_then` passes through between
its two halves as well (`TakeDelimiterFollows`); then the bytes the decoder holds begin
with that frame (`Cut`), and the frame it takes is the one the writer wrote.

### The rendezvous

`D2dRendezvousProofs`, from `RendezvousAssumption` (any number of paths, either end the
nominator, any width of the counters, frames of the upper layer that are not empty):

* `TypeCorrect`: `Spec => []TypeOK`.
* `NoncesUnique`: `Spec => []NonceUnique`. What an end sends on a path is decided by
  its position there (`FrameAt`, `SentInPlace`): the handshake is fixed, the nomination
  comes next, and the frames of the upper layer are numbered.
* `ImplementsChannel`: `Spec => Channel!ChannelSpec`, all of it. By `Genuine` nothing
  arrives that the peer has not sent, on some path, at some time; since a frame opens
  only under the peer's key and the path and number that are next, what opens is what
  the peer sent in that place, wherever it came from. `PathsFit` says how far a path is
  in each state, and that only the nominated path goes past the handshake. The theorem
  needs no fairness: `NominationLearnt`, the liveness of the channel, is checked.
* `NothingFails`: `Spec => []NoSpuriousError`, the safety half of `NominationLearnt`. By
  `Straight`, as long as nothing strayed, what a path has not read yet (the rest in its
  decoder and what is on its wire) is a run of the frames next in their places, up to
  the last the peer has sent: from a unit of a frame on, the frame is complete, and the
  next follows (`Continues`). It says so of each unit alone, as there is no induction
  over streams, and holds through `add_chunks` because it does not matter where the
  decoder ends and the wire begins (`MovedOver`, `DrainBefore`). So the frame that is
  taken is the one awaited (`NextRead`) and sealed with the key it is opened with
  (`OpensInPlace`). That a nominator never gets a frame on a path that awaits its own
  nomination needs that the nominee has learnt of no other path (`Agreed`,
  `NothingUnexpected`). TLC checked `Straight` and `Agreed` as invariants of the run.

### The mediator protocol

`D2mProofs`, from `D2mAssumption`: any versions, capacity of the queues and bounds, and a
mediator that pushes any payloads whose fields have the widths of the format, and any
datagrams that are no payloads:

* `TypesHold`: `Spec => []TypeOK`.
* `PayloadsComeInOrder` and `PayloadsDoArrive`: `Spec => []PayloadsInOrder` and
  `Spec => []PayloadsArrive`.
* `TransactionsHoldLock`: `Spec => []RunningHoldsLock`.

First the codec. An integer of any width is what its bytes say (`ToLe`, `FromLe`), and
each payload's datagram decodes to the payload, but for the envelope of finding 9:
one lemma for each kind, in both directions (`PollHello`, `PollInfo`, `PollLater`,
`RequestsDecoded`). Then the inductive invariant counts places. `Sent` is what the
mediator sends: the hello first, the info before all else, a malformed datagram
anywhere. By `Arrived` the datagrams the protocol holds, with those on their way behind
them, are what was sent from a place on (`Follows`), which is the number the handshake
has taken and the app has been handed; a poll takes the first of them, so that it finds
in each state what is meant for that state. It is not inductive without `Sent`: a
second info would be taken for a payload. `Requests` says the like of the other
direction: all that was created is, in order, what the mediator has received or is on
its way to it, with the one hello at a place before which there is only data for the
chat server. `Lock` follows the right to run a transaction from hand to hand: it is
with a `BeginTransactionAck` the app has not handled (`Unhandled`), with the app, or with
a `CommitTransaction` the mediator has not received (`Committing`), with one of these
only and once, and with none of them unless the mediator holds the lock for the client.

### The remote secret

`RemoteSecretProofs`:

* `SecretTypes`: `Spec => []TypeOK`.
* `IdentitiesStayConsistent`: `Spec => []IdentityConsistent`, from `SetupAssumption`. By
  `SetupInv` the state of a task decides which request it waits for, every answer on its
  way says what the servers did, and as long as a task has not asked for it (`NotAsked`)
  there is no identity for its key.
* `SecretStaysGuarded` and `OutagesAreTolerated`: `Spec => []SecretGuarded` and
  `Spec => []OutageTolerated`, from `MonitorAssumption`. By `MonitorInv` every failed
  check accounts for at least one interval and at most one interval and one request, so
  that the counter of failures bounds the time since the last success from both sides.

The assumptions state what the model has to be given: no refusal has the body of a
success, and the clock of unconfirmed ticks does not stop before the least time after
which the monitor may give up.

### The listener

`ListenerProofs`, from `ListenerAssumption` (any finite set of envelopes, any number of
deliveries, exits and failures):

* `ListenerInvariant`: `Spec => []ListenerInv`; from it `TasksAreServed`:
  `Spec => []QueueServed`, and `RedeliveriesAreSafe`: `Spec => []RedeliverySafe`.

`handleMessage` sends receipts at two places: for what it has logged, and for what
ECHOECHO sent, before it returns without logging it. So `RedeliverySafe` says that a
receipt is for a message of one of these two (`ReceiptMeansLogged`), and that nothing
ECHOECHO, the own identity or a ping sent is asked or answered (`LoopsPrevented`). For
the first, only an envelope of ECHOECHO comes to the second place (`EchoesPlaced`).

A task is known by its request and the number of the resumption it comes from, and
does not wait or run twice (`Distinct`), so that the count of the running tasks is right
when one is put in, moves on or ends. For the deliveries, the answers to a request and
the tasks that have not sent theirs are at most one more than its resumptions
(`AnswersFit`), and of a message that was logged only one delivery goes on (`LogsFit`).

### Messages end to end

The second part of `ListenerProofs`, from `EncodingAssumption` and `ExchangeAssumption`:
any identities, texts, coordinates, nicknames, padding and block size, any number of
messages and of lost connections.

* `ExchangeInvariant`: `AllLegible => (ExchangeSpec => []ExchangeInv)`.
* `MessagesIntact`: `AllLegible => (ExchangeSpec => []EndsAgree)`.
* `NicknameAnnounced`: `AllLegible => (ExchangeSpec => []NicknameFollows)`.

`AllLegible` says that every draft can be understood: text is UTF-8, a location has no
name without an address and neither holds what ends or escapes it, a group message has
a body that groups may have, and raw data is what its type says and no forward
security envelope. It is needed, since the code sends what the other end cannot read,
or reads otherwise (numbers 19, 20 and 24 of section 3). Payloads of other clients are arbitrary, except
that they ask to be queued and resume no session. The scenarios of the run are legible
(`ScenariosAreLegible`, an assumption TLC evaluates).

First, encoding and decoding: each kind of body comes back as it was (`LocationKept`,
`ReceiptKept`, `ContentKept` and the header of a group, `HeaderKept`), without its
padding (`PaddingRemoved`), and with the metadata (`PayloadRead`, `NicknameHeard`); so
whatever a draft is encoded as is read as it was meant (`AllUnderstood`). Then, the
delivery: payloads of the queue reach the receiver in their order (`OrderInv`), what was
delivered is on its way or done with (`DeliveredInv`), and nothing up to what was handed
on is handled again (`HandedInv`). So what is added is the newest of all
(`AddedIsNewest`), and order, receipts and nickname follow step by step.

### What is left to TLC, and why

* **Liveness** under fairness, and `ENABLED`: `EveryFrameArrives`, `TaskEnds`,
  `AllAcknowledged`, `Answered`, `NominationLearnt`, `Settles`, `BlockedStaysLocked`,
  `RequestsEnd`, `Arrives`, and of `PayloadChannel` the fairness part. The safety half of
  `NominationLearnt` is proved (`NothingFails`).
* **What recursion computes.** The library's induction theorems take an operator as a
  parameter, which the provers do not instantiate. Induction over a *set* of numbers
  does work: that every non-empty set of numbers has a least element follows from the
  well-foundedness of finite sets under inclusion (`Least`, `UpTo` of
  `ContactTransactionsProofs`), and this is how a recursive function is reasoned about.
  `D2mProofs` does so for the integers of `ByteReader`, `BridgeProofs` for the
  delimiters and streams of `FrameStream`, `ListenerProofs` for `Split`. No module declares a `RECURSIVE`
  operator.
* **Strings.** To the provers the tokens of `MessageEncoding` are values that differ
  if they are written differently; the encoding of characters in bytes is not modelled.

All safety invariants the runs check are theorems.

For the sake of the proofs a `CASE` has guards that exclude each other, or `OTHER`
(TLA+ does not say which of several true guards is taken), and filters whose result
matters are written as `Kept`.

## 5. Not modelled

Encryption and hashing: a box is its nonce, its key and its content. The encoding of
HTTPS requests, endpoints that no modelled task uses, configuration files, key types,
bindings, the command line and macros: data without a protocol. Back-pressure of TCP:
a connection takes every frame. Timeouts of single requests: a request fails or is
answered, except in the monitor, where they count. In the bridge, the branches for
multi-device, which are `todo!()`, and the handshake flow, of which `Bridge` starts
with the result. In the incoming task, group messages beyond their contact and
blocking rules. In the transactions, scope and time to live, which the code passes on.
In the rendezvous, the init data of the two ends and the measured round trip times. In
the setup tasks, the credentials of the work server. In the listener: setup and
name of groups, media and transcription, Telegram, the IPC server, reminders and
status, the cache of contacts, the sending of the health check ping and the upgrade
check; the other scripts are single calls. In the encoding, the bodies the library does
not encode itself are opaque bytes, as they are for the code.

## 6. The plan

Done: the path of a message from the standard input or the stream to the conversation,
the protocols to the mediator and to another device, the remote secret, and the
listener; the safety invariants the runs check are proved of all modules. What the
proofs leave to TLC is liveness (section 4).
