# SuperShare in TLA+

SuperShare shares one keyboard, mouse and clipboard between machines: the
*server* captures its own input and, while the cursor is "on" the screen to its
right, sends it to a *client*, which injects it. These modules model the parts
of the Rust code where several tasks, connections, machines and runs of the
program interact. TLC checks them on small instances, and TLAPS proves the main
facts for every value of their constants. `PROJECT.json` maps every definition
to the lines it stands for.

## 1. The system

### Components

| Component | State | Operations | Modelled by |
|---|---|---|---|
| **Input capture** `ss-input/warp_capture.rs` | logical cursor, last reported position, frozen position; atomics `is_remote`, `exit_remote`, `has_client`; an event channel of 256 | one callback per device event, from a thread of its own | `WarpCapture`, `CursorOwnership` |
| **Sharing session** `main.rs` 187-380, 655-830 | nothing of its own but what it holds between two awaits; on the client the virtual cursor | forward events, receive return requests, follow connects and disconnects; on the client inject, enter, ask to return | `InputSession` |
| **Connection registry** `ss-network/server.rs` | `clients` and `pending_data`, keyed by device name; broadcast channels for messages and notifications | a task per control connection and one per data connection | `ServerRegistry` |
| **Forwarding** `main.rs` 236-380 | a read lock on `clients`, held over sends into bounded channels | one task for input, one for the clipboard | `Forwarding` |
| **Client connection** `ss-network/client.rs`, retry loop in `main.rs` | two connections, their channels, a backoff | connect, heartbeat, read, try again | `ServerRegistry` (connecting), `ClipboardTransfer` (the data reader), `AppLifecycle` (trying again) |
| **Clipboard sync** `ss-clipboard`, tasks in `main.rs` | per machine: last hash, remote hash, time of the last remote write, two channels; a reassembler | poll, suppress, forward, receive; cut in chunks and reassemble | `ClipboardSync`, `ClipboardTransfer`, `ContentDelivery` |
| **Framing** `framing.rs`, `protocol.rs` | a limit of 16 MB the reader enforces | read and write a frame | `Forwarding`, `ClipboardTransfer`, as far as the limit goes |
| **Pairing** `pairing/server.rs`, `client.rs`, tasks in `main.rs` | the PIN, its age, failures and lockout, shared by all exchanges; a channel to the configuration | one exchange per connection, at both ends; rotate, lock out, store | `Pairing` |
| **Configuration and trust store** `config.rs`, `cert.rs` | config.toml and copies of it; the CA, the server's certificate, the material of known servers | load, save, generate, store; by three tasks, over several runs of the program | `TrustStore` |
| **GUI runtime** command handler in `main.rs` | shared state, shutdown channels | start and stop the server, connect, pair, disconnect; retry | `AppLifecycle` |
| **GUI** `ss-ui` | a copy of the configuration | two buttons that send commands, one that saves | in `AppLifecycle` and `TrustStore` |
| **Pairing cryptography and certificates** `crypto.rs`, `tls.rs`, `certgen.rs` | none | calls into libraries | not modelled |
| **Screen layout** `boundary.rs`, `virtual_cursor.rs` | rectangles, a cursor | pure functions `main.rs` does not use | not modelled |
| **Legacy capture and injection** `capture.rs`, `inject.rs` | none that is used | one operating system call per message | not modelled |

### How they interact

    devices -> callback -channel-> forwarder -control connection-> client loop
                 ^  ^                  |     \-data connection---> client inject
                 |  |        (read lock on clients)
                 |  +-exit_remote- receiver <-data connection------/   (return)
                 +----has_client-- listener <-notify-- connection tasks
                                                        (write lock on clients)

    user -> clipboard -poll-> monitor -> forwarder -data connection-> ring -> reassembler
               ^                 ^                                                |
               +---- receiver ---+ suppress <-------------------------------------+

    buttons -commands-> handler -spawns-> server, listeners, PIN task, connection task
       ^                   |                 |
       +--- shared state <-+-----------------+      config.toml, certificates, material

Capture and tasks share three atomics and no lock. The control and the data
connection of one client are independent: either may be late, overtake the
other, or die alone. `BoundaryEnter` uses the first, everything else the
second. Connection tasks meet only in maps keyed by device name; the forwarders
hold one of these maps while they wait for room in a client's channel.
Clipboards are written first, and the monitor is told afterwards. Servers and
connections, once started, write the shared state without asking who else does;
the handler, the GUI and the task that records pairings save the configuration
from copies of different age.

### What is hard, and what makes each component correct

* Capture: the flags change between the callback's reads of them; the channel
  may be full; rdev clamps its accumulator. Correct: motion sent is motion
  made; a stroke acts on one machine; the cursor always comes home.
* Session: flags are read when an event is dequeued, not when it was captured;
  the two connections race. Correct: no stroke acts twice or swapped; control
  returns when asked for, and when the client is gone.
* Registry: attempts of one device overlap, fail half-way and are cleaned up by
  name. Correct: no entry without a task that will remove it, no device listed
  for ever, and no remote mode without a client.
* Forwarding: one lock, bounded channels and slow clients. Correct: who is being
  served stays registered; unless a client just stops reading, everybody gets
  the lock and every change is disposed of.
* Clipboard: a poll between write and suppression; rings that overflow,
  connections that break in the middle of a transfer. Correct: what is received
  is not sent back, loops end, what the user copies arrives, whole.
* Pairing: exchanges overlap and share the PIN and the lockout. Correct: both
  ends agree on the outcome, the lockout counts every failure, who is paired is
  recorded.
* Trust store: the process may end between any two halves of any two writes.
  Correct: what is found on disk belongs together, the CA is never replaced,
  what is recorded has its material.
* Runtime: a stop may overtake the start it is to stop; tasks outlive the
  command that made them. Correct: a stopped server ends; the button and the
  word "Connected" tell the truth; a lost connection is tried again.

The full list of hazards, each at its line and with the properties that watch
over it or the reason there is none, is in `PROJECT.json`.

## 2. Modules

**`CursorOwnership`** is the abstract specification of input sharing: the
devices belong to "local" or "remote"; they go to the client only while one is
present; they return only for a request or because the client is gone, and then
they do return as long as there is input.

**`WarpCapture`** is the callback. Its two reads of the shared flags are two
steps: `Grab*` takes a device event and runs the prologue that may leave remote
mode (lines 131-150); the `Handle` actions are the `match` on the event type:
`MoveRemote`, `MoveEnter`, `MoveLocal` for `MouseMove`, `InputRemote` and
`InputLocal` for buttons, keys and the wheel. `RequestExit`, `SetHasClient` and
`Receive` are what other tasks do, at any time. Abstractions: only the x axis
(y decides nothing; a vertical motion is a raw motion of 0); columns are
integers; a *stroke* is one press and one release of a key or mapped button, so
that "acts on one machine only" can be said by sets; unmapped buttons are
`OtherStrokes`; a mouse has a wheel or not. rdev's accumulator (a sum of raw
motions clamped to the screen, as `docs/bugs-and-fixes.md`, bug 10, describes
it) and the X server's cursor are external. Each motion sent to the X server
moves the real cursor by the raw motion.

**`InputSession`** extends it with everything between the channel and the
client: `ForwarderTake`/`ForwarderSend` are split where the task awaits;
`ClientDelta`, `ClientInput`, `ClientEnter` are the client's two tasks;
`ServerReceive` and `Listener` set the flags; `Connect`, `Disconnect` and
`DataLost` are the connection events. One client device is modelled; the
registry behind it is a flag. A new connection discards what the old one still
carried.

**`ServerRegistry`** follows every connection *attempt* of every device through
five little programs: the client's `connect()` (`Ask`, `Fail`, `ConnectData`,
`Lose`), the network (`Break`), the server's data task (`AcceptData`), its
control task (`AcceptControl`, `Register`/`GiveUp`, `Announce`, `StopReading`,
`Remove`, `Leave`: one step per await or lock) and the listener of `main.rs`.
Ten-second and fifteen-second timeouts are steps that may happen at any time.
The polling loop of `Register` takes either outcome when it can. The code holds
the lock of `pending_data` while `Register` waits for that of `clients`; the
model lets several attempts be at that point, which only adds behaviours.
`connected_clients` is the set of the names on the list in the window: the
listener adds no name twice and removes every copy.

**`Forwarding`** is the two forwarding tasks against the lock of the `clients`
map. The lock is tokio's, which is fair: `queue` holds the tasks that wait for
it, in order, and `LockRead`, `Register` and `Unregister` are grants at its
head. Under the read lock a forwarder goes through the clients (`ForwardInput`;
`Serve`, then `ForwardMessage` per message), waiting for `Room` in each one's
channel; a client whose writer task has ended makes the send fail at once
(`ForwardError`, or the input's `ForwardInput`). `Read` and `WriteFails` are the
two ends of a connection. A peer reads; has `failed`, its reading task ended by
a frame above the limit; is `asleep`, keeping its connections and reading
nothing; or is `lost`. The room in a channel and what TCP buffers are one
capacity. Registration is a client's only attempt: overlapping ones are in
`ServerRegistry`.

**`ClipboardSync`** has, per machine, the monitor (`Poll` and `HandOver`,
`Mark`, `Expire`), the forwarding task (`Forward`) and the receiving task
(`Write`, then `Tell`). A poll that detects nothing changes nothing and is no
step. A content stands for its hash; an image is one content, so its chunks are
not seen; the system clipboard never fails. Broadcast channels drop their
oldest entry when full (`Arrive`), mpsc channels wait. The history variables
`had`, `origin`, `unshared` and `copies` record what users did and appear in
the properties and in the guard of `Copy`, in no guard of the program.

**`ClipboardTransfer`** opens the step `ClipboardSync` takes in one: `Transfer`
is `prepare_transfer`, `Handle` with `Begin`, `AddChunk` and `Finish` the
reassembler, and between them a `stream` per direction and client (sender,
channel, TCP), and a `ring` per machine, the broadcast channel of the reader,
which drops its oldest entries. The mouse shares the client's ring
(`ReadInput`). Connections come and go; the reassembler stays. An image stands
for its pixels, their hash and its dimensions, which travel in different
messages, so that a mixture shows. `lagged`, `mixed`, `spoiled`, `owed` and `got`
are history: a ring has dropped something, uploads of two clients have met in the
server's one reassembler, a wrong content has come out, what a client has yet
to get, in order, and what it got last.

**`ContentDelivery`** is the abstract specification of this for the clients: what
the server sends a client comes out in that order, whole and once, and is lost
only with the connection, which takes all of it along; a client that has fallen
behind may miss contents, and get some that are not whole, but none that was not
sent, and none out of order. Messages, chunks, rings and reassemblers do not
occur in it.

**`Pairing`** runs `pair_with_server` and `handle_pairing` against each other in
*slots*, connections that may be used again, so there are boundedly many
exchanges at once and any number over time. The server's step is what it does
between two awaits: `Accept` (the lockout), `StartExchange` (the PIN),
`WrongPin` or `Provision`, `Record` (`record_success`), `Report` (the channel to
the configuration). PINs are seen only through what equals what: who has the
present one, and which slots have the same at both ends; a random new PIN is
taken to equal no old one. `ServerFails` and `ClientFails` are every time-out,
broken connection and failed call. SPAKE2 and the cipher are their contract: the
confirmation opens exactly if the PINs are the same.

**`TrustStore`** is one machine's disk over several runs of the program. A file
is absent, torn or whole. Three writers (the command handler, the GUI, the task
that records paired clients) have lists of files to write (`todo`), and each
write is two steps, `Open`, which empties the file, and `Fill`; over the same
file two writers may leave a mixture. `Missing` is `ensure_server_ca`;
`StartServer`, `Resolved` and `StartFails` are the certificates' part of a
start; `Pair` and `Paired` are what follows a pairing on the client,
`Persist` on the server; `GuiSave` writes the GUI's copy. `Exit` ends the
process anywhere, `Launch` loads what is left, `Delete` is the user who has the
certificate made anew. Keys, certificates and material are numbers, one per
generation. A server's names for the files of one address are distinct; so are
those of different addresses (the code replaces punctuation, so some addresses
share a name: not modelled).

**`AppLifecycle`** is the window: `Press` puts a command in the bounded channel
as far as the shown state offers it; the handler's steps (`StartServer`,
`MarkRunning`, `StopServer`, `ConnectClient`, `PairAndConnect` with `Paired` or
`PairingFails`, `DisconnectClient`) take one command after another and are
split where the handler awaits; `Bind`, `OpenPairing`, `ReportFailure`,
`ListenerEnds` and `Tick` are the tasks of a server, `Connected`, `FirstFails`,
`RetryFails`, `Lost` and `Retry` those of a connection. The shutdown channel is
tokio's broadcast: who subscribes late misses the message, but sees that the
sender is gone.

`InputSession`, `ServerRegistry`, `Forwarding` and `AppLifecycle` look at the
same server at different grains: a session's client is a flag, the registry has
the attempts behind this flag, `Forwarding` the lock of the registry's map, and
`AppLifecycle` the life of the server all of this is in. `ClipboardTransfer`
opens one step of `ClipboardSync`. Composed formally are `InputSession` over
`WarpCapture`, `WarpCapture` under `CursorOwnership`, and `ClipboardTransfer`
under `ContentDelivery`.

The `MC*` modules give constants their values. Definitions marked *Mutant* are
plausible bugs, one for each property; nothing uses them, and putting one in the
place of the definition after it makes TLC report the property. They show that the
properties can fail.

## 3. Runs

| Run | Checks | Distinct states |
|---|---|---|
| `capture` | `PrevIsReported`: the delta of the next event is a difference of two reports; `LocalStaysLocal`: no stroke is both passed through and queued; `NoPhantomDelta`: a delta has the direction of the motion and is no longer; `Ownership`: `CursorOwnership` with its liveness | 548,456 |
| `session_safety` | `OneMachine`: a press or release acts on one machine, through connects, disconnects and lost connections; `StrokesStayFresh`, which makes that inductive; `NoSwappedStroke`: a release is never injected before its press | 1,599,944 |
| `session_return` | `ComesHomeWithoutClient`, `ReturnGivesControlBack`: remote mode ends when the client is gone and when it asks for it | 378,384 |
| `registry` | `EntryHasItsTask`, `DataIsHandedOutOnce`, `NoGhost`: no name stays listed without a departure to come; `AllGoneIsNoticed`: when everybody is gone the flag says so | 140,818 |
| `forwarding` | `ServedAreRegistered`: no client is removed under a forwarder that serves it; `QueueMatchesStages`; `LockIsServed`, `ForwardersComeBack`: nobody waits for ever unless a client just stops reading | 55,401 |
| `clipboard` | `SettledIsNotEchoed`: once the monitor was told, nothing sends a received content back; `OneCopyEndsSilent`; `FreshCopyIsShared` | 132,415 |
| `transfer` | `TransfersComeWhole`: what comes out is what was copied; `NothingIsLost`: what was sent comes out; `Delivers`: `ContentDelivery` is implemented, so it comes out in order, once, and nothing of it on a later connection | 1,510,423 |
| `pairing` | `LockMatchesFailures`: the lockout's counter and its clock agree; `GuessesAreBounded`: overlapping exchanges pass the limit of failures by their number at most; `PairedWasProvisioned`, `BadPinWasWrong`, `RepliesMatch`: the client is told what happened; `SpentPinIsGone`; `PairedIsRecorded` | 31,314 |
| `store` | `NoMixedMaterial`: certificates and keys on disk belong together; `StartsUnlessCut`: a start finds certificates it can use; `KnownIsBacked`: a recorded server has its material; `RecordsSurvive`; `CaIsKept` | 765,479 |
| `lifecycle` | `ButtonTellsTheTruth`; `StoppedServerEnds`: whatever the stop overtakes; `PinKeepsComingUp` | 155,638 |
| `lifecycle_connections` | `ShownConnectedIsUp`; `KeepsTrying`: a connection that was up is tried again for ever | 25,510 |

One run shows that the program does not do what a document says:
`store_KnownServerIsKept`. "Save Configuration" writes the copy of the
configuration the GUI was given at the launch, over what the command handler
has recorded since; a server that was paired before the user saves is unknown
after a restart, and asks for a PIN. The specification of pairing says that a
client that has paired is not asked again.

### Disagreements met on the way

These are visible in the models, as behaviours, but are no property of a run:

* The logical cursor and the real one part at every crossing, because the
  motion that crosses is counted and then suppressed; the comment at
  `warp_capture.rs:72` says they stay in sync. And deltas are not raw, as
  `input-sharing/spec.md:4` has it: the accumulator is clamped to the server's screen.
* If only the data connection dies, the client stays registered and there is no
  way out of remote mode until the control connection ends too;
  `docs/bugs-and-fixes.md:137` asks for an unconditional one.
* A client that is back within the heartbeat timeout of its dead connection
  loses its new entry to the old task's clean-up, and stays connected but
  unreachable. The events may cross as well, and `has_client` then stays set
  with no client.
* Copy A on one machine, B on the other, A on the first again: A equals
  `last_hash` and is not sent (`monitor.rs:67`).
* A client that just stops reading, a suspended laptop, fills its channel, stops
  both forwarders, and is never removed, because its removal waits for the lock
  they hold: `network-transport/spec.md:61-63` declares a connection dead that
  has been silent for 15 seconds.
  This is why `LockIsServed` and `ForwardersComeBack` have a premise.
* StopServer closes the ports and clears the shown list, but disconnects
  nobody, and Disconnect changes what is shown and no connection
  (`gui-runtime-controls/spec.md` says they do).
* The server does not pass a client's text on to other clients
  (`clipboard-sync/spec.md:18`); a text above 16 MB ends the receiver's reading
  task; a headless client does not reconnect after a loss
  (`network-transport/spec.md:64`).

### Bounds, and why they are enough

* `capture`: three columns (the left end, the column next to the right end where
  crossing already happens, and the right end); motions -2, 0, +1, so
  that motions can be cut short at either end and take several events; a
  channel of one slot, full after every send; one stroke, as strokes do not
  interact.
* `session_safety`: three columns on each screen and motions that cross them
  whole; one stroke gives one press and one release in flight at once, which is
  all `NoSwappedStroke` relates; all channels hold one message, so senders wait
  often. `session_return` has single steps instead and no strokes: keys take no
  part in who has control, except as events that let the callback run, as
  motions do.
* `registry`: two attempts of one device overlap in every way, and a second
  device makes the list and the flag differ from one name. `NotifyCap`: the
  listener would end if it lagged 64 events behind; `NoLagAssumption` keeps the
  model below that.
* `forwarding`: two clients, so that one can be slow while the other is served,
  and both can wait for the lock; channels of one message, full after every
  send; a change of two messages, so that a client can go in the middle of a
  transfer, and one above the frame limit. Clients come and go any number of
  times: nothing is counted.
* `clipboard`: three copies are the fewest for content, other content, first
  content again; one content is too large to be sent. In-flight contents never
  exceed the copies, so `NetCap = 3` loses nothing; `QueueCap = 1` makes the
  monitor and the receiver wait.
* `transfer`: two images of two chunks each can interleave, be cut, and follow
  one another in one reassembler; one text interrupts them, another is above the
  frame limit; rings of two messages overflow within one transfer. Two copies
  are what it takes for two transfers to meet. Clients, and the images, are
  interchangeable, and no property of the run is a liveness property (`Delivers`
  is one of initial states and steps), so the symmetry is sound. `TypeOK` of this
  module is not among the run's properties: it is proved.
* `pairing`: two slots let any two exchanges overlap at any two steps; a third
  would add no state to share. Two failures lock, so a success can come before,
  between and after them, and with two slots the counter goes past its limit.
  The channel holds one record, so the second exchange waits for it.
* `store`: `MaxFresh = 4` things generated are a CA, two renewals and a pairing,
  or two pairings with one renewal; two ends of the process, one that cuts a
  first writing and one that cuts its repair. Files of different addresses have
  nothing in common but config.toml, so one address and one device are enough
  for what one writer can do to another's records.
* `lifecycle`: two starts, so that a stop and a new start can meet what the
  first left behind; a command channel of two, so that commands are lost, and
  handled long after they were given. `lifecycle_connections`: two connection
  tasks that write the same word, and one server.

Deadlock is checked in the runs of `WarpCapture`, `InputSession`, `Forwarding`,
`Pairing` and `ClipboardTransfer`. It is not where what users and networks do
is bounded, and the model may really stop: the registry's attempts, the
clipboard's copies, what the store generates and how often the program ends,
the starts and connections of the lifecycle.

### Fairness, and why the code justifies it

Weak fairness stands for "the runtime schedules every task that can run", per
task: the callback's thread, the forwarders, the receiver, the listeners, the
client's two tasks, each connection task, the monitors, the command handler.
`WF(CaptureGrab)` also says that the user keeps producing input, because remote
mode is only left when an event arrives; that is the code's design and part of
what `CursorOwnership` promises. Nothing is assumed of users' copies and
buttons, of clients' attempts, or of the network: connections may stay up or
break. `Expire` is fair because time passes, and so is `Notice`, the heartbeat's
timeout. In `Pairing` only what follows a successful exchange is fair. Strong
fairness is assumed in two places, of sends into tokio's bounded channels
(`Report`, `ForwardInput`, `ForwardMessage`): the channel serves waiting senders
in order, so who waits gets a place if places keep coming. The lock in
`Forwarding` needs none: its queue is in the model.

## 4. Proofs

The theorems hold for every value of the constants that the named `ASSUME`s
allow. Each proof module EXTENDS the module it is about.

**`InputSessionProofs`** is about both modules of input sharing. Of
`WarpCapture`, for every screen width, channel capacity, set of motions and set of
strokes: `TypeCorrect`; `PreviousIsReported`
(`PrevIsReported`); `DeltasAreReal` (`NoPhantomDelta`); `LocalInputStaysLocal`
(`LocalStaysLocal`); `ImplementsOwnership`: `Spec => Owner!Spec`, the safety part
of the refinement. The inductive invariant is `IInv == TypeOK /\ PrevIsReported
/\ StrokesAreFresh`. `NoPhantomDelta` needs `PrevIsReported`: a delta is a
difference of two positions, and only if both were *reported* is that difference
a clamped raw motion. It was exactly this that bug 10 broke. `LocalStaysLocal`
is not inductive: it says nothing of the event the callback holds, which goes to
one side or the other in the next step. `StrokesAreFresh` adds that this event
is new to both sides and that whatever was queued or passed through has been
typed. The refinement goes action by action: the prologue is `Leave`, `Discard`
or a stutter, `MoveEnter` is `Enter`, the rest of `Handle` stutters.

Of `InputSession`, with the sizes of the client's screen and of the channels as
further parameters: `ImplementsCapture`: `SSpec => Spec`, so the theorems above
hold in a session too; `SessionTypeCorrect`, which needs `EnterXAssumption`
because `BoundaryEnter` sets the client's cursor without a clamp;
`OnItsWayStaysFresh` (`StrokesStayFresh`); `StrokeActsOnce` (`OneMachine`);
`NoStrokeSwapped` (`NoSwappedStroke`). `OneMachine` speaks of the two ends, the
X server and the injected strokes, and a stroke between them may be anywhere.
`StrokesStayFresh` follows it from the channel through the forwarder's hand and
the data connection to the client; only `CaptureHandle` and `ForwarderTake` can
disturb it, and for all other actions one lemma suffices, that nothing new is
under way. The action property `NoSwappedStroke` needs the order on that way:
`PressFirst` says, for each stroke, that no release is ahead of its press,
neither within the channel nor within the connection, nor with the press in an
earlier one of the three places than the release. A full channel drops what is
new and a lost connection all it carried, so a press can be missing, but nothing
overtakes it.

**`PairingProofs`**, for any number of slots, limit and capacity: `TypeCorrect`;
`LockAgrees` (`LockMatchesFailures`); `GuessesBounded` (`GuessesAreBounded`);
`RepliesAgree` (`RepliesMatch`) and from it `PairedProvisioned`
(`PairedWasProvisioned`) and `BadPinWrong` (`BadPinWasWrong`); `SpentGone`
(`SpentPinIsGone`). `RepliesMatch` is the inductive form of the two properties
about the client: what it will conclude is decided by the replies on their way.
`GuessesAreBounded` is proved by counting: an exchange is only let in while
`failures < MaxFailures`, which is what `LockMatchesFailures` says of an open
lock, and from then on every failure takes one exchange away.

**`ServerRegistryProofs`**, for any devices and any finite set of attempts:
`TypeCorrect`, which includes that the listener never lags, by counting
(`EventsAreCounted`: the events on the channel are at most one for each attempt
that was announced and one for each that was mourned); `EntriesHaveTheirTasks`
(`EntryHasItsTask`); `DataHandedOutOnce` (`DataIsHandedOutOnce`), from
`SendersStand`: a sender is waiting or handed out only if a data task has put
it there; `NobodyStaysListed` (`NoGhost`), from `ArrivalsAreMourned`: an arrival
the listener has yet to see has a departure behind it on the channel, or one
still to be sent. `NoGhost` alone is not inductive, for the listener puts names
on the list long after the tasks that sent them have moved on.

**`ForwardingProofs`**, for any clients, transfers and capacity: `TypeCorrect`,
`ServedRegistered` (`ServedAreRegistered`) and `QueueMatches`
(`QueueMatchesStages`), from `IInv`, which joins these with `CarriesChange`: the
clipboard forwarder has messages exactly for the client it serves, and a change
from asking for the lock until it gives it back. That nobody is removed under a
forwarder follows from the grant to a writer, which needs `readers = {}`; that
the queue holds nobody twice needs the stages, which say who may ask.

**`ClipboardSyncProofs`**, for any clients, contents and capacities:
`TypeCorrect` and `SettledNotEchoed` (`SettledIsNotEchoed`), from `MarkFollows`:
the hash of what a peer has put in the clipboard is the last on its way to the
monitor, or the one the monitor suppresses. Reading the queue from its other
end would not do: older hashes are still before it.

**`ClipboardTransferProofs`**, for any clients and contents, images of any
number of chunks and rings of any capacity: `TypeCorrect`; `TransfersAreWhole`
(`TransfersComeWhole`); `NoneIsLost` (`NothingIsLost`); `DeliversContents`
(`Delivers`): `Spec => Delivery!Spec`, the whole of the refinement. That a
transfer comes out whole is a matter of three places, and of transfers that may
be cut in each. `StreamsInOrder`: in a stream each message after the first opens
a transfer or goes on with the one before it. `Readiness`: reading all of a
machine's ring never meets a message that does not fit what has been collected,
and leaves the reassembler as the head of each stream to that machine needs it
(`Fits`). Reading a ring is a recursion, which could not be reasoned about;
`Goes`, a `Run`, says instead that there is a sequence of reassemblers, each the
one before after one message, and the lemmas on runs are about their ends (one
message read, one that arrives), about joining two and about the image of one
under a function. A reconnection in the middle of a transfer keeps the
invariant, because what is sent first on a new connection opens a transfer, and
that fits every reassembler. `NothingIsLost` and the refinement rest on
`OwedIsOnItsWay`, which relates two sequences of different lengths, the messages
under way to a client and the contents owed to it: `Comes` says that there is a
`Run` through ring and then stream whose states are numbers, how many of the
owed contents have come out, that starts at 0 and ends at all of them; a closing
message (`Closing`) moves to the content it closes, the next one, any other
message stays. Once the ring has dropped messages it may start later and leave
gaps (`Gaps`). The messages' own invariant is too weak for this, and this one
for a step of the receiver: that a closing message that is read does bring its
content out, and not a failure, is `Readiness`. Sending a transfer extends the
run at its end (`ComesSent`), an overflowing ring cuts it at its beginning
(`ComesDropped`), reading moves the border between ring and stream
(`ComesRead`), and what comes out shifts all numbers (`ComesOut`, with
`GivesLater`). Then `Receive` is `Deliver`, or `Skip` at a client that was
overrun, or a stutter; `ServerCopies` is `Send`; the step that overflows a ring
is `FallBehind`, and happens only at a connected client (`NothingUnasked`). That
a set of numbers has a least one (`LeastNumber`, from the library's well-founded
minimum) stands in for induction along a run.

**`TrustStoreProofs`**, for any servers, clients and bounds: `TypeCorrect`;
`CaKept` (`CaIsKept`), from `CaStands`: certificates are written by the handler
only, and only while it starts a server; a start leaves all of them there, or on
its list; and once a CA was in use its files are on no list any more. The step
worth reading is `StartServer`, by the lemma `ResolvingWrites`: the CA is on the
list only if not all of it is there. `MaterialBelongsTogether`
(`NoMixedMaterial`), from `Material`: what a start has left to write is one of
four lists (`Left1` to `Left4`), and each goes with a state of the disk (`Disk1`
to `Disk4`) from which the rest of the list, or an end of the process, leaves
everything matching; `Ordered` says in which order files come to be there, and
is what makes a start after an end find one of these states again.
`ServerStarts` (`StartsUnlessCut`), from `Uncut`: without an end in the middle
of writing, only the file that is being written is torn. `KnownServersAreBacked`
(`KnownIsBacked`), from `Backing`: every copy of the configuration, in the GUI,
on the disk or about to be written, knows of a server, unless it was paired once
more, what the handler knows, whose files are all on the disk and on no list
(`Backed`); the handler's own copy is ahead of the disk by what is still on its
list (`HandlerBacked`), with the record last (`PairingGoesOn`). That order, in
`Pair`, is what the property rests on. `RecordedServersSurvive`
(`RecordsSurvive`), from `Surviving`: as long as nobody saves from the GUI, no
savings overlap and none is cut, one task at a time has the configuration to
save, and what it saves, what is saved and what the handler has in memory know
every server recorded so far.

**`AppLifecycleProofs`**, for any bounds: `TypeCorrect`, which includes that no
port has two listeners; `ConnectedIsUp` (`ShownConnectedIsUp`), with
`NotSpawnedYet`; `ButtonIsTrue` (`ButtonTellsTheTruth`), from three facts that
hold as long as no start has failed: `ShownIsHeld`, what is shown is what the
handler holds once it is through with a start; `StartedServe`, every server
started has got past the start; `HeldListens`, one whose sender is held was told
nothing and has its ports.

Only model-checked: liveness, that is the fairness part of `Ownership`,
`ComesHomeWithoutClient`, `ReturnGivesControlBack`, `AllGoneIsNoticed`,
`LockIsServed`, `ForwardersComeBack`, `OneCopyEndsSilent`, `FreshCopyIsShared`,
`PairedIsRecorded`, `StoppedServerEnds`, `PinKeepsComingUp` and `KeepsTrying`.
It rests on fairness, hence on ENABLED, which the proof system does not handle.
Every invariant and every action property a run checks is proved.

## 5. Not modelled

* **Screen layout** (`boundary.rs`, `virtual_cursor.rs`): pure geometry with unit
  tests. Nothing in `main.rs` uses it any more.
* **Cryptography and certificates** (`crypto.rs`, `tls.rs`, `certgen.rs`):
  sequential calls into libraries. What they promise is assumed in `Pairing`, and
  what is kept of them is in `TrustStore`.
* **`capture.rs`** is superseded; **`inject.rs`** is one operating system call
  per message. The drawing of the GUI, the tray, the detection of the screen's size and
  the encoding of messages have no state to go wrong.
* **The headless client's tasks** (`main.rs` 1130-1290) repeat those of the GUI's
  client, which are modelled; that they do not reconnect is noted above.
* **A frame read that a heartbeat tick cancels half-way** (`client.rs:101`): the
  stream is then out of step and the connection ends. This end, at any moment,
  is in every model that has connections; the bytes are not.
* **What nothing in the code decides**: a control connection that is half open
  for ever, the order of messages on two connections, a listener that lags 64
  events behind. They are among the hazards, with the reason.
* **Of the configuration**: forgetting a server and revoking a client, which
  nothing calls; explicit certificate paths; two addresses whose file names
  become one (`config.rs:242`).
* Writes to the system clipboard that fail, and the length of the backoff.

## 6. Plan

Modelled, in this order: `CursorOwnership`, `WarpCapture`, `InputSession`,
`ServerRegistry`, `ClipboardSync`, `Pairing`, `Forwarding`, `ClipboardTransfer`,
`ContentDelivery`, `TrustStore`, `AppLifecycle`; each that has state of the
program, with its proofs.

Next: between `ClipboardSync` and `ContentDelivery`, that the step by which a
peer takes a content is a delivery; and the theorems a liveness argument would
rest on, as in `Forwarding`, that a state in which a forwarder waits has a step
that helps it.
