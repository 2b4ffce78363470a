# bristlemouth-rs in TLA+

A verification development kept beside bristlemouth-rs, the Rust implementation
of the Bristlemouth ocean-sensor network: TLA+ modules translated from the
source, TLC configurations that check them on small instances, and TLAPS proofs
for every value of the constants. Paths below are relative to the repository
root unless they start with `src/`, as they do in `PROJECT.json`.

## 1. The system

A Bristlemouth node is a microcontroller on a two-wire Ethernet bus, with one
link-local IPv6 address and up to a few ports. `bm-wire` holds the protocol
logic, free of I/O (each state machine takes the time as an argument and returns
what to send); `bm-stack` drives it (`Node`) over traits for the network, the
flash, the clock and the bootloader; `bm-devkit` implements those traits on the
STM32U5 development kit; `bm-mcuboot` reads and writes what MCUboot needs.

### Inventory

| Component | State it keeps | Operations | Talks to |
|---|---|---|---|
| DFU machine `bm-wire/src/bcmp/dfu_core.rs` | state, pending state change, event queue (5), current event, three timers, error, reboot info | `on_message`, `initiate_update`, `step` | client, host, NodeDfu |
| DFU client `dfu_client.rs` | image size, chunk counters, running CRC, page buffer, flash offset, retries, host | run and entry of five states | update slot, no-init RAM, config store, bootloader |
| DFU host `dfu_host.rs` | image info, client, bytes left, retries, stream buffer | run and entry of two states | update slot or stream, application (finish report) |
| NodeDfu `bm-stack/src/dfu.rs`, `node/dfu.rs` | outbox (4), reset wanted, finished reports (4), stored reboot info | `next_body`, `persist`, `take_update_finished`, `host_queue_data` | node loop |
| update slot, no-init RAM `bm-devkit/src/slot.rs`, `noinit.rs` | flash bytes, MCUboot flags, RAM kept over a reset | open, erase, write, read, `set_pending`, `set_confirmed`, resets | MCUboot |
| MCUboot trailer `bm-mcuboot/src/trailer.rs` | magic, swap info, image-ok, copy-done flags in flash | `set_pending`, `set_confirmed`, `swap_type` | MCUboot |
| packet registry `bcmp/registry.rs`, `bm-stack/src/node/{registry,held}.rs` | packet types, outstanding sequenced requests, counter, sweep timer, frames held for a re-send | add, remove, serialize, receive, sweep, re-send | every BCMP service |
| neighbour table `neighbor.rs`, `bcmp/heartbeat.rs` | one entry per neighbour: node id, port, last heard, online | `on_heartbeat`, `check` | device info, resource discovery |
| device info `bcmp/info.rs` | requests that wait (no expiry), cached replies | record, take, store, forget | neighbour table |
| neighbour-table requests `bcmp/neighbors.rs` | one request with its timer and its callback | request, reply, expire | application |
| resource discovery `bcmp/resource.rs` | local topics, one reply callback | add, request, reply | pub/sub |
| ping `bcmp/ping.rs` | the payload of the last ping | request, reply | application |
| system time `bcmp/time.rs`, `utc_time.rs` | none (the RTC) | set, get | RTC |
| config store `configuration.rs`, `bm-stack/src/config.rs`, `storage.rs` | three partitions of keyed CBOR values, a dirty flag each | get, set, delete, commit, load | flash; a commit resets |
| config messages `bcmp/config.rs`, `node/config.rs` | none | get, set, commit, status, delete, clear | config store |
| pub/sub `pubsub.rs`, `node/pubsub_api.rs` | subscriptions with their handlers | subscribe, unsubscribe, publish, deliver | UDP, resource discovery |
| services `service/{table,request}.rs`, `node/services.rs` | registered services, outstanding requests with timeouts | register, request, reply, expire | pub/sub |
| L2 and forwarding `l2.rs`, `l2_policy.rs`, `bcmp/forward.rs`, `node/run.rs` | none; the port mask in the frame | ingress, forward, egress | PHY |
| codecs (`rx`, `tx`, `header`, `frame`, `checksum`, `cbor`, service bodies) | none | encode, decode | all |
| channel application `channel.rs`, `app.rs` | Embassy channels | post, receive | application tasks |
| PHY driver, external flash, image tool, oracles, differential tests | - | - | - |

`PROJECT.json` lists every component with its status and the reason for it.

### How the parts interact

A node's protocol state belongs to one task: `Node::run_app` waits for a frame, a
deadline or an application command, dispatches it, drains what DFU has to send, and
waits again until the first deadline. Application tasks and the PHY driver run
beside it and reach it through queues and wakers. What is hard:

* between the loop, the driver and application tasks, which may interrupt each
  other between any two steps: a wake that comes between a look at a queue and
  the registration of the waker, commands and notifications queued and read while the
  loop handles others, a pool that sending and receiving share;
* between a node and its peers: messages are lost, repeated, delayed and
  reordered, and nothing acknowledges them below the protocols modelled here;
* between a request and its timeout: a late reply meets a request that was
  given up on, re-sent, or replaced by a younger one;
* between the program and power: a watchdog reset keeps no-init RAM and loses
  everything else, a power loss may lose that too, and a flash write may fail
  half way;
* between a step and its own queue: the DFU machine queues events to itself,
  checks a message against the state at queue time and runs it in a later one,
  and lets timers come due inside a handler's `delay`;
* at capacity: every queue, table and list has a fixed length, and each has its
  own rule for what happens when it is full.

### What makes each component correct

* DFU: the image that is booted is the one that was offered; every update ends;
  every accepted request is reported once; an unconfirmed image keeps a fallback;
  a change of state is never lost; a fatal error stays.
* MCUboot trailer: a crash between any two writes boots the old image or the
  new one, never neither.
* Packet registry: a reply answers the request it was sent for; each request has
  exactly one outcome; a frame is held for exactly the requests outstanding.
* Discovery: the table names each port once and each neighbour with an id once; the cache
  holds only neighbours; a neighbour that falls silent is reported once.
* Config: what is committed is what is loaded after a reset, or nothing is.
* Services: one outcome per request, within its timeout.
* Forwarding: on a tree, a frame is processed once by everyone it is meant for,
  and arrives with the bytes it left with.
* Node loop: it never sleeps on work, never ends for want of a buffer, and loses
  no command.
* Codecs: what is written is read back; what is damaged is refused or read within
  its bounds.

## 2. Plan

In the order in which the modules were written; a tick marks what is here.

| Module | Of | Composes | Abstract specification | Proofs |
|---|---|---|---|---|
| `Dfu` ✔ | DFU machine, client, host, NodeDfu, slot, no-init RAM, bootloader | - | - | `DfuProofs` ✔ |
| `Packets` ✔ | packet registry, held frames, sweep, re-sends | `Exchange` (refines), `Lists`, `Clocks` | `Exchange` ✔ | `PacketsProofs` ✔ |
| `BootTrailer` ✔ | MCUboot trailer flags in flash, with a crash between any two writes | `Boot` (refines) | `Boot` ✔ | `BootTrailerProofs` ✔ |
| `Discovery` ✔ | neighbour table, device info, neighbour-table requests, resources, ping, time | `Lists`, `Clocks` | - | `DiscoveryProofs` ✔, on `ListsProofs` ✔ |
| `PubSub`, `Services` ✔ | subscriptions, services and requests on several nodes, with L2 forwarding between them | `PubSub`, `Lists`, `Clocks` | - | `ServicesProofs` ✔, on `ListsProofs` ✔ |
| `Config` ✔ | store, commit, load, messages, external flash | `KeyStore` (refines) | `KeyStore` ✔ | `ConfigProofs` ✔ |
| `NodeLoop` ✔ | the loop of `run_app`, the channel application, the PHY's queues | - | - | `NodeLoopProofs` ✔ |
| `Layouts`, `Images`, `Frames`, `Calendar`, `Cbor`, `Topics`, `Crc`, `Wire` ✔ | the codecs, frames and checksums, images, the RTC, CBOR, the wildcard match, CRCs | all seven | encoders and decoders against each other, the grammar, the calendar | - (recursive) |
| `DfuPair` | a host and a client over a network that loses, repeats and reorders | two instances of the roles of `Dfu` | an update finished on both sides or reported as failed | agreement at the end of an update |

Left of the plan: `DfuPair` with its agreement.

## 3. The modules and the code

In every module a definition marked *slip* is a plausible mistake in the definition
after it. Nothing uses it; `PROJECT.json` lists which property each one breaks.

### `Dfu`

State. `state`, `pending`, `queue`, `event`, `timers`, `core` and `reboot` are the
fields of `Core`; `cl` and `ho` are `Client` and `Host`; `outbox`, `reset`,
`finished` and `noinit` are `NodeDfu`'s; `slot` is the flash of the update slot,
`boot` what the bootloader runs and whether it is on trial, `confirm` the
`dfu_confirm` key. `inputs` bounds the environment; `owed` is a history variable
that counts the reports promised by `initiate_update` and not yet made.

Control. `Dfu::step` pops an event, runs the handler of the state, takes a pending
state change (exit, entry), and ends; `pc` is the point it is at:
`ready → run → take → enter → done → ready`, and `commit` where the config commit
resets the node inside an entry. Each run handler and each entry is one action,
with the whole of what the handler does; where a handler branches, each early
return is an action or a disjunct. `OnMessage`, `InitiateUpdate`, `RefuseUpdate`,
`HostQueueData`, `TakeUpdateFinished`, `Transmit`, `TimerDue` and `TakeReset` are
the calls a node makes. A crash may come at every control point.

`Drained` tells two ways of driving a node apart: `Node::run_app`, which calls
`next_body` until there is nothing left before it takes the next input, and a node
driven by hand, whose caller may call anything between two steps.

Abstractions. A CRC is the bytes it is computed of, so that two images never
collide; the code's own check is 16 bits wide. A git SHA is a number. A message is
a record, `~whole` where the body is too short to read. Time is the set of running
timers: one that runs may come due at any poll, which allows every order of
deadlines, more than a clock would. An erase is atomic; a write that fails leaves
any prefix of the page written. Chunk counts wrap at `CountWrap` (2^16). The
bootloader is external and modelled from how `slot.rs` and `dfu_client.rs` use it.

### `Packets` and `Exchange`

State. `types`, `pending`, `count` and `next_sweep` are the fields of `Registry`;
`slots` and `due` those of `HeldRequests`; `now` is the node's wrapping
millisecond clock. `sends`, `told`, `age` and `phase` are history: how often each
request went on the wire, the events the application had of it, how long it has
been outstanding, and the time since the start modulo the period.

Control. `Register`, `Unregister`, `SendRequest`, `ReceiveReply`, `Retransmit` are
calls. A sweep is `BeginSweep`, one `SweepUnexpired`, `SweepRetry` or
`SweepTimedOut` per turn of the loop, `EndSweep`; `index` is the loop's variable
(from 1; 0 outside it), and nothing else happens meanwhile, as the code holds
`&mut self`. `Prompt` says that every queued re-send is put on the wire before the
next call, as `Node::run_app` does; a node driven by hand may be called before.
Messages that leave the registry alone (unsequenced types, unregistered ones,
replies that match nothing) have no action.

Abstractions. A frame is its number and its type. `message_count` does not wrap:
2^32 requests would have to be sent within the life of one. `Late` bounds how long
after its time a sweep is called; a node that is never called does not sweep.
`Unencodable` holds the request types whose body may fail to encode once the
request is tracked; only `CONFIG_DELETE_REQUEST` has such bodies. `PacketsAssumption`
asks that the clock tells a time past from one to come: two periods, twice `Late`, and a
timeout with a period and `Late` fit its range. The code's 24 and 150 ms on a clock of
2^32 ms do, for any lateness under 24 days.

`Exchange` is what `Packets` promises of each request, without tables, clocks or
frames: it is opened, sent once and then at most `MaxSends` times in all while it is
open, and ends at most once, answered or given up. With `Exact` (a prompt node) it is
given up on only after exactly `MaxSends` sends; TLC checks the refinement without
it, TLAPS proves both. `Packets!Promised` maps `status` to what the registry and the
events told say of a request, and `sends` to itself.

### `BootTrailer` and `Boot`

The two slots as functions from offsets to bytes, with the fields of the trailer
where `trailer.rs` computes them for an alignment. A call (`set_pending`,
`set_confirmed`, or the `Update` DFU makes of the slot) becomes the list `todo` of
unit programs and page erases it makes; `Carry` does the next, `Fail` is a flash
error, `Reset` may come at any time and leaves the operation under way undone, done or
as `Junk`; `Bootloader` (external) then reads `swap_type` and swaps. `Boot` has no
bytes: which image runs, what the other slot is marked for, whether the running image
is on trial. An `Update` is not made while an image is on trial, which `Dfu` shows
(`TrialHasFallback`).

`FlashAssumption` says what the bytes may be: `Junk`, which stands for a unit that was cut
short, is of no byte of the magic and not the flag; the magic and image_ok lie in the
last page; and an image begins with a byte that is neither erased nor torn, and is not the
beginning of another, as its header says how long it is. Nothing else is assumed of an
image but that it is shorter than the slot, which is all DFU asks (`dfu_client.rs:236`).
Those `bm-image` builds end below the trailer (`MAX_IMAGE_LEN`): `Fit`. `Boot` calls any
other `Overlong`: what it says of the marks, it says of the fit ones, also when an overlong
one was in the slot before; an overlong one may be made permanent where a trial was asked
for, may be ended by marks written over it, and is cut by a swap. Take that first exception
out of `Boot` and TLC finds the behaviour of section 6.

### `Discovery`

One node's `NeighborTable`, `InfoRequests`, `InfoCache`, `TableRequests`,
`ResourceTable`, `ResourceRequests`, `PingState` and RTC. An arrival is one frame that
reached `Node::submit` and a call one call of the application; both become one action
with everything the handler does, and `owed` is what it gave back: the frame to send,
the message to flood again, the events. `Tick` is the heartbeat ticker, `Timer` the
one-shot of the neighbour-table request, each up to `Late` behind its time. Info
requests are matched by the low bits of an id (`KeyWrap`), as the code does.
`silence` and `asked` are history: how long since a node was heard, and what became
of the last table request. What a name or a payload says is abstracted; that it is
cut, empty or too long is not. Nothing keeps a neighbour from giving 0 for its id, and
two that do share one entry of `silence`: `LeaseIsKept` therefore says nothing of how
early such a neighbour goes offline. `WellFormed` is what a frame or a call carries.

### `PubSub` and `Services`

`PubSub` has the lists of a node as operators; `Services` puts nodes with those lists
on a tree of point-to-point links and gives them the receive policy, the relay, the
re-flood and the calls. A frame in flight is on one link, in order; a mix may lose or
delay it. `floods` and `asked` are history: who processed each thing sent, and how
each request ended. `restart` empties a node, and its request ids begin anew.
`ServicesAssumption` states the tree by what divides it: a link leads into every part of
the nodes that is not all of them (`Into`), and each link is the only one into some part.
It is what delivery rests on: no node remembers what it has relayed, and a forwarded
message starts with a full hop limit again (`node.rs:984`), so that on a cycle of links a
frame would come round for ever.
`Sendable` is what an application sends on its own: a datagram to everyone, or a message
that names its asker and the node it is for, which may be itself, or none that there is,
and is then meant for nobody. A time request is answered by the node it names, a message
that sets the time also when it is broadcast, and neither if the clock fails.
Datagrams of sockets the application binds are not modelled. Which topics a pattern
matches is the constant `Wildcards`; the matcher itself is in `Topics`. `MixAssumption`
says what nodes start with and bounds the requests: fewer are made than there are ids
(2^32 in the code), as with more of them two that are out may have the same id.
`Swept` is the loop of `on_tick`, as a function of how far the sweep has come.

### `Config` and `KeyStore`

A partition's image in memory is its header, array of keys and array of values, which
keep what earlier keys left there, so that a slip in the moves of `remove_key` shows.
`save_config` writes it to the flash sector by sector; each erase and each program is
a step, and power may fail, or the write, at each. `load_with` refuses an image whose
checksum is wrong. The config messages of a peer and the calls of the application are
the actions. `KeyStore` has two maps per partition: in use, and kept. The checksum is
taken to be perfect, and a typed value is one of a few that fit, do not fit, or are of
another type. A key of 32 bytes (`LongKey`) is stored cut off and never found again, as in
the code. `ConfigAssumption` says what a call carries: only a clear may name a partition
that does not exist.

### `NodeLoop`

`pc` is where the loop of `run_app` is: in one of the arms of its select, polled in
order, or sending. Each poll of the PHY is three steps (look, register the waker, look
again), and the driver, timers and application tasks may come between any two of them.
`ready` is the last arm and `act` follows it at once, so a `ready` that loses the select has
taken no command; its being cancel-safe (`channel.rs:586`) is never put to use.
`pool`, `empty`, `rx` and `tx` count the packet buffers in each place; `commands`,
`notifications`, `next` and `dropped` are the channel's. What the node makes of a frame
is how many frames it then sends (`Owable`) and which events it reports (`Reports`). The
driver's own runner, and Embassy's wakers and channels, are external: modelled from
what the code relies on.

### `Wire` and its parts

`Wire` composes one sample at a time with the code's encoder, may then cut, lengthen or
alter it, and compares what the decoder makes of it with what was put in.

* `Layouts`: every message body as a list of parts. A byte is a digit of `Base` (256 in
  the code), so that a length field overflows within reach.
* `Images`: the header and TLV area of an MCUboot image, and how `bm-image` builds one. A
  hash is a function of what it covers, and a signature of hash and key.
* `Frames`: Ethernet and IPv6 around a BCMP message or a datagram, the checksum, the
  egress port that L2 stamps into the address and patches the checksum for, and what a
  relay restores. Bytes are as in `Layouts`.
* `Calendar`: `util.rs`'s conversions, and the dev kit's RTC: a calendar whose year has two
  digits, and a sub-second counter that is read after it.
* `Cbor`: the tinycbor iterator as `cbor/parser.rs` has it, over a buffer of heads; the
  service bodies; the map of a partition; and the other two readers of a config value,
  `configuration.rs`'s own for the getters and `entry.rs` for the list of keys, which
  must agree with it. An error ends a walk (`Unless` is the code's `?`).
* `Topics`: the wildcard match, against a recursive definition of a glob.
* `Crc`: `crc.rs` on words as sets of bits, against the remainder bit by bit, whole and
  chunk by chunk.

## 4. What is checked

| Run | Properties | Bounds, and why they are enough |
|---|---|---|
| `DfuTransfer` | `ActivatesOfferedImage`, `OutboxFits`, `TrialHasFallback`, `WaitingIsTimed`, `EventuallySettles`, `TrialResolved` | an image of 3 bytes in pages of 2 and chunks of 1 or 2: a full and a partial page; a chunk count that wraps at 3, so that three chunks of one byte count as none; an image of one page, whose only chunk fills it and so meets a failing write as the last one; 7 inputs: offer, chunks, reboot, end and two more of any kind, one of them a crash, a repetition or another offer |
| `DfuHost` | `AcceptedIsReported`, `WaitingIsTimed` | internal and streamed images, 6 inputs: request, ACK, two chunk requests, reboot, end, and every abort |
| `DfuByHand` | `PendingHasWakeup`, `FatalIsFinal` | an event queue of 2 (the code has 5) so that it fills; offers of every kind, bodies too short, both roles; 4 inputs |
| `DfuUnstored` | `StoredBeforeReset` (violated) | finding 1 |
| `Packets` | `FramesMatchRequests`, `SweepsOnGrid`, `OutstandingIsBounded`, `GivenUpInTime`, `OneOutcomeEach` | 3 requests on a registry of 2, so that one is untracked; one re-send; a timeout of 3, a period of 2 and a clock of 8 that wraps within the life of a request; sweeps up to a period late, re-sends still queued at the next call, types added twice, as both reply and request, and removed |
| `PacketsUnsent` | `TimedOutWasResent` (violated) | finding 2 |
| `BootTrailer` | `SuccessIsDone`, `KeepsPromise` | slots of 24 bytes in pages of 8, a magic of 2 and alignments below, at and above its size; two images that lie over the trailer, one to its last byte but one, the other up to image_ok with the flag there; 4 calls, enough to update, mark, confirm and mark again, with a reset or a failure at each write |
| `Discovery` | `TypeOK`, `OnePerPort`, `CacheIsNeighbours`, `LeaseIsKept`, `TableRequestResolves`, `SilentGoesOffline` | two ports and three other ids, two with the same list key and one zero; five mixes of up to 4 arrivals and calls: neighbours that move and restart, neighbours that give no id, leases that keep and that wrap, tables answered late, twice or by another, and everything else; a clock of 14 |
| `Services` | `DeliveredOnce`, `EndsOnce`, `ExpiresInTime`, `WaitingIsListed` | three nodes in a line, so that one relays; five mixes: answered, unanswered and wrapping requests; two nodes that ask each other with the same id; a restart with a question out; floods of every kind with losses, to the sender itself and to a node that is not there among them; lists that fill |
| `Config` | `TypeOK`, `KeepsPromise`, `CleanIsStored`, `AnswerIsTrue` | two partitions of two keys, each of a header sector and a value sector; 4 calls: fill, change, commit and one more, with every fault; keys and values of every kind that is refused |
| `NodeLoop` | `LoopGoesOn`, `NoLostWakeup`, `NothingIsLost`, `CommandsAreActed` | the smallest queues that fill (2 receive, 1 transmit, 1 command, 1 notification) with one buffer to spare, as the code requires; two tasks, two frames, a timer, two frames to send at a time |
| `Wire` | `ReadBack`, `DamageIsContained`, `FrameArrivesWhole`, `ClockIsRight`, `MatchesAsGlob` | bytes of 16 values, so that lists meet the end of their length fields; every message type, cut and altered at every byte; every payload of two bytes over two hops, so that every carry happens; days around each end of a year, a leap day, 2038, 2099 and 2106, and up to two ticks between the two reads of a clock; CBOR buffers of up to 5 heads, one level deeper than allowed; all topics up to 5 and patterns up to 4 characters |

What the passing runs show:

* whatever a host sends, whatever is lost, repeated or cut short, whichever write or
  `set_pending` fails and wherever the node crashes, a client asks to boot only the
  image it was offered; every transfer ends, an image on trial is confirmed or swapped
  back, and no update a host accepted goes unreported;
* a node called between any two steps never sleeps on a state change and never
  leaves a fatal error but by a reset;
* the registry sweeps on its grid across the wrap of the clock and however late it
  is called, gives a request up neither early nor late, and holds and queues
  exactly the frames of what is outstanding;
* the marks MCUboot reads are never stronger than what was asked for, also when a
  write is torn, of an image that ends below them;
* a node's tables agree with each other whatever its neighbours do, and leases and
  requests end on time on a clock that wraps;
* on a tree of nodes, everything sent is processed once by everyone it is meant for,
  and each service request ends once;
* a configuration comes back whole or empty after any crash;
* the loop never sleeps on work and never ends by itself, and the application cannot
  stop it by not reading;
* what is encoded is read back, frames arrive as they were built, and nothing that is
  damaged leads a decoder out of its bounds.

Fairness. `Dfu!FairSpec` assumes weak fairness of `Step`, of `TakeUpdateFinished` and of
each timer: `Node::run_app` calls `next_body` until it returns nothing, takes the
reports, and waits no longer than the first deadline. `Discovery!FairSpec`: time passes
and the loop runs its ticker and its timer. `NodeLoop!FairSpec`: the executors poll a
task that was woken, the driver sends what it is given, and a task that waits to send
does so when there is room; nothing is assumed of a task that could read a notification.
Nothing is ever assumed of peers, of the network or of crashes; their number is bounded
(`MaxInputs`, the mixes' `max`), as a bus on which updates are offered or nodes reset for
ever lets no update end.

Some properties are checked, and proved, with a fault left out, because the code does not
have them with it: `TrialHasFallback` without a failing `set_confirmed`, which the code does not
notice, and `WaitingIsTimed` without a failing commit and, for the host, without bodies
too short to read. `CleanIsStored` leaves out a partition whose failed save or refused set
changed it without asking to be committed (`unnoticed`), and `MatchesAsGlob`
topics that hold a `*` themselves. `KeepsPromise` of `BootTrailer` promises less of an
image that reaches into the trailer, and says what: it may be marked permanent where a
trial was asked for. `FrameArrivesWhole` states which frames divergence #12
makes the receiver refuse: those whose patched byte carries. `ClockIsRight` states the three
reads of the RTC that are off, and by how much: one during which a second ends, after the
calendar was read and before the counter, is a second early; one of a clock whose calendar
has passed the end of 2099 is a century early; the one before the first tick after the clock
was set to a whole second has milliseconds that wrapped (`calculate_rtc_ms`).

Deadlock is checked in every run but `NodeLoop`, where a node with no further frame,
timer or command waits for good. In the others a node with nothing to do takes `Wait`
(`Dfu`), or time passes, or a sample is put down.

## 5. What is proved

For every value of the constants that satisfies the `ASSUME` of the component's module
(`DfuAssumption`, `PacketsAssumption`, `DiscoveryAssumption`, `ConfigAssumption`,
`NodeLoopAssumption`, `TrailerAssumption` with `FlashAssumption`, `ServicesAssumption` and
`MixAssumption` with `PubSubAssumption`, and `ClockAssumption` of `Clocks`): any images, slot, page, unit, chunk and queue sizes, any messages and faults; any registrations, capacities, timeouts,
periods and clock; any ports, ids and traffic; any tree of nodes, capacities, calls and
lateness; any partitions, keys and values; any pool
and queues and any number of tasks. Three theorems on `Dfu` have hypotheses besides, named
with them.

`DfuProofs!TypeCorrect`: `TypeOK`, which is inductive, with one lemma per group of
handlers. The other theorems of `DfuProofs` are from invariants that strengthen the property until it is
inductive:

* `PendingWakes`: `PendingInv`. A change is pending at the end of a step only in
  `Error` and `ClientValidating`, whose entries set one; from these no handler sets
  another, so the entry's NOP, or the event that kept it out of a full queue, is
  still there. `Moves` says which change each state can have pending.
* `OutboxNeverOverflows`: `OutboxInv`. A handler that sends twice sets no change of
  state, and an entry sends once, so no step sends more than two.
* `ActivatesOnlyOffered`: `ImageInv`. While receiving, the slot up to `off` with the
  page buffer is what was received (`Tracks`) unless a write failed, which leaves
  `off` behind; at validation the slot holds what the CRC is of, if its length is
  right (`Stored`); from then on the slot is the image offered (`Complete`), and
  nothing writes to it.
* `FatalStays`: `FatalInv`. No entry or handler sets a change in a fatal `Error`.
* `AcceptedReported`, for a drained node with room for two reports (the code has 4):
  `OwedInv`. At most one report is owed, and it belongs to the one update that is at the
  head of the queue, being begun, under way in a host state with its `notify` set, or
  about to fail in `Error`'s entry; each way on from there keeps it or makes the report,
  and the application takes the report before the next request comes in.
* `FallbackKept`, where `set_confirmed` does not fail and the image shipped with the node
  is bootable: `TrialInv`. While an image is on trial the slot holds one that boots, and
  the machine is in `Init` with the reboot info that says so, or in `ClientRebootDone`.
  The reboot info was left before the reset that booted the image, and is dropped only with
  the trial or in asking for the reset that ends it; so `Idle`, where an offer would
  overwrite the slot, is never reached on trial.
* `WaitingTimed`, under `WaitAssumption`: the node is drained, the queue has the code's 5
  places, no commit fails, and no ACK or end is too short to read (both last leave the
  machine waiting for good: the hazards at `dfu_client.rs:510` and `dfu_host.rs:359`).
  `WaitInv` has five parts. `TimersInv`: only the state's own timer and the client's chunk
  timer may run. `QueueInv`: one event from outside is under way at a time, and starts on
  an emptied queue. `LoadInv`: what is queued and what the running timers have still to
  queue are together at most 4, so the event of a timer is never dropped. `WakeInv`: in a
  waiting state its timer runs, or the timer's event is queued or under way, or a reset is
  asked for. `PassingInv`: a state that does not wait has what moves it on.

`PacketsProofs`: `FramesInv`, that is `TypeOK` with `Numbered` (numbers outstanding
are distinct and were issued), `HeldIsOutstanding` and `DueHeld` (what is queued is
held). `HeldIsOutstanding` is not inductive alone: that releasing a number frees
the right slot needs distinct numbers, and that a tracked request finds a slot free
is a pigeonhole argument (`FreeSlot`). Theorems `TypeCorrect`, `HeldIsExact`,
`DueIsExact` and, of the two together, `FramesMatch`.

`PacketsProofs!Refines`: `Packets` implements `Exchange`. `OutcomeInv` adds
`SendsInv` (what was sent plus what is queued is one more than the attempts
counted), `SweepInv` (under `run_app` nothing the sweep has not reached is queued)
and `ToldInv` (nothing was told of what is open). `SweepInv` is what makes the count
exact when a request is given up; that the queue has room for every re-send is again
a pigeonhole argument (`DueRoom`).

Timing, in the same module: `TimingInv`, of which `OnTheGrid`, `OutstandingBounded` and
`GivenUpLate` follow. There is one distance `d` from the time of the next sweep to now,
from a period before it to `Late` after it, such that the clock is `next_sweep + d` modulo
`ClockWrap`, the time since the start is `d` modulo the period (`OnGrid`), and each request
was last sent a time `e` ago that the clock can still tell and that the sweeps since would
have ended had it been longer (`SentAgo`), after a timeout at least, and a timeout and a
period and `Late` at most, for each retry. With `d` and `e` named, the two moduli part: each
is one congruence, and `ListsProofs` (`DivMod`, `ModUnique`, `ClockSteps`,
`RemainingFacts`) says what `remaining_ms` makes of it on a clock that wraps.

`ListsProofs`: what `Lists` and `Clocks` do, for the modules that are built on them:
taking the first match out of a list (`WithoutFacts`: what is left, in which order and
which property each entry keeps), appending to a bounded one, replacing an entry, and
times on a clock that wraps.

`DiscoveryProofs`: `Inv`, of the types and three parts. `Placed` is `OnePerPort` with
`CacheIsNeighbours`; that a heartbeat always finds a place, which the code's comment on
`table_full` claims, is `AlwaysRoom`: the neighbours other than the one heard have
distinct ports other than its own, so there are fewer of them than ports. `LeaseInv` names,
for each neighbour, how long ago it was heard in full, which `last_heartbeat` holds modulo
the clock and `silence` up to `MaxSilence`; `LeaseKept` follows by `remaining_ms`.
`AskedInv` ties the timer of the one neighbour-table request to the history of it.

`ConfigProofs`: `Inv`, of three parts. `ImageInv`: in memory and, where its checksum
holds, in flash a partition is `Whole` (no key can be found twice, each in use has a
value). `WriteInv`: a partition stays sealed while it is written, and its first sector,
once written, is what is in memory. `CleanInv` is `CleanIsStored`, also for the other
partitions while one is written. `Refines` maps the two maps of `KeyStore` to what `get`
finds in memory (`Map`) and what `load_with` would find after a reset (`KeptMap`). A step
that erases or programs a sector makes the second empty, as the checksum over two
different commits does not hold, or, with the last one, the first. `AnswersTrue` needs
`Inv` where an answer was read from the partition itself.

`BootTrailerProofs`: first where the fields lie (`Geometry`: one unit apart, below the
magic, for an alignment that divides the magic's size or is a multiple of it), then what a
write of any data is (`WriteFacts`, `WriteCovers`: its units hold and cover the data) and
what each program, erase or torn unit leaves (`AppliedFacts`, `TornFacts`).

* `SuccessDone`: `SuccessInv`. While `set_pending` is under way every byte of the magic is
  there or is in a program still to come; what is left of `set_confirmed` is its one unit.
* `KeepsMarks`, the refinement of `Boot`, for all images shorter than the slot: `BootInv`,
  which adds six parts. `ReplaceInv`: while the slot is erased and written its last page,
  which holds the magic, is still to be erased, or some byte of the magic is wrong and no
  program to come mends it; and the first page, with the beginning of any image, goes first.
  `WriteInv`: an update writes its image from the first byte on, so when it sets image_ok
  all of the image below the trailer is there. `OrderInv`: image_ok comes after the whole
  magic, and only if a permanent swap was asked for, or the slot holds no fit image.
  `VouchInv`: what `set_confirmed` writes was asked for. `TrialInv`: on trial, the other slot
  has no magic and no call replaces it, so the image to go back to is there. `OkInv`: a slot
  without a magic that has image_ok set holds no fit image (by `WriteInv`: only an image that
  reaches into the trailer sets it, and `NoneFits`). `Move` lists all that one write, carried
  out, torn or failed, can do to what `Boot` sees; `Effect` adds what it leaves for the next.
  `SameFit` says that slots which agree below the trailer hold the same fit image.

`ServicesProofs`: `IInv` is about the nodes, the frames and the history `asked` at once;
`TimeInv` and `FloodInv` are added to it for the last two theorems.

* The requests a node has listed are exactly the questions it asked since it started that
  have not ended (`RequestsInv`), and the callbacks that wait are of listed requests
  (`WaitingInv`), which is `CallbacksWaitListed`. Only a sweep or an answer takes a request
  off, and both end its question: so none ends twice.
* The ids a node gave since it started count back from its next one (`IdsInv`); as there
  are fewer requests than ids, they differ (`LogInv`).
* A publication that asks is about a question its sender asked, one that answers about a
  question its target asked, under the id it carries (`NetInv`). An answer that matches a
  request by its id is then to that request, or to one of the same id from before a
  restart: `RequestsEndOnce`.
* A handler serves a request, publishes the answer and may deliver that to its own node
  within one action; the lemmas follow these calls one by one. What a whole sweep does is
  shown for each length of the list in turn (`PassInv`). The library's induction takes an
  operator, so `Induct` argues from the least number that is not in a set.
* `RequestsExpireInTime` adds `TimeInv`. For each node there is a d, how far its clock is
  past its next sweep, at most its lateness and at least minus a period, and for each
  listed request an e, its true age, with `e <= timeout + d + period`: a sweep at d leaves
  a request only if e is below the timeout, and puts the next sweep within a period. The
  comparison is of 32 bits, so a timeout of more than half the range is over at the first
  sweep, and one within a period and the lateness of half the range is left out
  (`Bounded`).
* `DeliversOnce` adds `FloodInv`. A link of a tree divides it, and `Beyond` is the part it
  leads into; `Ahead` of a frame in flight is that part, or for what is not passed on the
  one node the frame is about to reach. Of each thing sent, the frames in flight have no
  node ahead in common; nobody ahead, and not its sender, has processed it; nobody has
  twice; and each node that is meant to and has not is ahead of some frame, unless one was
  lost (`Flooded`). A relay keeps this as the other links of a node lead into what was
  ahead of the frame that reached it, each into a part of its own, and into all of it but
  the node (`OutApart`, `RelayFacts`). So at the end nothing is ahead, and everyone has got
  it. As the tree is stated by the parts its links divide it into, and not by its paths, no
  induction over graphs is needed.

`NodeLoopProofs`: `LoopInv`, of four parts. `BufferInv` adds to `LoopGoesOn` that the
transmit queue keeps to its length and that the driver has all its receive buffers while
the loop polls: with one buffer more than the two queues hold, one is left for the next
frame, so `GoesOn`. `WakeInv` says what is known at each point between the look at a
queue and the wait: the waker is registered or was called, and what was seen empty still
is, or the loop is woken; at the wait this is `NeverSleepsOnWork`. `NothingIsLost` is
inductive with the types, and gives `LosesNothing`.

Only model-checked:

* `EventuallySettles`, `TrialResolved`, `SilentGoesOffline` and `CommandsAreActed`, as
  liveness is beyond the prover;
* the properties of `Wire`, whose modules are recursive: the prover takes no RECURSIVE
  operators, and the modules with proofs use none.

## 6. Findings

1. `StoredBeforeReset` (`DfuUnstored`): a client that confirms without asking its
   host resets inside the config commit, before `NodeDfu::persist` stores the
   cleared reboot info. The next boot resumes an update that is over.
2. `TimedOutWasResent` (`PacketsUnsent`): `config_delete_key` with a key over 255
   bytes tracks a request it cannot encode. Nothing is sent, and `Event::Timeout`
   is reported as for a request that was re-sent to the last.

Met while modelling, with no run of their own: the reboot magic is stored when an offer
is accepted (`dfu_client.rs:248`), so a watchdog reset in a transfer resumes in the old
image as if the new one had booted, sends WRONG_VER and resets once more
(`EventuallySettles` shows that it still settles); the list of info requests has no
expiry (`info.rs:350`); a second `initiate_update` before the first has run is accepted
and lost with its report (divergence #60); a failed read at `Config::load` is discarded
(`bm-stack/src/config.rs:99`); a commit that fails after the image was confirmed leaves
the client waiting without a timer (`dfu_client.rs:510`); `rtc.rs:74` reads the sub-second
counter after the calendar, and only the calendar twice, so a read across a second's end
goes back by a second, and a time set in the last second of 2099 reads as 1999
(`ClockIsRight`); the milliseconds of the quirk of `bm-devkit/README.md:572` wrap to 65532,
where it says 65531 (`WrappedMs`); an image only has to be shorter
than the slot (`dfu_client.rs:236`), and if it ends between image_ok and the magic with a
byte 1 at image_ok, its `set_pending` for a trial (`slot.rs:229`) writes the magic, fails at
swap_info, which the image covers, and the bootloader reads a permanent swap (it does not
compare the image with the trailer, `docs/history/mcuboot-todo.md:245`); nothing has to be
torn for that, and if the bootloader does not accept the image the swap cut, there is none
to go back to (`KeepsPromise` allows it, of such images alone); select polls its arms in order,
so frames that never stop coming keep timers and commands waiting (`run.rs:253`). A reply
echoes 16 of the 32 bits of a config request's number (divergence #53), and DFU deadlines
are compared in wrapping arithmetic (`dfu_core.rs:851`), which `Dfu` abstracts from.

## 7. What is not modelled, and why

* SPI commands, interrupts and busy polling of the PHY, of the external flash and of
  their driver crates: one chip each, seen here through what the code relies on.
* `bind_udp` and `unbind_udp`: a port list that only selects which handler is called.
* File I/O, signing and command lines of the image tool; console output; reset reasons.
* The oracles (`bm-wire-sys`, `bm-mcuboot-sys`) and the differential tests
  (`bm-wire-diff`, `bm-mcuboot-diff`): a test harness that runs the C implementation
  beside the Rust one. It has no state of its own to model, and it is most of the code
  the map leaves out.
* Floating-point values, hashes and signatures beyond that equal input gives equal output.
  `Crc` computes the two CRCs bit by bit, and `ReadBack` checks them against polynomial
  division; every other module takes the CRC of some data to be that data.
* A host and a client of `Dfu` together, each against the other instead of against every
  message: the plan's `DfuPair`.
