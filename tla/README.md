# A TLA+ model of rusbmux

rusbmux is a `usbmuxd` replacement: a daemon that finds Apple devices on USB and on the
network, and lets client programs list them, listen for their coming and going, connect to
TCP ports on them and manage pair records. This directory holds TLA+ models of the parts
of the daemon in which tasks, channels, locks, transfers, timers and files meet, the TLC runs that check
them, and TLAPS proofs of every safety property among them.

Paths below are relative to the repository's `src/`.

## Inventory

| Part | State | Operations | Interacts with |
|---|---|---|---|
| `UsbDeviceConn` (`conn/usb.rs`) | byte counters, last window, cached `sendable_bytes`, two channel ends | handshake, `send_bytes`, `recv`, `ack`, `close`, drop | writer channel, router, device token |
| Connect handler (`handler/connect.rs`) | `read_buf`, client socket | `connect`, the `select!` loop, `client_read`, `client_send` | connection, registry `Ref` |
| `PacketRouter` (`device/packet_router.rs`) | sharded map port → channel | `register`, `unregister`, `clear`, `route` | reader loop, connections |
| `UsbDevice` (`device/usb.rs`) | port counter, writer channel, `conns`, loops, token | `connect`, reader and writer loops, `close_all`, `shutdown` | router, endpoint, USB watcher |
| USB watcher (`watcher/usb.rs`) | hotplug stream, disconnected channel | Connected, Disconnected and I/O-error arms | registry, broadcast, devices |
| Network watcher (`watcher/network.rs`) | mDNS receiver, one task per announcement | `network_device_add`, removal | registry, broadcast |
| `NetworkDevice` (`device/network.rs`, `conn/network.rs`) | heartbeat task and its flag, token | creation, `connect`, marco and polo, drop | registry, clients |
| Power assertion (`device/power_assertion.rs`) | renewal task, the assertion held | creation, renewal, drop | `NetworkDevice` |
| Registry, broadcast (`watcher/mod.rs`) | `CONNECTED_DEVICES`, `HOTPLUG_EVENT_TX` | insert, retain, `remove_device`, send | everybody |
| Listen, ListDevices (`handler/listen.rs`, `device_list.rs`) | broadcast receiver | snapshot, events | registry, broadcast |
| Client session (`handler/mod.rs`, the other handlers) | position in the request stream | dispatch, answers, pair records, BUID | files, registry |
| Codecs (`parser/`) | none | encode, decode, what a refusal leaves in the stream | sessions, loops |
| USB endpoints (`usb_backend/rusb.rs`, `nusb.rs`) | transfer in flight, bytes not taken yet, write buffer, `current_transfer_len` | submit, callback, poll, `submit_end`, cancel | reader and writer loops |
| Hotplug streams (`usb_backend/rusb.rs`, `nusb.rs`) | `devices_id_map`, pending events, last poll | subscribe, list, poll, events | USB watcher |
| Daemon (`daemon.rs`) | sockets | accept, signals, `cleanup` | sessions, devices |

What is hard here: `tokio::select!` drops futures that are half way through; DashMap
references are locks that are held across awaits; bounded channels couple all connections
of a device; counters wrap; the two watchers, the heartbeats and the readers change one
registry without a common lock; several events mean the same (un)plugging; sessions share
files that are written in two steps; libusb's callbacks run on a thread of their own and cut
the device's packets anywhere; a subscription and a list of the same devices overlap; two
timers and an abort race for a network device. `PROJECT.json` lists these hazards at their lines.

What makes the parts correct: a connection respects the device's window, loses and
reorders nothing, and does not stall; the router delivers to the right connection and
closing ends; a device is listed once, its entry is watched while it is there and goes
when it is gone; a listener hears of what goes; a request is answered once, what is
answered as saved is saved, and a session ends with its client; packets come out of the
bus whole and in order, and the device can tell where one ends; a hotplug stream tells of
exactly what is plugged in; a network device is closed after two misses and not before, is
kept awake while it is used, and leaves nothing running.

## Modules

* **FlowControl** – one connection, byte for byte: `UsbDeviceConn` with
  `handle_usb_device_connect`, between a client and the device. A step is what the handler
  does between two awaits. `pc` names the await it stands at: `connect`, `synack`, `hsack`
  (the handshake), `select`, `acking` (inside `recv()`, waiting for room for the
  acknowledgement; the other branches of the `select!` are still polled), `toclient`,
  `sending` (inside `send_packet`), `rst`, `closed`. Counters have the modulus `W`
  (2^32 in the code). The device is external: it receives in order, acknowledges, and
  advertises the free part of its buffer in window units.
* **UsbMux** – the tasks around one device: reader, writer, one handler per Connect, the
  task that shuts down. Bytes and windows are abstracted (FlowControl has them), locks are
  not: `Locked(p)` holds while the reader waits inside `route()` with its reference into
  the shard of `p`, and `register`, `unregister` and `clear` need the shard. A handler in
  the handshake holds its `Ref` into the registry (`Connecting`), which `RemoveDevice` and
  `ForgetDevice` wait for. `reader.st = "wedged"` is `route()` asking for the write lock
  of the shard it is reading. The device is external: it accepts or refuses a SYN, sends data,
  and may reset a connection it has open (`DevReset`, remembered in `reset`); the reader loop
  drops every RST, so the host does not notice either.
* **Hotplug** – the registry and everybody who changes it: the hotplug stream with the
  arms of `watch_usb_daemon`, the I/O errors of reader loops, `network_device_add` tasks,
  mDNS removals, heartbeats, and the listeners' view of it all. A step is one operation on
  the registry together with what nobody else can tell apart from it.
* **ClientSession** – the request loop and its handlers, and the files they share.
  `tokio::fs::write` is two steps, create or truncate and then write; a file is a sequence
  of blocks, so that a short record written over a long one leaves its tail, and a file
  deleted while open is written without a name. A Connect that is not refused at once waits
  at `opening` for the device; `Opened` answers it, and nothing makes that step happen.
* **UsbLink** – the two bulk endpoints of a device as the rusb backend drives them:
  `UsbDevice::new` with its version and setup packets, `RusbAsyncReader` above libusb's
  transfers, the stages of `UsbDevicePacket::from_reader`, the writer loop with
  `sync_flush_and_zlp`, and the abort of both loops. Bytes are counted, not named: what the
  parser reads depends on the place `parse.start` it began at, and a place where no packet
  starts may say anything (`Junk`).
* **PacketPipe** – what the reading side promises: packets whole and in order, until one is
  not well formed. UsbLink implements it (`PipeSpec`).
* **DeviceFeed** – the hotplug streams of nusb, of rusb with a callback and of rusb with
  polling, from the pluggings on the bus to the Connected and Disconnected events Hotplug
  starts from.
* **Heartbeat** – one network device in detail: creation, the rounds of the heartbeat with
  the shared flag `failed`, the power assertion against a clock, a client connected to it,
  and both ways of removing it. It implements Hotplug with one network device
  (`HotplugSpec`, through `H == INSTANCE Hotplug WITH ...`): creation in several steps is
  Hotplug's one step `AddConnect`, the rounds are invisible, the second miss is
  `HeartbeatFails`, and `remove_device` is the same two steps.
* **MCFlowControl, MCUsbMux, MCHotplug, MCClientSession, MCUsbLink, MCDeviceFeed,
  MCHeartbeat** – the instances TLC runs.
* **FlowControl_proofs, UsbMux_proofs, Hotplug_proofs, ClientSession_proofs, UsbLink_proofs,
  DeviceFeed_proofs, Heartbeat_proofs** – the theorems and their proofs.

FlowControl and UsbMux take packets from the bus as they are; UsbLink shows that they come
so. UsbMux refers to the registry Hotplug keeps, Hotplug to the streams of DeviceFeed and to
the network devices of Heartbeat.

Definitions named `X_Something` next to an `X`, commented "Faulty", are deliberately wrong
variants of `X`, one for each property: put in place of `X` they violate the property, so
no property holds for lack of anything that could break it.

## Runs

| Run | Result | Shows |
|---|---|---|
| `FlowControl` | passes, 161,118 states | window, order, accounting of the bytes, stalls end |
| `UsbMux` | passes, 3.1 million states | streams and packets of two connections, refused and reset ones included |
| `UsbMux_live` | passes, 191,146 states | closing and shutdown come to an end, outside two stuck states; live connections keep their routes |
| `UsbMux_close` | violates `CloseCompletes` | reader and closing connection wait for each other |
| `UsbMux_unplug` | violates `UnplugForgetsDevice` | an unfinished handshake keeps an unplugged device registered |
| `Hotplug` | passes, 1.5 million states | listing and events with USB and network on one serial number |
| `Hotplug_usb` | passes, 94,204 states | re-plugging, repeated events and I/O errors; entries are watched and forgotten |
| `Hotplug_connect` | violates `ConnectIsBroadcast` | a client that listens is not told of a new USB device |
| `ClientSession` | passes, 722,498 states | answers, saved records, the BUID, sessions end |
| `UsbLink` | passes, 583,263 states | packets whole, in order and in the end; packet ends, sequence numbers, transfers given back |
| `DeviceFeed` | passes, 112,945 states | a drained stream has told of exactly what is plugged in |
| `Heartbeat` | passes, 126,594 states | two misses, no gap in the assertion, nothing outlives the device; implements Hotplug |

Some properties except a state the code does reach, and TLC refutes them without the
exception; the exception is then what the property says about the code:

* `WindowRespected`: until `sent_bytes` wraps. After that
  `saturating_sub` takes every byte in flight for acknowledged and the window is overrun.
* `NothingElseLost`: a packet of a cancelled `recv()` is lost although it is acknowledged later.
* `CloseCompletesUnlessStuck`, `ShutdownEndsConnections`: `route()` may wait for a connection
  that waits for it, which only shutting down resolves, or for itself, which nothing does.
* `PacketsForOpenPeers`: a connection the device accepted and reset later goes on sending,
  because the RST is dropped; one that was refused sends nothing.
* `LiveConnRouted`, `StreamsInOrder`, `PacketsForOpenPeers`: until a source port is handed out
  twice (`PortsDistinct`).
* `SessionEnds`: a session that listens, is connected or waits for a device to open the
  connection is not reading its client, and stays when the client goes. A refused SYN makes
  the last wait endless, since the handshake has no timeout.
* `BuidAgreed`, `OkMeansStored`: unless two sessions create, write or delete the file at once.
* `PacketEndVisible`: until a write fails, which leaves `current_transfer_len` as it was.
* `DoublesOnlyFromStart`: a device that comes between subscription and list is told of twice.
* `DrainedFeedExact`: a failed list, and a device replaced between two polls, are not noticed.
* `RegisteredIsWatched`, `DeadDeviceLeaves`: a heartbeat that fails twice before the device is
  inserted leaves an entry nobody watches.
* `AssertionCovers`: a renewal that fails, or is answered too late, lets the device sleep.

Each violation contradicts a line of `TODO.md` or a comment in the source, quoted under
"findings" in `PROJECT.json`.

Deadlock is not checked: all of these systems may come to rest, when the clients are done
and the device is quiet; that the tasks do not come to rest early is what the liveness
properties are about.

### Bounds, and why they are enough

* *FlowControl*: both channels have capacity 1, so that every wait for room happens; the
  buffer (3) is not a multiple of the window unit (2) nor of the payload (2), and a read
  of the client (3) exceeds a packet; the client writes 7 bytes with counters of modulus
  7, so that `sent_bytes` wraps; `HostWindow` (3) leaves the device room for a packet that
  is not acknowledged.
* *UsbMux*: two connections on two ports, all ports in one shard (with more shards fewer lock
  waits collide). In `UsbMux` a connection's channel holds two packets, so that their order can
  go wrong, the writer channel and the bus one; there are two data packets, one read of a
  client and one reset, and the daemon may shut the device down, which then goes on sending
  (unplugging, after which it sends nothing, is in `UsbMux_live`). What follows an RST is then
  caught at the device, not in the writer channel; for longer channels there is the theorem.
  `UsbMux_live` has every channel of capacity 1, so that every wait for room happens, the
  reader's for an established connection included; it leaves out the clients' data, the
  daemon's `cleanup()` and resets of open connections (`MaxResets` 0): a dropped RST changes
  nothing on the host, and those of refused connections are in. The port counter starts
  anywhere, so port 0 is handed out and refused. With two connections no port is handed out
  twice, so the proviso `PortsDistinct` always holds in these runs; with three connections on
  one port it is needed. In `UsbMux_live` the writer channel still fills with acknowledgements
  and RSTs. Connections are interchangeable (symmetry), except in runs with liveness.
* *Hotplug*: one serial number, since entries with different ones do not affect each
  other. Two announcements that overlap, one plugging, one repeated event and one I/O
  error with two ids in `Hotplug`; two pluggings, two repeated events, two I/O errors and
  four ids on the USB side alone in `Hotplug_usb`. `EventCap` 2 lets a listener lag.
* *ClientSession*: two sessions, two requests each of every kind, two records of different
  length.
* *UsbLink*: the device sends three packets at most, of all four kinds of header, one of them
  of unknown protocol, so that a reader loses its place; every cut of the bytes into
  transfers is tried. `MaxWork` (6) trades packets sent against packets queued: four can be
  queued behind the device's version, so `send_seq` of modulus 3 wraps. Payloads are none, one that
  fills a USB packet of 512 bytes together with its headers, and the largest; a second one of
  those left in the buffer would reach the threshold of `poll_write`. Sizes are the real ones.
* *DeviceFeed*: two places on the bus, each empty or taken at the start, three later pluggings
  in any order, all three streams.
* *Heartbeat*: one device, one client, a tick of 5 minutes, so that interval and timeout are
  2 and 4 ticks as in the code; `MaxWait` (5) is longer than the timeout.

### Fairness

One weak fairness condition per task: the runtime polls every task that can go on, a lock
that is free is granted and a channel with room accepts. Of the outside it is assumed that
the device takes packets from the bus, answers a SYN (with SYN-ACK or RST, and the RST is
dropped), tells the host
of a window that has changed, and that its application reads and does not reset the
connection (FlowControl); that a read on
a device that is gone fails; that a client takes what it is sent or goes away. Nothing is
assumed about whether a client connects, writes, reads on or closes, and nothing about
unplugging. libusb's event thread completes a transfer for which there are bytes or which was
cancelled; the watcher keeps asking the hotplug stream for events; a marco that does not come
is a timeout; an aborted task ends where it waits; the system gives up a TCP connection that
is not answered. Nothing makes a device answer the request for an assertion, and nothing ends
the wait of a session for its connection (ClientSession). Lock waits
block threads of the runtime; UsbMux assumes that there are enough of them, so the stuck states it shows do not come from a lack of threads.

## Proofs

Every safety property of the passing runs, and both refinements, is also a theorem: proved for
every value of the constants that satisfies the module's `ConstantsAssumption`, so for any
number of connections, sessions, devices and packets. The modules `X_proofs` extend `X`; each
has an inductive invariant `IInv` with `Init => IInv` and `IInv /\ [Next]_vars => IInv'`, one
step per action, and derives the properties from `Spec => []IInv`.

| Module | Theorems | For every |
|---|---|---|
| `FlowControl_proofs` | `TypeCorrect`, `WindowTheorem`, `OrderTheorem`, `AckedTheorem`, `NothingLostTheorem` | modulus, window unit, payload, capacities, buffer of at least one unit |
| `UsbMux_proofs` | `TypeCorrect`, `RoutesTheorem`, `StreamsTheorem`, `PeersTheorem` | number of connections and ports, sharding, capacities |
| `Hotplug_proofs` | `TypeCorrect`, `OnceTheorem`, `WatchedTheorem`, `GhostsTheorem` | number of serial numbers, pluggings, repeated events, I/O errors, announcements, listeners |
| `ClientSession_proofs` | `TypeCorrect`, `AnswersTheorem`, `StoredTheorem`, `BuidTheorem` | number of sessions, requests and records, size of a record |
| `UsbLink_proofs` | `TypeCorrect`, `EndVisibleTheorem`, `NeverStuckTheorem`, `HonestTheorem`, `ImplementsPipe` | packets of the device, cuts into transfers, payloads, USB packet size of `BulkSizes`, modulus |
| `DeviceFeed_proofs` | `TypeCorrect`, `DoublesTheorem`, `ExactTheorem` | finite set of places on the bus, pluggings, backend |
| `Heartbeat_proofs` | `TypeCorrect`, `TwoMisses`, `Watched`, `Covered`, `ImplementsHotplug` | renewal interval and longer timeout |

Assumptions worth naming: a bulk endpoint has one of the packet sizes USB allows
(`BulkSizes`); sequence numbers have at least
two values; the bus has finitely many places, so that a poll can be a sequence of them; the
assertion's timeout is longer than the renewal interval.

Why the properties need more than themselves:

* *FlowControl, window.* What bounds the bytes on the way is a chain: the host acts on
  `sendable_bytes`, computed from a header it saw some time ago, while newer headers wait in
  `rx`. `IInv` is `TypeOK`, a description of the handshake (`ShakeInv`: who has sent what
  while no data may flow yet) and, until `sent_bytes` wraps, `FlowInv`: *every* pair of
  acknowledgement and window that the host has or is going to see, in `rx`, in its fields or
  behind `sendable_bytes`, is a promise the device can still keep, since it only reads and
  never takes buffer back.
* *FlowControl, bytes.* `StreamInv` needs no bound on the counters. Each channel is a list of
  consecutive packets; how many bytes lie in front of its i-th packet is a function that the
  invariant asks to exist (`Sums`), since the prover cannot define it by recursion. With it
  the sequence number of a packet is the bytes before it modulo `W`, also after a wrap, and
  the bytes the device has sent are those in `rx`, in hand, delivered and lost.
* *UsbMux.* Who owns a port owns its route, its packets and its peer on the device (`Basic`).
  Only as long as no two connections share a port the rest holds: before a connection's SYN
  nothing of it is under way, until the device answers only the SYN, and nothing after its RST
  (`Life`); an established connection is open on the device or was reset by it (`PeerOpen`, a
  part of `Life`); and its data are in order wherever they are, in the channel, in the reader's
  hand, on the bus (`Order`). All fourteen steps of a handler have one form (`Turn`), and the
  invariant is shown once for that form.
* *Hotplug.* The I/O-error arm makes room by opaque id and inserts by serial number, so
  `ListedOnce` rests on what was plugged in last: an entry and a device still on the bus with
  the same serial number have the same opaque id (`LatestHeld`), because a device that comes
  back gets a new one (`OnBus`). `UsbEntryWatched` rests on the reader of the device the
  watcher is handling, at every step of its arm (`Readers`). For `NetworkGhostsLeave` the USB
  side is shown to be idle until something is plugged in, and a heartbeat to start once.
* *ClientSession.* Between opening and writing a record the open file is empty and still the
  one with the name (`OpenedIsEmpty`), unless somebody else touched it; without a race at most
  one session is creating the BUID (`OneCreator`).
* *UsbLink.* The parser starts where a packet starts as long as all before were well formed
  (`Placed`, `InPlace`), what transfer, buffer and bus hold adds up to what was sent, and
  until a write fails `current_transfer_len` is zero between packets once the first one has
  taken up what the version and setup packets left in it (`Carried`). The mapping
  to PacketPipe takes the packets parsed so far for the packets delivered.
* *DeviceFeed.* Seen from one place on the bus, what is queued for it, together with the id map
  in front of the queue, is a history of that place that ends in its present state
  (`LastMatches`, `FreeHasLeft`, `HeldIsKnown`).
* *Heartbeat.* The flag stands for a failure since the last marco (`FlagCountsMisses`), and an
  assertion lasts for the rest of the sleep and what the timeout has on the interval, less what
  the last two answers took (`HeldLongEnough`).
  Under the mapping every step is one of Hotplug's or a stutter.

Only model-checked: liveness, which is out of the prover's reach (`StallEnds`,
`CloseCompletesUnlessStuck`, `ShutdownEndsConnections`, `UnpluggedForgotten`, `SessionEnds`,
`PacketsArrive`, `TransferReleased`, `FeedSettles`, `DeadDeviceLeaves`,
`NothingOutlivesDevice`). The refinements are of safety: PacketPipe and Hotplug with one
network device are implemented without their fairness.

## Abstractions, and what is not modelled

* FlowControl: what the writer took is at the device at once; nothing is lost on the bus.
  Only the branch of the `select!` that wins is a step, so a cancelled read of the socket,
  which loses nothing, does not show. The device does not reset the connection: the host
  would not notice (UsbMux), the device's window would never open again.
* UsbMux: the list of connections `close_all` iterates over is fixed when shutdown begins;
  no connection is added to it in between, because the entry is gone or the process ends.
  The RSTs with which a device answers packets on a connection it has closed are left out;
  the reader loop drops them like the first one.
  The first packet routed to a handshake is taken for the SYN-ACK, as in the code. The mux
  header's `send_seq` and `recv_seq` are in UsbLink.
* Hotplug: service name, MAC address and serial number are one; matching a service with a
  pairing file is a choice. Two heartbeat failures in a row are one event. A listing visits
  the entries in the order of their ids, one at a time. `shutdown()` of a USB device
  either succeeds or fails, as UsbMux shows it does. A hotplug stream that has ended stays so.
* ClientSession: what a listening or connected session does is in the other modules; a
  refused request is one step whatever its result code. I/O errors on files happen at any
  time. An I/O error on the client's socket other than its end is left out: the loop would
  read again.
* UsbLink: a transfer that fails has brought nothing, or all there is. `TransferHandle::drop`
  is two steps, so the completion can come between its check and its cancellation, which then
  has no effect here; what libusb does with a transfer that is freed is not modelled. A write
  that reaches the threshold of `poll_write` stays pending when its transfer succeeds, and
  would fail with it otherwise; the model has the former only, and `WriterNeverStuck` shows
  that no write gets there. The first packet queued for a device is a SYN.
  The nusb backend's endpoints are nusb's own and are not modelled.
* DeviceFeed: only Apple's devices; reading a descriptor does not fail, so a poll and a list
  see every device; one list or poll is one step. That the first list is read after the
  subscription is in the order of the steps.
* Heartbeat: a USB device that takes over is left to Hotplug. A polo may be sent to a device
  that is gone. A sleep that is over ends before the next tick. One client connects; while it
  does, it holds its `Ref`, and the removal waits.
* Not modelled: the byte layout of packets and plists, including the numbers of ports and
  result codes in them; the search for an interface with its endpoints (`usb_backend/mod.rs`),
  which only reads descriptors; matching a service with a pairing file, which is a choice in
  Hotplug; the stream `watch_network` and the plain accessors, which the daemon does not use
  as state; sockets, signals and logging (`daemon.rs`); conversions and predicates without
  state (`utils.rs`, `error/`); and code nobody calls (`cleanup_dead`, `cleanup_conn`,
  `connect_from`). `PROJECT.json` gives the reason for each part.

## Plan

Models, runs and the proofs of all safety properties are in place. What may still be added:

1. Action properties stated and proved where they say more than the invariants: that ids and
   opaque ids are never given twice (Hotplug, DeviceFeed), that what a client was sent is
   never taken back (FlowControl, ClientSession).
2. The safety half of the liveness properties, as invariants that name what the progress
   depends on: who is enabled when a closing connection waits (UsbMux), which transfer is
   still owned by libusb (UsbLink).
3. A module that composes UsbMux with the registry of Hotplug, for the device that is shut
   down while it is being connected to.
