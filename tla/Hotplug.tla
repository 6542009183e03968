------------------------------- MODULE Hotplug -------------------------------
(***************************************************************************)
(* The registry of connected devices and who changes it: the USB watcher   *)
(* (src/src/watcher/usb.rs) with its hotplug stream and the I/O errors of  *)
(* the devices' reader loops, the network watcher                          *)
(* (src/src/watcher/network.rs) with one task per mDNS announcement, and   *)
(* the heartbeat task of every network device (src/src/device/network.rs). *)
(* What they broadcast reaches the clients that Listen                     *)
(* (src/src/handler/listen.rs).                                            *)
(*                                                                         *)
(* The tasks run on several threads, so a step is one operation on the     *)
(* registry together with what follows it up to the next one that others   *)
(* could observe.                                                          *)
(***************************************************************************)
EXTENDS Integers, Sequences, FiniteSets

CONSTANTS
    Serials,      \* the devices' serial numbers
    None,         \* not a serial number
    Listeners,    \* the clients that Listen
    EventCap,     \* capacity of the broadcast channel (32)
    IoCap,        \* capacity of the disconnected channel (32)
    MaxId,        \* bound: device ids taken
    MaxPlugs,     \* bound: times a device is plugged in
    MaxAgain,     \* bound: repeated Connected events
    MaxIoErrors,  \* bound: I/O errors of a device that stays plugged in
    Adders        \* bound: one network_device_add task per announcement

Ids == 1 .. MaxId
Opaques == 1 .. MaxPlugs

ASSUME ConstantsAssumption ==
    /\ None \notin Serials
    /\ EventCap \in Nat \ {0} /\ IoCap \in Nat \ {0}
    /\ MaxId \in Nat \ {0} /\ MaxPlugs \in Nat /\ MaxAgain \in Nat /\ MaxIoErrors \in Nat

VARIABLES
    devices,    \* CONNECTED_DEVICES: devices[id] is "none", "usb" or "net"
    about,      \* about[id]: serial number and opaque id the device was created with
    nextId,     \* DEVICE_ID_COUNTER
    stream,     \* the hotplug stream: "idle", "opening" device id, or "ended"
    idMap,      \* its devices_id_map: from opaque ids to device ids, 0 for none
    watcher,    \* the task of watch_usb_daemon: where it is, and the device it handles
    ioq,        \* disconnected_rx: the ids of the devices with an I/O error
    rd,         \* rd[id]: the reader loop; "fresh" has no disconnected_tx yet
    adder,      \* adder[a]: a network_device_add task
    netw,       \* the task of watch_network_daemon: where it is, and the device it removes
    hb,         \* hb[id]: the heartbeat task
    lst,        \* lst[l]: the listener: its state, its queue, the devices its client knows of
    bus,        \* external: bus[o]: the serial number of the device plugged in as o
    plugs,      \* external: how often a device was plugged in
    hotplug,    \* external: the system's hotplug events
    again,      \* external: repeated Connected events so far
    ioErrors    \* external: spontaneous I/O errors so far

regVars  == <<devices, about, nextId>>
usbVars  == <<stream, idMap, watcher, ioq, rd>>
netVars  == <<adder, netw, hb>>
sysVars  == <<bus, plugs, hotplug, again, ioErrors>>
vars == <<regVars, usbVars, netVars, lst, sysVars>>

Attached(id) == [kind |-> "Attached", id |-> id]
Detached(id) == [kind |-> "Detached", id |-> id]

Unknown == [serial |-> None, opaque |-> 0]
Select == [pc |-> "select", id |-> 0]
Off == [st |-> "off", q |-> <<>>, view |-> {}, cursor |-> 1]

Init ==
    /\ devices = [id \in Ids |-> "none"] /\ about = [id \in Ids |-> Unknown] /\ nextId = 1
    /\ stream = [st |-> "idle", id |-> 0] /\ idMap = [o \in Opaques |-> 0] /\ watcher = Select
    /\ ioq = <<>> /\ rd = [id \in Ids |-> "none"]
    /\ adder = [a \in Adders |-> [pc |-> "off", id |-> 0, serial |-> None]]
    /\ netw = [pc |-> "idle", id |-> 0] /\ hb = [id \in Ids |-> "none"]
    /\ lst = [l \in Listeners |-> Off]
    /\ bus = [o \in Opaques |-> None] /\ plugs = 0 /\ hotplug = <<>> /\ again = 0 /\ ioErrors = 0

\* The registry's devices of one kind and serial number.
Find(kind, s) == {id \in Ids : devices[id] = kind /\ about[id].serial = s}

\* Faulty: a queue without a limit.
Broadcast_Unbounded(e) ==
    lst' = [l \in Listeners |->
        IF lst[l].st \in {"snap", "on"} THEN [lst[l] EXCEPT !.q = Append(@, e)] ELSE lst[l]]

\* HOTPLUG_EVENT_TX.send: a receiver that is full lags behind and will be told so.
Broadcast(e) ==
    lst' = [l \in Listeners |->
        IF lst[l].st \notin {"snap", "on"} THEN lst[l]
        ELSE IF Len(lst[l].q) < EventCap THEN [lst[l] EXCEPT !.q = Append(@, e)]
        ELSE [Off EXCEPT !.st = "lag"]]

\* Faulty: a network device is listed next to the USB device it doubles.
Listed_Both(id) == devices[id] # "none"

\* What ListDevices and the start of Listen show: all but a network device whose serial
\* number another entry has.
Listed(id) ==
    /\ devices[id] # "none"
    /\ devices[id] = "net" =>
          ~ \E d \in Ids \ {id} : devices[d] # "none" /\ about[d].serial = about[id].serial

\* The USB device id was created for is still plugged in.
Present(id) == about[id].opaque # 0 /\ bus[about[id].opaque] # None

TakeNewId(s, o) ==
    /\ nextId <= MaxId
    /\ nextId' = nextId + 1
    /\ about' = [about EXCEPT ![nextId] = [serial |-> s, opaque |-> o]]

\* Removing entries drops the devices; dropping a network device aborts its heartbeat.
Remove(ids) ==
    /\ devices' = [id \in Ids |-> IF id \in ids THEN "none" ELSE devices[id]]
    /\ hb' = [id \in Ids |-> IF id \in ids /\ devices[id] = "net" THEN "gone" ELSE hb[id]]

Goto(l) == watcher' = [watcher EXCEPT !.pc = l]
\* The device the watcher is handling.
Serial == about[watcher.id].serial

--------------------------------------------------------------------------------
(* The hotplug stream.  It only runs while the watcher is in its select!,  *)
(* and keeps its place while another arm runs.                             *)

\* A Connected event: a new id, then the device is opened, which takes a while.
StreamConnected ==
    /\ watcher.pc = "select" /\ stream.st = "idle" /\ hotplug # <<>>
    /\ LET e == Head(hotplug) IN
       /\ e.kind = "Connected"
       /\ TakeNewId(e.serial, e.opaque)
       /\ idMap' = [idMap EXCEPT ![e.opaque] = nextId]
    /\ hotplug' = Tail(hotplug)
    /\ stream' = [st |-> "opening", id |-> nextId]
    /\ UNCHANGED <<devices, watcher, ioq, rd, netVars, lst, bus, plugs, again, ioErrors>>

\* The device is open and its loops run; the watcher takes over.
StreamOpened ==
    /\ watcher.pc = "select" /\ stream.st = "opening" /\ Present(stream.id)
    /\ stream' = [stream EXCEPT !.st = "idle"]
    /\ rd' = [rd EXCEPT ![stream.id] = "fresh"]
    /\ watcher' = [pc |-> "settx", id |-> stream.id]
    /\ UNCHANGED <<regVars, idMap, ioq, netVars, lst, sysVars>>

\* It could not be opened for three seconds: the error ends the stream.
StreamOpenFails ==
    /\ watcher.pc = "select" /\ stream.st = "opening"
    /\ stream' = [stream EXCEPT !.st = "ended"]
    /\ UNCHANGED <<regVars, idMap, watcher, ioq, rd, netVars, lst, sysVars>>

\* A Disconnected event of a known device: remove_device takes the entry out.
StreamDisconnected ==
    /\ watcher.pc = "select" /\ stream.st = "idle" /\ hotplug # <<>>
    /\ Head(hotplug).kind = "Disconnected"
    /\ hotplug' = Tail(hotplug)
    /\ LET o == Head(hotplug).opaque
           id == idMap[o]
       IN  /\ idMap' = [idMap EXCEPT ![o] = 0]
           /\ IF id = 0 \/ devices[id] = "none"
              THEN UNCHANGED <<devices, hb, watcher>>
              ELSE Remove({id}) /\ watcher' = [pc |-> "shutdown", id |-> id]
    /\ UNCHANGED <<about, nextId, stream, ioq, rd, adder, netw, lst, bus, plugs, again, ioErrors>>

--------------------------------------------------------------------------------
(* The arms of watch_usb_daemon.                                           *)

ArmSetTx ==
    /\ watcher.pc = "settx"
    /\ rd' = [rd EXCEPT ![watcher.id] = IF @ = "fresh" THEN "run" ELSE @]
    /\ Goto("find")
    /\ UNCHANGED <<regVars, stream, idMap, ioq, netVars, lst, sysVars>>

\* A network device with the same serial number is announced as detached.
ArmFind ==
    /\ watcher.pc = "find"
    /\ \/ Find("net", Serial) = {} /\ UNCHANGED lst
       \/ \E n \in Find("net", Serial) : Broadcast(Detached(n))
    /\ Goto("retain")
    /\ UNCHANGED <<regVars, stream, idMap, ioq, rd, netVars, sysVars>>

\* Every entry with the same serial number goes; nothing is shut down.
ArmRetain ==
    /\ watcher.pc = "retain"
    /\ Remove(Find("net", Serial) \cup Find("usb", Serial))
    /\ Goto("insert")
    /\ UNCHANGED <<about, nextId, stream, idMap, ioq, rd, adder, netw, lst, sysVars>>

ArmInsert ==
    /\ watcher.pc = "insert"
    /\ devices' = [devices EXCEPT ![watcher.id] = "usb"]
    /\ watcher' = Select
    /\ UNCHANGED <<about, nextId, stream, idMap, ioq, rd, netVars, lst, sysVars>>

\* remove_device goes on: shutdown aborts the loops; when it fails nothing is announced.
ArmShutdown ==
    /\ watcher.pc = "shutdown"
    /\ rd' = [rd EXCEPT ![watcher.id] = "gone"]
    /\ Goto("announce") \/ watcher' = Select
    /\ UNCHANGED <<regVars, stream, idMap, ioq, netVars, lst, sysVars>>

\* A network device with the same serial number takes over.
ArmAnnounce ==
    /\ watcher.pc = "announce"
    /\ \/ Find("net", Serial) = {} /\ UNCHANGED lst
       \/ \E n \in Find("net", Serial) : Broadcast(Attached(n))
    /\ Goto("detached")
    /\ UNCHANGED <<regVars, stream, idMap, ioq, rd, netVars, sysVars>>

ArmDetached ==
    /\ watcher.pc = "detached"
    /\ Broadcast(Detached(watcher.id))
    /\ watcher' = Select
    /\ UNCHANGED <<regVars, stream, idMap, ioq, rd, netVars, sysVars>>

\* The I/O-error arm: every USB entry with that opaque id goes, nothing is shut down.
ArmIoError ==
    /\ watcher.pc = "select" /\ ioq # <<>>
    /\ ioq' = Tail(ioq)
    /\ LET id == Head(ioq) IN
       /\ Remove({d \in Ids : devices[d] = "usb" /\ about[d].opaque = about[id].opaque})
       /\ Broadcast(Detached(id))
       /\ watcher' = [pc |-> "reopen", id |-> id]
    /\ UNCHANGED <<about, nextId, stream, idMap, rd, adder, netw, sysVars>>

\* The device is opened again under its old id, if it is still there.
ArmReopen ==
    /\ watcher.pc = "reopen"
    /\ \/ /\ Present(watcher.id)
          /\ rd' = [rd EXCEPT ![watcher.id] = "fresh"]
          /\ Goto("reinsert")
       \/ watcher' = Select /\ UNCHANGED rd
    /\ UNCHANGED <<regVars, stream, idMap, ioq, netVars, lst, sysVars>>

\* Faulty: the new device gets no disconnected_tx.
ArmReinsert_NoTx ==
    /\ watcher.pc = "reinsert"
    /\ devices' = [devices EXCEPT ![watcher.id] = "usb"]
    /\ Broadcast(Attached(watcher.id))
    /\ watcher' = Select
    /\ UNCHANGED <<about, nextId, stream, idMap, ioq, rd, netVars, sysVars>>

ArmReinsert ==
    /\ watcher.pc = "reinsert"
    /\ rd' = [rd EXCEPT ![watcher.id] = IF @ = "fresh" THEN "run" ELSE @]
    /\ devices' = [devices EXCEPT ![watcher.id] = "usb"]
    /\ Broadcast(Attached(watcher.id))
    /\ watcher' = Select
    /\ UNCHANGED <<about, nextId, stream, idMap, ioq, netVars, sysVars>>

\* Faulty: the loop goes on reading, as after a packet it could not parse.
ReaderIoError_GoesOn(id) ==
    /\ rd[id] \in {"fresh", "run"}
    /\ UNCHANGED vars

\* A reader loop meets an I/O error.  Without disconnected_tx it ends in silence.
ReaderIoError(id) ==
    /\ rd[id] \in {"fresh", "run"}
    /\ \/ ~Present(id) /\ UNCHANGED ioErrors
       \/ /\ Present(id) /\ ioErrors < MaxIoErrors
          /\ ioErrors' = ioErrors + 1
    /\ \/ /\ rd[id] = "run" /\ Len(ioq) < IoCap
          /\ ioq' = Append(ioq, id) /\ rd' = [rd EXCEPT ![id] = "gone"]
       \/ rd[id] = "fresh" /\ rd' = [rd EXCEPT ![id] = "silent"] /\ UNCHANGED ioq
    /\ UNCHANGED <<regVars, stream, idMap, watcher, netVars, lst, bus, plugs, hotplug, again>>

--------------------------------------------------------------------------------
(* Network devices.                                                        *)

AdderGoto(a, l) == adder' = [adder EXCEPT ![a].pc = l]

\* ServiceResolved: a task is spawned for the announcement.
Resolved(a, s) ==
    /\ adder[a].pc = "off"
    /\ adder' = [adder EXCEPT ![a] = [pc |-> "check", id |-> 0, serial |-> s]]
    /\ UNCHANGED <<regVars, usbVars, netw, hb, lst, sysVars>>

\* resolve_service finds no pairing record for it, or the device was added before, or it
\* gets an id.
AddCheck(a) ==
    /\ adder[a].pc = "check"
    /\ \/ AdderGoto(a, "done") /\ UNCHANGED <<about, nextId>>
       \/ /\ Find("net", adder[a].serial) = {}
          /\ TakeNewId(adder[a].serial, 0)
          /\ adder' = [adder EXCEPT ![a].pc = "connect", ![a].id = nextId]
    /\ UNCHANGED <<devices, usbVars, netw, hb, lst, sysVars>>

\* NetworkDevice::new: the heartbeat runs before the device is in the registry.
AddConnect(a) ==
    /\ adder[a].pc = "connect"
    /\ \/ AdderGoto(a, "insert") /\ hb' = [hb EXCEPT ![adder[a].id] = "ok"]
       \/ AdderGoto(a, "done") /\ UNCHANGED hb
    /\ UNCHANGED <<regVars, usbVars, netw, lst, sysVars>>

AddInsert(a) ==
    /\ adder[a].pc = "insert"
    /\ devices' = [devices EXCEPT ![adder[a].id] = "net"]
    /\ AdderGoto(a, "usb")
    /\ UNCHANGED <<about, nextId, usbVars, netw, hb, lst, sysVars>>

\* has_usb_connection, looked up before and used after the wait for the channel.
AddCheckUsb(a) ==
    /\ adder[a].pc = "usb"
    /\ AdderGoto(a, IF Find("usb", adder[a].serial) = {} THEN "send" ELSE "done")
    /\ UNCHANGED <<regVars, usbVars, netw, hb, lst, sysVars>>

AddSend(a) ==
    /\ adder[a].pc = "send"
    /\ Broadcast(Attached(adder[a].id))
    /\ AdderGoto(a, "done")
    /\ UNCHANGED <<regVars, usbVars, netw, hb, sysVars>>

\* ServiceRemoved: find a network device, remove it, announce it unless USB is there.
ServiceRemoved(s) ==
    /\ netw.pc = "idle"
    /\ \E n \in Find("net", s) : netw' = [pc |-> "remove", id |-> n]
    /\ UNCHANGED <<regVars, usbVars, adder, hb, lst, sysVars>>

NetRemove ==
    /\ netw.pc = "remove"
    /\ IF devices[netw.id] = "none"
       THEN netw' = [netw EXCEPT !.pc = "idle"] /\ UNCHANGED <<devices, hb>>
       ELSE netw' = [netw EXCEPT !.pc = "send"] /\ Remove({netw.id})
    /\ UNCHANGED <<about, nextId, usbVars, adder, lst, sysVars>>

NetDetached ==
    /\ netw.pc = "send"
    /\ IF Find("usb", about[netw.id].serial) = {} THEN Broadcast(Detached(netw.id)) ELSE UNCHANGED lst
    /\ netw' = [netw EXCEPT !.pc = "idle"]
    /\ UNCHANGED <<regVars, usbVars, adder, hb, sysVars>>

\* The heartbeat failed twice in a row.
HeartbeatFails(id) ==
    /\ hb[id] = "ok"
    /\ hb' = [hb EXCEPT ![id] = "dead"]
    /\ UNCHANGED <<regVars, usbVars, adder, netw, lst, sysVars>>

\* remove_device: nothing is found when another task was faster, or the insert is to come.
HeartbeatRemove(id) ==
    /\ hb[id] = "dead"
    /\ devices' = [devices EXCEPT ![id] = "none"]
    /\ hb' = [hb EXCEPT ![id] = IF devices[id] = "net" THEN "removed" ELSE "gone"]
    /\ UNCHANGED <<about, nextId, usbVars, adder, netw, lst, sysVars>>

\* Faulty: the device is only announced when USB is there.
HeartbeatDetached_WrongCase(id) ==
    /\ hb[id] = "removed"
    /\ IF Find("usb", about[id].serial) # {} THEN Broadcast(Detached(id)) ELSE UNCHANGED lst
    /\ hb' = [hb EXCEPT ![id] = "gone"]
    /\ UNCHANGED <<regVars, usbVars, adder, netw, sysVars>>

HeartbeatDetached(id) ==
    /\ hb[id] = "removed"
    /\ IF Find("usb", about[id].serial) = {} THEN Broadcast(Detached(id)) ELSE UNCHANGED lst
    /\ hb' = [hb EXCEPT ![id] = "gone"]
    /\ UNCHANGED <<regVars, usbVars, adder, netw, sysVars>>

--------------------------------------------------------------------------------
(* Clients that Listen.                                                    *)

Subscribe(l) ==
    /\ lst[l].st = "off"
    /\ lst' = [lst EXCEPT ![l].st = "snap"]
    /\ UNCHANGED <<regVars, usbVars, netVars, sysVars>>

\* send_currently_connected, one entry after the other.
Snapshot(l) ==
    /\ lst[l].st = "snap"
    /\ LET id == lst[l].cursor IN
       IF id > MaxId
       THEN lst' = [lst EXCEPT ![l].st = "on", ![l].cursor = 1]
       ELSE lst' = [lst EXCEPT ![l].cursor = id + 1,
                               ![l].view = IF Listed(id) THEN @ \cup {id} ELSE @]
    /\ UNCHANGED <<regVars, usbVars, netVars, sysVars>>

\* An event: a device that is gone already is not announced.
ListenerRecv(l) ==
    /\ lst[l].st = "on" /\ lst[l].q # <<>>
    /\ LET e == Head(lst[l].q) IN
       lst' = [lst EXCEPT ![l].q = Tail(@),
                          ![l].view = IF e.kind = "Detached" THEN @ \ {e.id}
                                      ELSE IF devices[e.id] # "none" THEN @ \cup {e.id} ELSE @]
    /\ UNCHANGED <<regVars, usbVars, netVars, sysVars>>

\* A receiver that lags gets an error, which ends the session; so does the client.  It may
\* listen again.
ListenerEnds(l) ==
    /\ lst[l].st # "off"
    /\ lst' = [lst EXCEPT ![l] = Off]
    /\ UNCHANGED <<regVars, usbVars, netVars, sysVars>>

--------------------------------------------------------------------------------
(* External: devices come and go.                                          *)

Event(kind, o, s) == [kind |-> kind, opaque |-> o, serial |-> s]

\* A device appears under an opaque id that was not used before.
Plug(s) ==
    /\ plugs < MaxPlugs /\ \A o \in Opaques : bus[o] # s
    /\ plugs' = plugs + 1
    /\ bus' = [bus EXCEPT ![plugs'] = s]
    /\ hotplug' = Append(hotplug, Event("Connected", plugs', s))
    /\ UNCHANGED <<regVars, usbVars, netVars, lst, again, ioErrors>>

\* The same device is reported again, as during boot.
Again(o) ==
    /\ bus[o] # None /\ again < MaxAgain
    /\ again' = again + 1
    /\ hotplug' = Append(hotplug, Event("Connected", o, bus[o]))
    /\ UNCHANGED <<regVars, usbVars, netVars, lst, bus, plugs, ioErrors>>

\* It disappears, with or without a Disconnected event.
Unplug(o) ==
    /\ bus[o] # None
    /\ bus' = [bus EXCEPT ![o] = None]
    /\ \/ hotplug' = Append(hotplug, Event("Disconnected", o, bus[o]))
       \/ UNCHANGED hotplug
    /\ UNCHANGED <<regVars, usbVars, netVars, lst, plugs, again, ioErrors>>

--------------------------------------------------------------------------------
UsbWatcher ==
    \/ StreamConnected \/ StreamOpened \/ StreamOpenFails \/ StreamDisconnected
    \/ ArmSetTx \/ ArmFind \/ ArmRetain \/ ArmInsert
    \/ ArmShutdown \/ ArmAnnounce \/ ArmDetached
    \/ ArmIoError \/ ArmReopen \/ ArmReinsert
Adding(a) == AddCheck(a) \/ AddConnect(a) \/ AddInsert(a) \/ AddCheckUsb(a) \/ AddSend(a)
NetWatcher == NetRemove \/ NetDetached
HeartbeatEnd(id) == HeartbeatRemove(id) \/ HeartbeatDetached(id)
Listening(l) == Snapshot(l) \/ ListenerRecv(l)
System ==
    \/ \E s \in Serials : Plug(s) \/ ServiceRemoved(s) \/ \E a \in Adders : Resolved(a, s)
    \/ \E o \in Opaques : Again(o) \/ Unplug(o)

Next ==
    \/ UsbWatcher \/ NetWatcher \/ System
    \/ \E a \in Adders : Adding(a)
    \/ \E id \in Ids : HeartbeatFails(id) \/ HeartbeatEnd(id) \/ ReaderIoError(id)
    \/ \E l \in Listeners : Subscribe(l) \/ Listening(l) \/ ListenerEnds(l)

(***************************************************************************)
(* The runtime polls every task that can go on, a read on a device that is *)
(* gone fails, and a client that listens reads.                            *)
(***************************************************************************)
Fairness ==
    /\ WF_vars(UsbWatcher)
    /\ \A id \in Ids : WF_vars(~Present(id) /\ ReaderIoError(id))
    /\ \A l \in Listeners : WF_vars(Listening(l))

Spec == Init /\ [][Next]_vars /\ Fairness

--------------------------------------------------------------------------------
(* Properties                                                              *)

\* Type invariant of the registry, the tasks and the listeners.
TypeOK ==
    /\ devices \in [Ids -> {"none", "usb", "net"}]
    /\ about \in [Ids -> [serial : Serials \cup {None}, opaque : 0 .. MaxPlugs]]
    /\ nextId \in 1 .. MaxId + 1
    /\ stream.st \in {"idle", "opening", "ended"} /\ stream.id \in 0 .. MaxId
    /\ idMap \in [Opaques -> 0 .. MaxId]
    /\ watcher.pc \in {"select", "settx", "find", "retain", "insert", "shutdown", "announce",
                       "detached", "reopen", "reinsert"}
    /\ watcher.id \in IF watcher.pc = "select" THEN {0} ELSE Ids
    /\ ioq \in Seq(Ids) /\ Len(ioq) <= IoCap
    /\ rd \in [Ids -> {"none", "fresh", "run", "gone", "silent"}]
    /\ \A a \in Adders : adder[a].pc \in {"insert", "usb", "send"} => adder[a].id \in Ids
    /\ netw.pc \in {"idle", "remove", "send"} /\ netw.id \in 0 .. MaxId
    /\ hb \in [Ids -> {"none", "ok", "dead", "removed", "gone"}]
    /\ \A l \in Listeners : Len(lst[l].q) <= EventCap /\ lst[l].view \subseteq Ids

\* ListDevices and Listen show a serial number once, whichever of USB and network it is
\* connected by, and however often its Connected event or I/O errors came.
ListedOnce ==
    \A c, d \in Ids : Listed(c) /\ Listed(d) /\ about[c].serial = about[d].serial => c = d

\* A registered USB device is watched: its reader loop runs and can report an error, or
\* has reported it and the watcher will take the entry out; only a reader that failed
\* before the watcher gave it disconnected_tx is lost.
UsbEntryWatched ==
    \A id \in Ids : devices[id] = "usb" =>
        rd[id] \in {"run", "silent"} \/ \E i \in 1 .. Len(ioq) : ioq[i] = id

\* As long as nothing was plugged in, a client that listens is told of every network
\* device that goes: by an event that is queued or that a task is about to send.
NetworkGhostsLeave ==
    plugs = 0 => \A l \in Listeners : \A id \in lst[l].view :
        \/ devices[id] = "net"
        \/ \E i \in 1 .. Len(lst[l].q) : lst[l].q[i] = Detached(id)
        \/ netw = [pc |-> "send", id |-> id]
        \/ hb[id] = "removed"

\* A USB device that was unplugged leaves the registry, with or without a Disconnected
\* event and also after the hotplug stream has ended, unless its reader failed in silence.
UnpluggedForgotten ==
    \A id \in Ids : (devices[id] = "usb" /\ ~Present(id))
        ~> (devices[id] # "usb" \/ rd[id] = "silent")

\* Once a device is connected, the event is broadcast to all subscribers (HOTPLUG_EVENT_TX).
ConnectIsBroadcast ==
    \A l \in Listeners, id \in Ids :
        (lst[l].st = "on" /\ devices[id] = "usb") ~> (lst[l].st # "on" \/ devices[id] # "usb" \/ id \in lst[l].view)
================================================================================
