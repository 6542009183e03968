------------------------------- MODULE DeviceFeed -------------------------------
(***************************************************************************)
(* Where the Connected and Disconnected events of the USB watcher come     *)
(* from: the streams of the USB backends.  nusb subscribes to the system's *)
(* hotplug events and then lists what is there already                     *)
(* (src/src/usb_backend/nusb.rs); rusb registers a callback that libusb    *)
(* also calls for what is there, or, where libusb knows no hotplug, polls  *)
(* the list of devices (src/src/usb_backend/rusb.rs).  All of them number  *)
(* the devices with take_new_id and remember the number by opaque id.      *)
(*                                                                         *)
(* Only Apple's devices are here: the streams drop all others.  Hotplug    *)
(* takes up where the events of this module end.                           *)
(***************************************************************************)
EXTENDS Naturals, Sequences, FiniteSets

CONSTANTS
    Backends,  \* "nusb", "hotplug" (rusb with a callback), "polling" (rusb without)
    Opaques,   \* opaque ids: places on the bus, which another device may take later
    MaxPlugs   \* bound: pluggings after the first ones

ASSUME ConstantsAssumption ==
    /\ Backends \subseteq {"nusb", "hotplug", "polling"}
    /\ IsFiniteSet(Opaques) /\ MaxPlugs \in Nat

VARIABLES
    backend,        \* the backend in use
    phase,          \* its stream: "start", "armed", "listed", and "events" from then on
    events,         \* the system's events that wait for the stream
    listing,        \* devices of the list, or of a poll, still to be reported as Connected
    removals,       \* PollingStream.pending: devices to be reported as Disconnected after those
    known,          \* PollingStream.known: the devices of the last poll
    devices_id_map, \* from opaque ids to device ids, 0 for none
    ids,            \* history: the device an id was given to, and whether it is still connected
    bus,            \* external: which plugging holds an opaque id, 0 for none
    plugs,          \* external: pluggings so far
    early,          \* history: devices that came between arming and listing
    listFailed      \* history: the list could not be had

vars == <<backend, phase, events, listing, removals, known, devices_id_map, ids, bus, plugs, early,
          listFailed>>
world == <<backend, bus, plugs, early>>

Devices == [o : Opaques, inc : 1 .. MaxPlugs + 1]
Present == {[o |-> o, inc |-> bus[o]] : o \in {p \in Opaques : bus[p] # 0}}
Arrived(d) == [kind |-> "Arrived", dev |-> d]
Left(d) == [kind |-> "Left", dev |-> d]

\* The devices of S whose opaque id no device of T has.
NotIn(S, T) == {d \in S : \A e \in T : d.o # e.o}

\* Some devices are plugged in before the daemon starts.
Init ==
    /\ backend \in Backends
    /\ phase = "start" /\ events = <<>> /\ listing = {} /\ removals = {} /\ known = {}
    /\ devices_id_map = [o \in Opaques |-> 0] /\ ids = <<>>
    /\ bus \in [Opaques -> {0, 1}] /\ plugs = 1
    /\ early = {} /\ listFailed = FALSE

\* Faulty: take_new_id hands out the counter after the addition, and the event carries the old one.
Connected_IdAfter(d) ==
    /\ ids' = Append(ids, [dev |-> d, open |-> TRUE])
    /\ devices_id_map' = [devices_id_map EXCEPT ![d.o] = Len(ids) + 2]

\* Event::Connected with a new id; the map forgets an older id of the same opaque id.
Connected(d) ==
    /\ ids' = Append(ids, [dev |-> d, open |-> TRUE])
    /\ devices_id_map' = [devices_id_map EXCEPT ![d.o] = Len(ids) + 1]

\* Faulty: the id is looked up and not taken out of the map.
Disconnected_KeepsId(d) ==
    /\ IF devices_id_map[d.o] = 0
       THEN UNCHANGED ids
       ELSE ids' = [ids EXCEPT ![devices_id_map[d.o]].open = FALSE]
    /\ UNCHANGED devices_id_map

\* Event::Disconnected, if the map knows the device.
Disconnected(d) ==
    IF devices_id_map[d.o] = 0
    THEN UNCHANGED <<ids, devices_id_map>>
    ELSE /\ ids' = [ids EXCEPT ![devices_id_map[d.o]].open = FALSE]
         /\ devices_id_map' = [devices_id_map EXCEPT ![d.o] = 0]

--------------------------------------------------------------------------------
\* nusb::watch_devices, or the registration of the callback.
Arm ==
    /\ backend \in {"nusb", "hotplug"} /\ phase = "start"
    /\ phase' = "armed"
    /\ UNCHANGED <<world, events, listing, removals, known, devices_id_map, ids, listFailed>>

\* nusb: list_devices, when the stream is first polled.  An error is an empty list.
List ==
    /\ backend = "nusb" /\ phase = "armed"
    /\ phase' = "listed"
    /\ \/ listing' = Present /\ UNCHANGED listFailed
       \/ listing' = {} /\ listFailed' = TRUE
    /\ UNCHANGED <<world, events, removals, known, devices_id_map, ids>>

\* Faulty: the stream subscribes here, after the devices of the list.
ListReported_Subscribes ==
    /\ phase = "listed" /\ listing = {}
    /\ phase' = "events" /\ events' = <<>>
    /\ UNCHANGED <<world, listing, removals, known, devices_id_map, ids, listFailed>>

\* nusb: the devices of the list are reported; the events that came meanwhile are next.
ListReported ==
    /\ phase = "listed" /\ listing = {}
    /\ phase' = "events"
    /\ UNCHANGED <<world, events, listing, removals, known, devices_id_map, ids, listFailed>>

\* enumerate(true): libusb calls the callback for what is there, in any order.
Enumerate ==
    /\ backend = "hotplug" /\ phase = "armed"
    /\ phase' = "events"
    /\ \E s \in [1 .. Cardinality(Present) -> Present] :
          /\ \A d \in Present : \E i \in DOMAIN s : s[i] = d
          /\ \A i, j \in DOMAIN s : s[i] = s[j] => i = j
          /\ events' = events \o [i \in DOMAIN s |-> Arrived(s[i])]
    /\ UNCHANGED <<world, listing, removals, known, devices_id_map, ids, listFailed>>

\* Faulty: known stays as it was.
Poll_KeepsKnown ==
    /\ backend = "polling" /\ listing = {} /\ removals = {}
    /\ phase' = "events"
    /\ listing' = NotIn(Present, known) /\ removals' = NotIn(known, Present)
    /\ UNCHANGED <<world, events, known, devices_id_map, ids, listFailed>>

\* PollingStream::next with nothing pending: compare with the last poll.  An error changes nothing.
Poll ==
    /\ backend = "polling" /\ listing = {} /\ removals = {}
    /\ phase' = "events"
    /\ listing' = NotIn(Present, known) /\ removals' = NotIn(known, Present)
    /\ known' = Present
    /\ UNCHANGED <<world, events, devices_id_map, ids, listFailed>>

\* A device of the list, or an arrival of the poll: as old as the list or the poll.
ReportArrival(d) ==
    /\ phase \in {"listed", "events"} /\ d \in listing
    /\ Connected(d)
    /\ listing' = listing \ {d}
    /\ UNCHANGED <<world, phase, events, removals, known, listFailed>>

\* A removal of the poll; the arrivals of the poll came first.
ReportRemoval(d) ==
    /\ listing = {} /\ d \in removals
    /\ Disconnected(d)
    /\ removals' = removals \ {d}
    /\ UNCHANGED <<world, phase, events, listing, known, listFailed>>

\* The next event of the system, from nusb or the callback.
NextEvent ==
    /\ phase = "events" /\ events # <<>>
    /\ LET e == Head(events) IN
       \/ e.kind = "Arrived" /\ Connected(e.dev)
       \/ e.kind = "Left" /\ Disconnected(e.dev)
    /\ events' = Tail(events)
    /\ UNCHANGED <<world, phase, listing, removals, known, listFailed>>

--------------------------------------------------------------------------------
(* External: the bus, and the events the system makes of it once a stream  *)
(* has subscribed.                                                         *)

Notify(e) == events' = IF backend # "polling" /\ phase # "start" THEN Append(events, e) ELSE events

Plug(o) ==
    /\ bus[o] = 0 /\ plugs <= MaxPlugs
    /\ LET d == [o |-> o, inc |-> plugs + 1] IN
       /\ bus' = [bus EXCEPT ![o] = d.inc]
       /\ Notify(Arrived(d))
       /\ early' = IF phase = "armed" THEN early \cup {d} ELSE early
    /\ plugs' = plugs + 1
    /\ UNCHANGED <<backend, phase, listing, removals, known, devices_id_map, ids, listFailed>>

Unplug(o) ==
    /\ bus[o] # 0
    /\ Notify(Left([o |-> o, inc |-> bus[o]]))
    /\ bus' = [bus EXCEPT ![o] = 0]
    /\ UNCHANGED <<backend, phase, listing, removals, known, devices_id_map, ids, plugs, early,
                   listFailed>>

--------------------------------------------------------------------------------
Stream ==
    \/ Arm \/ List \/ ListReported \/ Enumerate \/ Poll \/ NextEvent
    \/ \E d \in listing : ReportArrival(d)
    \/ \E d \in removals : ReportRemoval(d)

Next ==
    \/ Stream
    \/ \E o \in Opaques : Plug(o) \/ Unplug(o)

\* The watcher keeps asking the stream for its next event.
Spec == Init /\ [][Next]_vars /\ WF_vars(Stream)

--------------------------------------------------------------------------------
\* Type invariant of the streams, their id map and the bus; no id is in the map before it was
\* given out.
TypeOK ==
    /\ backend \in Backends
    /\ phase \in {"start", "armed", "listed", "events"}
    /\ events \in Seq([kind : {"Arrived", "Left"}, dev : Devices])
    /\ listing \subseteq Devices /\ removals \subseteq Devices /\ known \subseteq Devices
    /\ devices_id_map \in [Opaques -> 0 .. Len(ids)]
    /\ ids \in Seq([dev : Devices, open : BOOLEAN])
    /\ bus \in [Opaques -> 0 .. MaxPlugs + 1]
    /\ plugs \in 1 .. MaxPlugs + 1
    /\ early \subseteq Devices
    /\ listFailed \in BOOLEAN

Drained == phase = "events" /\ events = <<>> /\ listing = {} /\ removals = {}

(* When the stream has nothing left to report, it has told of exactly the  *)
(* devices that are plugged in, each by the id of the plugging it has now, *)
(* however the list, the subscription and the pluggings interleaved.  A    *)
(* failed list leaves out devices for good (nusb.rs:41-44); a poll knows   *)
(* the bus of the poll only, and by opaque id only (rusb.rs:229-240).      *)
DrainedFeedExact ==
    Drained =>
        LET told == {ids[devices_id_map[o]].dev : o \in {p \in Opaques : devices_id_map[p] # 0}} IN
        CASE backend = "polling" -> {d.o : d \in told} = {d.o : d \in known}
          [] listFailed -> told \subseteq Present
          [] OTHER -> told = Present

(* A device is told of twice, so that its older id never hears             *)
(* Disconnected, only if it came between the subscription and the list     *)
(* (nusb.rs:56-75; the registration and its enumeration, rusb.rs:299-303). *)
DoublesOnlyFromStart ==
    \A i \in DOMAIN ids :
        ids[i].open => devices_id_map[ids[i].dev.o] = i \/ ids[i].dev \in early

(* Once devices stop coming and going, the ids of the map are those of the *)
(* devices that are plugged in, unless the first list failed.              *)
FeedSettles ==
    <>[](listFailed \/ \A o \in Opaques : devices_id_map[o] # 0 <=> bus[o] # 0)
================================================================================
