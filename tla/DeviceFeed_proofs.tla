--------------------------- MODULE DeviceFeed_proofs ---------------------------
(***************************************************************************)
(* Proofs about DeviceFeed for every choice of backends, every set of      *)
(* opaque ids and any number of pluggings.                                 *)
(*                                                                         *)
(* The argument follows one opaque id at a time: what waits in the queue   *)
(* of events for it, together with the list and the id map in front of the *)
(* queue, is a history of the bus at that place.                           *)
(***************************************************************************)
EXTENDS DeviceFeed, SequenceTheorems, FiniteSetTheorems, TLAPS

(* The inductive invariant *)

Queue == 1 .. Len(events)
\* The i-th event is an arrival, or a departure, at the opaque id o.
ArrivedAt(i, o) == events[i].kind = "Arrived" /\ events[i].dev.o = o
LeftAt(i, o) == events[i].kind = "Left" /\ events[i].dev.o = o
\* The device plugged in at o.
Holder(o) == [o |-> o, inc |-> bus[o]]

\* What a stream of the backend can have before its devices are listed and afterwards.
Phases ==
    /\ phase \in {"start", "armed"} =>
          ids = <<>> /\ listing = {} /\ \A o \in Opaques : devices_id_map[o] = 0
    /\ phase = "start" => events = <<>>
    /\ backend = "polling" => events = <<>> /\ phase \in {"start", "events"} /\ ~listFailed
    /\ backend # "polling" => removals = {} /\ (phase = "events" => listing = {})

\* The map leads to an id of a device of that place, and what is still to be listed is not
\* in the map.
MapLeads ==
    /\ \A o \in Opaques : devices_id_map[o] # 0 => ids[devices_id_map[o]].dev.o = o
    /\ \A d \in listing : devices_id_map[d.o] = 0
    /\ \A d, e \in listing : d.o = e.o => d = e

\* PollingStream: the map has the places of the last poll, but those that are still to be
\* reported, and those whose removal is.
Polled ==
    backend = "polling" =>
        /\ listing \subseteq known
        /\ \A d, e \in known : d.o = e.o => d = e
        /\ \A d, e \in removals : d.o = e.o => d = e
        /\ \A r \in removals, e \in known : r.o # e.o
        /\ \A o \in Opaques :
              devices_id_map[o] # 0 <=> \/ \E e \in known \ listing : e.o = o
                                        \/ \E r \in removals : r.o = o

\* The last event of a place is what happened last on the bus.
LastMatches ==
    \A i \in Queue : (\A k \in i + 1 .. Len(events) : events[k].dev.o # events[i].dev.o) =>
        events[i] = IF bus[events[i].dev.o] = 0 THEN Left(events[i].dev)
                                                ELSE Arrived(Holder(events[i].dev.o))

\* A place that is free has a departure behind every arrival, be it queued, listed or in
\* the map.
FreeHasLeft ==
    \A o \in Opaques : bus[o] = 0 /\ backend # "polling" =>
        /\ \A i \in Queue : ArrivedAt(i, o) => \E k \in i + 1 .. Len(events) : LeftAt(k, o)
        /\ devices_id_map[o] # 0 \/ (\E d \in listing : d.o = o) => \E k \in Queue : LeftAt(k, o)

\* A device at a place without events is listed, or in the map, or was lost with the list.
HeldIsKnown ==
    \A o \in Opaques :
        /\ bus[o] # 0 /\ backend # "polling" /\ phase \in {"listed", "events"}
        /\ \A k \in Queue : events[k].dev.o # o
        =>
        \/ Holder(o) \in listing
        \/ devices_id_map[o] # 0 /\ ids[devices_id_map[o]].dev = Holder(o)
        \/ listFailed /\ devices_id_map[o] = 0 /\ \A d \in listing : d.o # o

\* Before the list, an arrival is early, and so is who holds its place.
ArmedIsEarly ==
    phase = "armed" => \A i \in Queue, o \in Opaques : ArrivedAt(i, o) =>
        events[i].dev \in early /\ (bus[o] # 0 => Holder(o) \in early)

\* Between two arrivals at a place there is a departure, or the first of them is early; and
\* before the first one the place is neither listed nor in the map, or that device is early.
ArrivalsApart ==
    /\ \A i, j \in Queue, o \in Opaques : i < j /\ ArrivedAt(i, o) /\ ArrivedAt(j, o) =>
          events[i].dev \in early \/ \E k \in i + 1 .. j - 1 : LeftAt(k, o)
    /\ \A j \in Queue, o \in Opaques : ArrivedAt(j, o) =>
          \/ \E k \in 1 .. j - 1 : LeftAt(k, o)
          \/ /\ \A d \in listing : d.o = o => d \in early
             /\ devices_id_map[o] # 0 => ids[devices_id_map[o]].dev \in early

\* The inductive invariant.
IInv ==
    /\ TypeOK /\ Phases /\ MapLeads /\ Polled
    /\ LastMatches /\ FreeHasLeft /\ HeldIsKnown
    /\ ArmedIsEarly /\ ArrivalsApart /\ DoublesOnlyFromStart

--------------------------------------------------------------------------------
(* What the steps share *)

EventType == [kind : {"Arrived", "Left"}, dev : Devices]
IdType == [dev : Devices, open : BOOLEAN]

\* Event::Connected adds an id at the end, and the map leads to it.
LEMMA ConnectedEffect ==
    ASSUME TypeOK, NEW d \in Devices, Connected(d)
    PROVE  /\ ids' \in Seq(IdType) /\ Len(ids') = Len(ids) + 1
           /\ \A i \in 1 .. Len(ids) : ids'[i] = ids[i]
           /\ ids'[Len(ids')].dev = d
           /\ devices_id_map' \in [Opaques -> 0 .. Len(ids')]
           /\ devices_id_map'[d.o] = Len(ids')
           /\ \A o \in Opaques \ {d.o} : devices_id_map'[o] = devices_id_map[o]
  <1>1. ids \in Seq(IdType) /\ [dev |-> d, open |-> TRUE] \in IdType /\ d.o \in Opaques
    BY DEF TypeOK, IdType, Devices
  <1>2. ids' = Append(ids, [dev |-> d, open |-> TRUE])
    BY DEF Connected
  <1>3. /\ ids' \in Seq(IdType) /\ Len(ids') = Len(ids) + 1 /\ Len(ids) \in Nat
        /\ \A i \in 1 .. Len(ids) : ids'[i] = ids[i]
        /\ ids'[Len(ids) + 1] = [dev |-> d, open |-> TRUE]
    BY <1>1, <1>2
  <1>4. /\ devices_id_map \in [Opaques -> 0 .. Len(ids)]
        /\ devices_id_map' = [devices_id_map EXCEPT ![d.o] = Len(ids) + 1]
    BY DEF TypeOK, Connected
  <1> QED
    BY <1>1, <1>3, <1>4

\* Event::Disconnected closes the id the map leads to, if any, and forgets it.
LEMMA DisconnectedEffect ==
    ASSUME TypeOK, NEW d \in Devices, Disconnected(d)
    PROVE  /\ ids' \in Seq(IdType) /\ Len(ids') = Len(ids)
           /\ \A i \in 1 .. Len(ids) :
                 ids'[i].dev = ids[i].dev /\ (ids'[i].open => ids[i].open /\ i # devices_id_map[d.o])
           /\ devices_id_map' \in [Opaques -> 0 .. Len(ids')]
           /\ devices_id_map'[d.o] = 0
           /\ \A o \in Opaques \ {d.o} : devices_id_map'[o] = devices_id_map[o]
  <1>1. /\ ids \in Seq(IdType) /\ d.o \in Opaques /\ Len(ids) \in Nat
        /\ devices_id_map \in [Opaques -> 0 .. Len(ids)]
    BY DEF TypeOK, IdType, Devices
  <1>2. CASE devices_id_map[d.o] = 0
    BY <1>1, <1>2 DEF Disconnected
  <1>3. CASE devices_id_map[d.o] # 0
    <2> DEFINE n == devices_id_map[d.o]
    <2>1. /\ n \in 1 .. Len(ids)
          /\ ids' = [ids EXCEPT ![n].open = FALSE]
          /\ devices_id_map' = [devices_id_map EXCEPT ![d.o] = 0]
      BY <1>1, <1>3 DEF Disconnected
    <2> HIDE DEF n
    <2> DEFINE e == ids[n]
              f == [e EXCEPT !.open = FALSE]
    <2>2. e \in IdType
      BY <1>1, <2>1
    <2> HIDE DEF e
    <2>3. f \in IdType /\ f.dev = e.dev /\ ~f.open
      BY <2>2 DEF IdType
    <2>4. ids' = [ids EXCEPT ![n] = f]
      BY <2>1 DEF e
    <2> HIDE DEF f
    <2>5. /\ ids' \in Seq(IdType) /\ Len(ids') = Len(ids)
          /\ \A i \in 1 .. Len(ids) : i # n => ids'[i] = ids[i]
          /\ ids'[n] = f
      <3>1. /\ [ids EXCEPT ![n] = f] \in Seq(IdType) /\ Len([ids EXCEPT ![n] = f]) = Len(ids)
            /\ \A i \in 1 .. Len(ids) : i # n => [ids EXCEPT ![n] = f][i] = ids[i]
            /\ [ids EXCEPT ![n] = f][n] = f
        BY <1>1, <2>1, <2>3
      <3> QED
        BY <2>4, <3>1
    <2> QED
      BY <1>1, <2>1, <2>3, <2>5 DEF n, e
  <1> QED
    BY <1>2, <1>3

\* Every id belongs to a device, and the map leads to ids only.
LEMMA IdsLemma ==
    ASSUME TypeOK
    PROVE  /\ devices_id_map \in [Opaques -> 0 .. Len(ids)] /\ Len(ids) \in Nat
           /\ \A i \in 1 .. Len(ids) : ids[i] \in IdType
           /\ DOMAIN ids = 1 .. Len(ids)
  <1>1. ids \in Seq(IdType)
    BY DEF TypeOK, IdType
  <1>2. devices_id_map \in [Opaques -> 0 .. Len(ids)]
    BY DEF TypeOK
  <1> QED
    BY <1>1, <1>2

\* What Connected means for the map and for doubles: a device whose place is in the map
\* already is told of twice.
LEMMA ConnectedKeeps ==
    ASSUME TypeOK, MapLeads, DoublesOnlyFromStart, NEW d \in Devices, Connected(d), early' = early,
           devices_id_map[d.o] # 0 => ids[devices_id_map[d.o]].dev \in early
    PROVE  /\ \A o \in Opaques : devices_id_map'[o] # 0 => ids'[devices_id_map'[o]].dev.o = o
           /\ devices_id_map'[d.o] # 0 /\ ids'[devices_id_map'[d.o]].dev = d
           /\ \A o \in Opaques \ {d.o} :
                 /\ devices_id_map'[o] = devices_id_map[o]
                 /\ devices_id_map[o] # 0 => ids'[devices_id_map'[o]].dev = ids[devices_id_map[o]].dev
           /\ DoublesOnlyFromStart'
  <1>1. /\ devices_id_map \in [Opaques -> 0 .. Len(ids)] /\ Len(ids) \in Nat /\ d.o \in Opaques
        /\ \A i \in 1 .. Len(ids) : ids[i] \in IdType
        /\ DOMAIN ids = 1 .. Len(ids)
    BY IdsLemma DEF Devices
  <1>2. /\ ids' \in Seq(IdType) /\ Len(ids') = Len(ids) + 1
        /\ \A i \in 1 .. Len(ids) : ids'[i] = ids[i]
        /\ ids'[Len(ids')].dev = d
        /\ devices_id_map' \in [Opaques -> 0 .. Len(ids')]
        /\ devices_id_map'[d.o] = Len(ids')
        /\ \A o \in Opaques \ {d.o} : devices_id_map'[o] = devices_id_map[o]
    BY ConnectedEffect
  <1>3. \A i \in 1 .. Len(ids) : ids[i].dev.o \in Opaques
    BY <1>1 DEF IdType, Devices
  <1>4. DOMAIN ids' = 1 .. Len(ids')
    BY <1>2
  <1>5. \A o \in Opaques \ {d.o} :
           devices_id_map[o] # 0 => ids'[devices_id_map'[o]].dev = ids[devices_id_map[o]].dev
    BY <1>1, <1>2
  <1>6. DoublesOnlyFromStart'
    <2> SUFFICES ASSUME NEW i \in 1 .. Len(ids'), ids'[i].open
                 PROVE  devices_id_map'[ids'[i].dev.o] = i \/ ids'[i].dev \in early'
      BY <1>4 DEF DoublesOnlyFromStart
    <2>1. CASE i = Len(ids')
      BY <1>2, <2>1
    <2>2. CASE i \in 1 .. Len(ids)
      <3>1. ids'[i] = ids[i] /\ ids[i].open /\ ids[i].dev.o \in Opaques
        BY <1>2, <1>3, <2>2
      <3>2. devices_id_map[ids[i].dev.o] = i \/ ids[i].dev \in early
        BY <1>1, <2>2, <3>1 DEF DoublesOnlyFromStart
      <3>3. CASE ids[i].dev.o = d.o
        BY <2>2, <3>1, <3>2, <3>3
      <3>4. CASE ids[i].dev.o # d.o
        BY <1>2, <3>1, <3>2, <3>4
      <3> QED
        BY <3>3, <3>4
    <2> QED
      BY <1>1, <1>2, <2>1, <2>2
  <1> QED
    BY <1>1, <1>2, <1>5, <1>6 DEF MapLeads

\* What Disconnected means for the map and for doubles.
LEMMA DisconnectedKeeps ==
    ASSUME TypeOK, MapLeads, DoublesOnlyFromStart, NEW d \in Devices, Disconnected(d),
           early' = early
    PROVE  /\ \A o \in Opaques : devices_id_map'[o] # 0 => ids'[devices_id_map'[o]].dev.o = o
           /\ devices_id_map'[d.o] = 0
           /\ \A o \in Opaques \ {d.o} :
                 /\ devices_id_map'[o] = devices_id_map[o]
                 /\ devices_id_map[o] # 0 => ids'[devices_id_map'[o]].dev = ids[devices_id_map[o]].dev
           /\ DoublesOnlyFromStart'
  <1>1. /\ devices_id_map \in [Opaques -> 0 .. Len(ids)] /\ Len(ids) \in Nat /\ d.o \in Opaques
        /\ \A i \in 1 .. Len(ids) : ids[i] \in IdType
        /\ DOMAIN ids = 1 .. Len(ids)
    BY IdsLemma DEF Devices
  <1>2. /\ ids' \in Seq(IdType) /\ Len(ids') = Len(ids)
        /\ \A i \in 1 .. Len(ids) :
              ids'[i].dev = ids[i].dev /\ (ids'[i].open => ids[i].open /\ i # devices_id_map[d.o])
        /\ devices_id_map'[d.o] = 0
        /\ \A o \in Opaques \ {d.o} : devices_id_map'[o] = devices_id_map[o]
    BY DisconnectedEffect
  <1>3. \A i \in 1 .. Len(ids) : ids[i].dev.o \in Opaques
    BY <1>1 DEF IdType, Devices
  <1>4. DOMAIN ids' = 1 .. Len(ids)
    BY <1>2
  <1>5. \A o \in Opaques \ {d.o} :
           devices_id_map[o] # 0 => ids'[devices_id_map'[o]].dev = ids[devices_id_map[o]].dev
    BY <1>1, <1>2
  <1>6. DoublesOnlyFromStart'
    <2> SUFFICES ASSUME NEW i \in 1 .. Len(ids), ids'[i].open
                 PROVE  devices_id_map'[ids'[i].dev.o] = i \/ ids'[i].dev \in early'
      BY <1>4 DEF DoublesOnlyFromStart
    <2>1. /\ ids'[i].dev = ids[i].dev /\ ids[i].open /\ i # devices_id_map[d.o]
          /\ ids[i].dev.o \in Opaques
      BY <1>2, <1>3
    <2>2. devices_id_map[ids[i].dev.o] = i \/ ids[i].dev \in early
      BY <1>1, <2>1 DEF DoublesOnlyFromStart
    <2> QED
      BY <1>2, <2>1, <2>2
  <1> QED
    BY <1>1, <1>2, <1>5, <1>6 DEF MapLeads

\* At a place of the bus there is one device at most.
LEMMA PresentLemma ==
    ASSUME TypeOK
    PROVE  /\ Present \subseteq Devices
           /\ \A o \in Opaques : bus[o] # 0 => Holder(o) \in Present /\ Holder(o).o = o
           /\ \A d \in Present : d.o \in Opaques /\ bus[d.o] # 0 /\ d = Holder(d.o)
  BY ConstantsAssumption DEF TypeOK, Present, Devices, Holder

\* Everything in the queue is an event of a device.
LEMMA QueueLemma ==
    ASSUME TypeOK
    PROVE  /\ Len(events) \in Nat
           /\ \A i \in Queue : /\ events[i] \in EventType /\ events[i].kind \in {"Arrived", "Left"}
                               /\ events[i].dev \in Devices /\ events[i].dev.o \in Opaques
  <1>1. Len(events) \in Nat /\ \A i \in Queue : events[i] \in EventType
    <2>1. events \in Seq(EventType)
      BY DEF TypeOK, EventType
    <2> QED
      BY <2>1 DEF Queue
  <1> QED
    BY <1>1 DEF EventType, Devices

--------------------------------------------------------------------------------
(* The steps *)

\* The subscription: nothing is known yet.
LEMMA ArmStep ==
    ASSUME IInv, Arm
    PROVE  IInv'
  <1> USE DEF IInv
  <1>1. /\ events = <<>> /\ phase' = "armed"
        /\ UNCHANGED <<world, events, listing, removals, known, devices_id_map, ids, listFailed>>
    BY DEF Arm, Phases
  <1>2. Len(events) = 0 /\ Queue = {} /\ Queue' = {}
    BY <1>1 DEF Queue
  <1>3. TypeOK' /\ Phases' /\ MapLeads' /\ Polled' /\ DoublesOnlyFromStart'
    BY <1>1 DEF Arm, TypeOK, Phases, MapLeads, Polled, DoublesOnlyFromStart, world
  <1>4. LastMatches' /\ FreeHasLeft' /\ HeldIsKnown' /\ ArmedIsEarly' /\ ArrivalsApart'
    BY <1>1, <1>2 DEF LastMatches, FreeHasLeft, HeldIsKnown, ArmedIsEarly, ArrivalsApart,
                      LeftAt, world
  <1> QED
    BY <1>3, <1>4

\* The list of nusb: it has whoever is there, or is lost.
LEMMA ListStep ==
    ASSUME IInv, List
    PROVE  IInv'
  <1> USE DEF IInv
  <1>1. /\ phase = "armed" /\ phase' = "listed" /\ backend = "nusb"
        /\ UNCHANGED <<world, events, removals, known, devices_id_map, ids>>
        /\ listing' = Present \/ (listing' = {} /\ listFailed')
    BY DEF List
  <1>2. \A o \in Opaques : devices_id_map[o] = 0
    BY <1>1 DEF Phases
  <1>3. \A d \in listing' : d \in Devices /\ d.o \in Opaques /\ bus[d.o] # 0 /\ d = Holder(d.o)
    BY <1>1, PresentLemma
  <1>4. TypeOK'
    <2>1. listFailed' \in BOOLEAN
      BY Zenon DEF List, TypeOK
    <2> QED
      BY <1>1, <1>3, <2>1 DEF TypeOK, world
  <1>5. Phases' /\ Polled' /\ DoublesOnlyFromStart' /\ MapLeads'
    BY <1>1, <1>2, <1>3 DEF Phases, Polled, DoublesOnlyFromStart, MapLeads, world
  <1>6. LastMatches' /\ ArmedIsEarly'
    BY <1>1 DEF LastMatches, ArmedIsEarly, Queue, Holder, world
  <1>7. FreeHasLeft'
    BY <1>1, <1>2, <1>3 DEF FreeHasLeft, Queue, ArrivedAt, LeftAt, world
  <1>8. HeldIsKnown'
    BY <1>1, <1>2, PresentLemma DEF HeldIsKnown, Queue, Holder, world
  <1>9. ArrivalsApart'
    <2>1. \A j \in Queue, o \in Opaques : ArrivedAt(j, o) =>
             \A d \in listing' : d.o = o => d \in early
      BY <1>1, <1>3 DEF ArmedIsEarly
    <2> QED
      BY <1>1, <1>2, <2>1 DEF ArrivalsApart, Queue, ArrivedAt, LeftAt, world
  <1> QED
    BY <1>4, <1>5, <1>6, <1>7, <1>8, <1>9

\* The list is reported, and the events are next.
LEMMA ListReportedStep ==
    ASSUME IInv, ListReported
    PROVE  IInv'
  <1> USE DEF IInv
  <1>1. /\ phase = "listed" /\ phase' = "events" /\ listing = {}
        /\ UNCHANGED <<world, events, listing, removals, known, devices_id_map, ids, listFailed>>
    BY DEF ListReported
  <1>2. TypeOK' /\ Phases' /\ Polled' /\ DoublesOnlyFromStart' /\ MapLeads'
    BY <1>1 DEF TypeOK, Phases, Polled, DoublesOnlyFromStart, MapLeads, world
  <1>3. LastMatches' /\ FreeHasLeft' /\ ArmedIsEarly' /\ ArrivalsApart'
    BY <1>1 DEF LastMatches, FreeHasLeft, ArmedIsEarly, ArrivalsApart, Queue, ArrivedAt, LeftAt,
                Holder, world
  <1>4. HeldIsKnown'
    BY <1>1 DEF HeldIsKnown, Queue, Holder, world
  <1> QED
    BY <1>2, <1>3, <1>4

\* A poll compares the places of the bus with those of the last poll, which are those of the
\* map as nothing is pending.
LEMMA PollStep ==
    ASSUME IInv, Poll
    PROVE  IInv'
  <1> USE DEF IInv
  <1>1. /\ backend = "polling" /\ listing = {} /\ removals = {} /\ phase' = "events"
        /\ listing' = NotIn(Present, known) /\ removals' = NotIn(known, Present)
        /\ known' = Present
        /\ UNCHANGED <<world, events, devices_id_map, ids, listFailed>>
    BY DEF Poll
  <1>2. /\ Present \subseteq Devices /\ \A d, e \in Present : d.o = e.o => d = e
        /\ \A d \in Present : d.o \in Opaques
    BY PresentLemma
  <1>3. \A o \in Opaques : devices_id_map[o] # 0 <=> \E e \in known : e.o = o
    BY <1>1 DEF Polled
  <1>4. TypeOK'
    BY <1>1, <1>2 DEF TypeOK, NotIn, world
  <1>5. Phases'
    BY <1>1 DEF Phases, world
  <1>6. MapLeads'
    BY <1>1, <1>2, <1>3 DEF MapLeads, NotIn
  <1>7. Polled'
    <2>1. /\ listing' \subseteq known' /\ \A d, e \in known' : d.o = e.o => d = e
          /\ \A d, e \in removals' : d.o = e.o => d = e
          /\ \A r \in removals', e \in known' : r.o # e.o
      BY <1>1, <1>2 DEF Polled, NotIn
    <2>2. ASSUME NEW o \in Opaques
          PROVE  devices_id_map'[o] # 0 <=> \/ \E e \in known' \ listing' : e.o = o
                                            \/ \E r \in removals' : r.o = o
      BY <1>1, <1>3 DEF NotIn
    <2> QED
      BY <2>1, <2>2 DEF Polled
  <1>8. events = <<>> /\ events' = <<>>
    BY <1>1 DEF Phases
  <1>9. LastMatches' /\ FreeHasLeft' /\ HeldIsKnown' /\ ArmedIsEarly' /\ ArrivalsApart'
    BY <1>1, <1>8 DEF LastMatches, FreeHasLeft, HeldIsKnown, ArmedIsEarly, ArrivalsApart, Queue,
                      world
  <1>10. DoublesOnlyFromStart'
    BY <1>1 DEF DoublesOnlyFromStart, world
  <1> QED
    BY <1>4, <1>5, <1>6, <1>7, <1>9, <1>10

\* A device of the list or of a poll is reported.  Its place was not in the map.
LEMMA ReportArrivalStep ==
    ASSUME IInv, NEW d \in listing, ReportArrival(d)
    PROVE  IInv'
  <1> USE DEF IInv
  <1>1. /\ phase \in {"listed", "events"} /\ Connected(d) /\ listing' = listing \ {d}
        /\ UNCHANGED <<world, phase, events, removals, known, listFailed>>
    BY DEF ReportArrival
  <1>2. d \in Devices /\ d.o \in Opaques /\ devices_id_map[d.o] = 0
    BY DEF TypeOK, Devices, MapLeads
  <1>3. early' = early
    BY <1>1 DEF world
  <1>4. /\ \A o \in Opaques : devices_id_map'[o] # 0 => ids'[devices_id_map'[o]].dev.o = o
        /\ devices_id_map'[d.o] # 0 /\ ids'[devices_id_map'[d.o]].dev = d
        /\ \A o \in Opaques \ {d.o} :
              /\ devices_id_map'[o] = devices_id_map[o]
              /\ devices_id_map[o] # 0 => ids'[devices_id_map'[o]].dev = ids[devices_id_map[o]].dev
        /\ DoublesOnlyFromStart'
    BY <1>1, <1>2, <1>3, ConnectedKeeps
  <1>5. TypeOK'
    <2>1. ids' \in Seq(IdType) /\ devices_id_map' \in [Opaques -> 0 .. Len(ids')]
      BY <1>1, <1>2, ConnectedEffect
    <2> QED
      BY <1>1, <2>1 DEF TypeOK, IdType, world
  <1>6. Phases'
    BY <1>1 DEF Phases, world
  <1>7. MapLeads'
    <2>1. \A e \in listing' : e \in listing /\ e.o \in Opaques \ {d.o}
      BY <1>1 DEF MapLeads, TypeOK, Devices
    <2> QED
      BY <1>1, <1>4, <2>1 DEF MapLeads
  <1>8. Polled'
    <2> SUFFICES ASSUME backend = "polling"
                 PROVE  \A o \in Opaques :
                          devices_id_map'[o] # 0 <=> \/ \E e \in known \ listing' : e.o = o
                                                     \/ \E r \in removals : r.o = o
      BY <1>1 DEF Polled, world
    <2>1. ASSUME NEW o \in Opaques, o # d.o
          PROVE  devices_id_map'[o] # 0 <=> \/ \E e \in known \ listing' : e.o = o
                                            \/ \E r \in removals : r.o = o
      BY <1>1, <1>4, <2>1 DEF Polled
    <2>2. d \in known \ listing'
      BY <1>1 DEF Polled
    <2> QED
      BY <1>4, <2>1, <2>2
  <1>9. LastMatches' /\ ArmedIsEarly'
    BY <1>1 DEF LastMatches, ArmedIsEarly, Queue, Holder, world
  <1>10. FreeHasLeft'
    <2> SUFFICES ASSUME NEW o \in Opaques, bus[o] = 0, backend # "polling",
                        devices_id_map'[o] # 0 \/ \E e \in listing' : e.o = o
                 PROVE  \E k \in Queue : LeftAt(k, o)
      BY <1>1 DEF FreeHasLeft, Queue, ArrivedAt, LeftAt, world
    <2>1. devices_id_map[o] # 0 \/ \E e \in listing : e.o = o
      BY <1>1, <1>4
    <2> QED
      BY <2>1 DEF FreeHasLeft
  <1>11. HeldIsKnown'
    <2> SUFFICES ASSUME NEW o \in Opaques, bus[o] # 0, backend # "polling",
                        \A k \in Queue : events[k].dev.o # o
                 PROVE  \/ Holder(o) \in listing'
                        \/ devices_id_map'[o] # 0 /\ ids'[devices_id_map'[o]].dev = Holder(o)
                        \/ listFailed /\ devices_id_map'[o] = 0 /\ \A e \in listing' : e.o # o
      BY <1>1 DEF HeldIsKnown, Queue, Holder, world
    <2>1. \/ Holder(o) \in listing
          \/ devices_id_map[o] # 0 /\ ids[devices_id_map[o]].dev = Holder(o)
          \/ listFailed /\ devices_id_map[o] = 0 /\ \A e \in listing : e.o # o
      BY <1>1 DEF HeldIsKnown
    <2>2. Holder(o).o = o
      BY DEF Holder
    <2>3. CASE o = d.o
      BY <1>1, <1>2, <1>4, <2>1, <2>2, <2>3 DEF MapLeads
    <2>4. CASE o # d.o
      BY <1>1, <1>4, <2>1, <2>2, <2>4
    <2> QED
      BY <2>3, <2>4
  <1>12. ArrivalsApart'
    <2> SUFFICES ASSUME NEW j \in Queue, NEW o \in Opaques, ArrivedAt(j, o)
                 PROVE  \/ \E k \in 1 .. j - 1 : LeftAt(k, o)
                        \/ /\ \A e \in listing' : e.o = o => e \in early
                           /\ devices_id_map'[o] # 0 => ids'[devices_id_map'[o]].dev \in early
      BY <1>1, <1>3 DEF ArrivalsApart, Queue, ArrivedAt, LeftAt
    <2>1. CASE \E k \in 1 .. j - 1 : LeftAt(k, o)
      BY <2>1
    <2>2. CASE /\ \A e \in listing : e.o = o => e \in early
               /\ devices_id_map[o] # 0 => ids[devices_id_map[o]].dev \in early
      <3>1. CASE o = d.o
        BY <1>1, <1>4, <2>2, <3>1
      <3>2. CASE o # d.o
        BY <1>1, <1>4, <2>2, <3>2
      <3> QED
        BY <3>1, <3>2
    <2> QED
      BY <2>1, <2>2 DEF ArrivalsApart
  <1> QED
    BY <1>4, <1>5, <1>6, <1>7, <1>8, <1>9, <1>10, <1>11, <1>12

\* The removal that a poll found is reported.
LEMMA ReportRemovalStep ==
    ASSUME IInv, NEW d \in removals, ReportRemoval(d)
    PROVE  IInv'
  <1> USE DEF IInv
  <1>1. /\ listing = {} /\ Disconnected(d) /\ removals' = removals \ {d}
        /\ UNCHANGED <<world, phase, events, listing, known, listFailed>>
    BY DEF ReportRemoval
  <1>2. backend = "polling" /\ events = <<>> /\ d \in Devices /\ d.o \in Opaques
    BY DEF TypeOK, Devices, Phases
  <1>3. early' = early /\ backend' = "polling" /\ events' = <<>>
    BY <1>1, <1>2 DEF world
  <1>4. /\ \A o \in Opaques : devices_id_map'[o] # 0 => ids'[devices_id_map'[o]].dev.o = o
        /\ devices_id_map'[d.o] = 0
        /\ \A o \in Opaques \ {d.o} : devices_id_map'[o] = devices_id_map[o]
        /\ DoublesOnlyFromStart'
    BY <1>1, <1>2, <1>3, DisconnectedKeeps
  <1>5. TypeOK' /\ (ids = <<>> => ids' = <<>>)
    <2>1. /\ ids' \in Seq(IdType) /\ devices_id_map' \in [Opaques -> 0 .. Len(ids')]
          /\ Len(ids') = Len(ids)
      BY <1>1, <1>2, DisconnectedEffect
    <2> QED
      BY <1>1, <2>1 DEF TypeOK, IdType, world
  <1>6. Phases'
    BY <1>1, <1>2, <1>3, <1>4, <1>5 DEF Phases
  <1>7. MapLeads'
    BY <1>1, <1>4 DEF MapLeads
  <1>8. Polled'
    <2>1. ASSUME NEW o \in Opaques
          PROVE  devices_id_map'[o] # 0 <=> \/ \E e \in known \ listing : e.o = o
                                            \/ \E r \in removals' : r.o = o
      <3>1. CASE o = d.o
        BY <1>1, <1>2, <1>4, <3>1 DEF Polled
      <3>2. CASE o # d.o
        BY <1>1, <1>2, <1>4, <3>2 DEF Polled
      <3> QED
        BY <3>1, <3>2
    <2> QED
      BY <1>1, <1>2, <2>1 DEF Polled
  <1>9. LastMatches' /\ FreeHasLeft' /\ HeldIsKnown' /\ ArmedIsEarly' /\ ArrivalsApart'
    BY <1>3 DEF LastMatches, FreeHasLeft, HeldIsKnown, ArmedIsEarly, ArrivalsApart, Queue
  <1> QED
    BY <1>4, <1>5, <1>6, <1>7, <1>8, <1>9

\* The next event of the system is taken from the queue and reported.
LEMMA NextEventStep ==
    ASSUME IInv, NextEvent
    PROVE  IInv'
  <1> USE DEF IInv
  <1> DEFINE d == events[1].dev
             n == Len(events)
  <1>1. /\ phase = "events" /\ events # <<>> /\ events' = Tail(events)
        /\ UNCHANGED <<world, phase, listing, removals, known, listFailed>>
    BY DEF NextEvent
  <1>2. backend # "polling" /\ listing = {} /\ removals = {}
    BY <1>1 DEF Phases
  <1>3. /\ n \in Nat /\ n >= 1 /\ Len(events') = n - 1 /\ 1 \in Queue
        /\ Queue = 1 .. n /\ Queue' = 1 .. n - 1
        /\ \A i \in 1 .. n - 1 : events'[i] = events[i + 1] /\ i + 1 \in Queue
        /\ events' \in Seq(EventType) /\ Head(events) = events[1]
    <2>1. events \in Seq(EventType)
      BY DEF TypeOK, EventType
    <2> QED
      BY <1>1, <2>1 DEF Queue
  <1>4. d \in Devices /\ d.o \in Opaques
    BY <1>3, QueueLemma
  <1>5. \/ events[1].kind = "Arrived" /\ Connected(d)
        \/ events[1].kind = "Left" /\ Disconnected(d)
    BY <1>3 DEF NextEvent
  <1>6. early' = early /\ bus' = bus /\ backend' = backend
    BY <1>1 DEF world
  <1> HIDE DEF d, n
  <1>7. (events[1].kind = "Arrived" /\ devices_id_map[d.o] # 0) =>
            ids[devices_id_map[d.o]].dev \in early
    BY <1>3, <1>4 DEF ArrivalsApart, ArrivedAt, d
  <1>8. /\ \A o \in Opaques : devices_id_map'[o] # 0 => ids'[devices_id_map'[o]].dev.o = o
        /\ events[1].kind = "Arrived" =>
              devices_id_map'[d.o] # 0 /\ ids'[devices_id_map'[d.o]].dev = d
        /\ events[1].kind = "Left" => devices_id_map'[d.o] = 0
        /\ \A o \in Opaques \ {d.o} :
              /\ devices_id_map'[o] = devices_id_map[o]
              /\ devices_id_map[o] # 0 => ids'[devices_id_map'[o]].dev = ids[devices_id_map[o]].dev
        /\ DoublesOnlyFromStart'
    <2>1. CASE events[1].kind = "Arrived" /\ Connected(d)
      BY <1>4, <1>6, <1>7, <2>1, ConnectedKeeps
    <2>2. CASE events[1].kind = "Left" /\ Disconnected(d)
      BY <1>4, <1>6, <2>2, DisconnectedKeeps
    <2> QED
      BY <1>5, <2>1, <2>2
  <1>9. TypeOK'
    <2>1. ids' \in Seq(IdType) /\ devices_id_map' \in [Opaques -> 0 .. Len(ids')]
      BY <1>4, <1>5, ConnectedEffect, DisconnectedEffect
    <2> QED
      BY <1>1, <1>3, <2>1 DEF TypeOK, IdType, EventType, world
  <1>10. Phases' /\ MapLeads' /\ Polled' /\ ArmedIsEarly'
    BY <1>1, <1>2, <1>6, <1>8 DEF Phases, MapLeads, Polled, ArmedIsEarly
  <1>11. LastMatches'
    <2> SUFFICES ASSUME NEW i \in 1 .. n - 1,
                        \A k \in i + 1 .. n - 1 : events'[k].dev.o # events'[i].dev.o
                 PROVE  events'[i] = IF bus[events'[i].dev.o] = 0
                                     THEN Left(events'[i].dev)
                                     ELSE Arrived(Holder(events'[i].dev.o))
      BY <1>3, <1>6 DEF LastMatches, Holder
    <2>1. \A k \in (i + 1) + 1 .. n : events[k].dev.o # events[i + 1].dev.o
      <3> TAKE k \in (i + 1) + 1 .. n
      <3>1. k - 1 \in i + 1 .. n - 1 /\ events'[k - 1] = events[k]
        BY <1>3
      <3> QED
        BY <1>3, <3>1
    <2> QED
      BY <1>3, <2>1 DEF LastMatches, n
  <1>12. FreeHasLeft'
    <2> SUFFICES ASSUME NEW o \in Opaques, bus[o] = 0
                 PROVE  /\ \A i \in 1 .. n - 1 : ArrivedAt(i, o)' =>
                              \E k \in i + 1 .. n - 1 : LeftAt(k, o)'
                        /\ devices_id_map'[o] # 0 => \E k \in 1 .. n - 1 : LeftAt(k, o)'
      BY <1>1, <1>2, <1>3, <1>6 DEF FreeHasLeft
    <2>1. ASSUME NEW i \in 1 .. n, ArrivedAt(i, o)
          PROVE  \E k \in i .. n - 1 : LeftAt(k, o)'
      <3>1. PICK k \in i + 1 .. n : LeftAt(k, o)
        BY <1>2, <1>3, <2>1 DEF FreeHasLeft, n
      <3>2. k - 1 \in i .. n - 1 /\ k - 1 \in 1 .. n - 1 /\ (k - 1) + 1 = k
        BY <1>3
      <3>3. events'[k - 1] = events[k]
        BY <1>3, <3>2
      <3> QED
        BY <3>1, <3>2, <3>3 DEF LeftAt
    <2>2. ASSUME NEW i \in 1 .. n - 1, ArrivedAt(i, o)'
          PROVE  \E k \in i + 1 .. n - 1 : LeftAt(k, o)'
      <3>1. i + 1 \in 1 .. n /\ ArrivedAt(i + 1, o)
        BY <1>3, <2>2 DEF ArrivedAt
      <3> QED
        BY <2>1, <3>1
    <2>3. ASSUME devices_id_map'[o] # 0
          PROVE  \E k \in 1 .. n - 1 : LeftAt(k, o)'
      <3>1. CASE o = d.o
        <4>1. ArrivedAt(1, o) /\ 1 \in 1 .. n
          BY <1>3, <1>5, <1>8, <2>3, <3>1 DEF ArrivedAt, d
        <4> QED
          BY <2>1, <4>1
      <3>2. CASE o # d.o
        <4>1. PICK k \in 1 .. n : LeftAt(k, o)
          BY <1>2, <1>3, <1>8, <2>3, <3>2 DEF FreeHasLeft
        <4>2. k # 1
          BY <3>2, <4>1 DEF LeftAt, d
        <4>3. k - 1 \in 1 .. n - 1 /\ (k - 1) + 1 = k
          BY <1>3, <4>2
        <4>4. events'[k - 1] = events[k]
          BY <1>3, <4>3
        <4> QED
          BY <4>1, <4>3, <4>4 DEF LeftAt
      <3> QED
        BY <3>1, <3>2
    <2> QED
      BY <2>2, <2>3
  <1>13. HeldIsKnown'
    <2> SUFFICES ASSUME NEW o \in Opaques, bus[o] # 0,
                        \A k \in 1 .. n - 1 : events'[k].dev.o # o
                 PROVE  \/ devices_id_map'[o] # 0 /\ ids'[devices_id_map'[o]].dev = Holder(o)
                        \/ listFailed /\ devices_id_map'[o] = 0
      BY <1>1, <1>2, <1>3, <1>6 DEF HeldIsKnown, Holder
    <2>1. \A k \in 2 .. n : events[k].dev.o # o
      <3> TAKE k \in 2 .. n
      <3>1. k - 1 \in 1 .. n - 1 /\ (k - 1) + 1 = k
        BY <1>3
      <3> QED
        BY <1>3, <3>1
    <2>2. CASE o = d.o
      <3>1. events[1] = Arrived(Holder(o))
        BY <1>3, <2>1, <2>2 DEF LastMatches, d, n
      <3>2. events[1].kind = "Arrived" /\ d = Holder(o)
        BY <3>1 DEF Arrived, d
      <3> QED
        BY <1>8, <2>2, <3>2
    <2>3. CASE o # d.o
      <3>1. \A k \in 1 .. n : events[k].dev.o # o
        BY <1>3, <2>1, <2>3 DEF d
      <3>2. \/ devices_id_map[o] # 0 /\ ids[devices_id_map[o]].dev = Holder(o)
            \/ listFailed /\ devices_id_map[o] = 0
        BY <1>1, <1>2, <1>3, <3>1 DEF HeldIsKnown
      <3> QED
        BY <1>8, <2>3, <3>2
    <2> QED
      BY <2>2, <2>3
  <1>14. ArrivalsApart'
    <2>1. ASSUME NEW i \in 1 .. n - 1, NEW j \in 1 .. n - 1, NEW o \in Opaques,
                 i < j, ArrivedAt(i, o)', ArrivedAt(j, o)'
          PROVE  events'[i].dev \in early \/ \E k \in i + 1 .. j - 1 : LeftAt(k, o)'
      <3>1. /\ i + 1 \in Queue /\ j + 1 \in Queue /\ i + 1 < j + 1
            /\ ArrivedAt(i + 1, o) /\ ArrivedAt(j + 1, o)
        <4>1. events'[i] = events[i + 1] /\ events'[j] = events[j + 1]
          BY <1>3
        <4> QED
          BY <1>3, <2>1, <4>1 DEF ArrivedAt
      <3>2. \/ events[i + 1].dev \in early
            \/ \E k \in (i + 1) + 1 .. (j + 1) - 1 : LeftAt(k, o)
        BY <3>1 DEF ArrivalsApart
      <3>3. ASSUME NEW k \in (i + 1) + 1 .. (j + 1) - 1, LeftAt(k, o)
            PROVE  \E m \in i + 1 .. j - 1 : LeftAt(m, o)'
        <4>1. k - 1 \in i + 1 .. j - 1 /\ k - 1 \in 1 .. n - 1 /\ (k - 1) + 1 = k
          BY <1>3
        <4>2. events'[k - 1] = events[k]
          BY <1>3, <4>1
        <4> QED
          BY <3>3, <4>1, <4>2 DEF LeftAt
      <3> QED
        BY <1>3, <3>2, <3>3
    <2>2. ASSUME NEW j \in 1 .. n - 1, NEW o \in Opaques, ArrivedAt(j, o)'
          PROVE  \/ \E k \in 1 .. j - 1 : LeftAt(k, o)'
                 \/ devices_id_map'[o] # 0 => ids'[devices_id_map'[o]].dev \in early
      <3>1. j + 1 \in Queue /\ ArrivedAt(j + 1, o)
        BY <1>3, <2>2 DEF ArrivedAt
      <3>2. ASSUME NEW k \in 2 .. (j + 1) - 1, LeftAt(k, o)
            PROVE  \E m \in 1 .. j - 1 : LeftAt(m, o)'
        <4>1. k - 1 \in 1 .. j - 1 /\ k - 1 \in 1 .. n - 1 /\ (k - 1) + 1 = k
          BY <1>3
        <4>2. events'[k - 1] = events[k]
          BY <1>3, <4>1
        <4> QED
          BY <3>2, <4>1, <4>2 DEF LeftAt
      <3>3. CASE o = d.o /\ events[1].kind = "Arrived"
        <4>1. ArrivedAt(1, o) /\ 1 < j + 1
          BY <1>3, <3>3 DEF ArrivedAt, d
        <4>2. events[1].dev \in early \/ \E k \in 1 + 1 .. (j + 1) - 1 : LeftAt(k, o)
          BY <1>3, <3>1, <4>1 DEF ArrivalsApart
        <4> QED
          BY <1>8, <3>2, <3>3, <4>2 DEF d
      <3>4. CASE o = d.o /\ events[1].kind = "Left"
        BY <1>8, <3>4
      <3>5. CASE o # d.o
        <4>1. \/ \E k \in 1 .. (j + 1) - 1 : LeftAt(k, o)
              \/ devices_id_map[o] # 0 => ids[devices_id_map[o]].dev \in early
          BY <3>1 DEF ArrivalsApart
        <4>2. ~LeftAt(1, o)
          BY <3>5 DEF LeftAt, d
        <4>3. \/ \E k \in 2 .. (j + 1) - 1 : LeftAt(k, o)
              \/ devices_id_map[o] # 0 => ids[devices_id_map[o]].dev \in early
          BY <4>1, <4>2
        <4> QED
          BY <1>8, <3>2, <3>5, <4>3
      <3> QED
        BY <1>5, <3>3, <3>4, <3>5
    <2> QED
      BY <1>1, <1>2, <1>3, <1>6, <2>1, <2>2 DEF ArrivalsApart
  <1> QED
    BY <1>8, <1>9, <1>10, <1>11, <1>12, <1>13, <1>14

\* Appending to the queue: what was there stays, and the new event is the last.
LEMMA AppendLemma ==
    ASSUME TypeOK, NEW e \in EventType, events' = Append(events, e)
    PROVE  /\ events' \in Seq(EventType) /\ Len(events) \in Nat
           /\ Queue = 1 .. Len(events)
           /\ Len(events') = Len(events) + 1 /\ Queue' = 1 .. Len(events) + 1
           /\ \A i \in Queue : events'[i] = events[i]
           /\ events'[Len(events) + 1] = e
  <1>1. events \in Seq(EventType)
    BY DEF TypeOK, EventType
  <1> QED
    BY <1>1 DEF Queue

\* A device is plugged in at a free place.  Where a departure is behind every arrival, the
\* new arrival follows a departure.
LEMMA PlugStep ==
    ASSUME IInv, NEW p \in Opaques, Plug(p)
    PROVE  IInv'
  <1> USE DEF IInv
  <1> DEFINE d == [o |-> p, inc |-> plugs + 1]
             n == Len(events)
  <1>1. /\ bus[p] = 0 /\ plugs <= MaxPlugs /\ plugs' = plugs + 1
        /\ bus' = [bus EXCEPT ![p] = plugs + 1]
        /\ early' = IF phase = "armed" THEN early \cup {d} ELSE early
        /\ Notify(Arrived(d))
        /\ UNCHANGED <<backend, phase, listing, removals, known, devices_id_map, ids, listFailed>>
    BY DEF Plug
  <1>2. /\ d \in Devices /\ Arrived(d) \in EventType /\ plugs \in Nat
        /\ early \subseteq early' /\ early' \subseteq Devices
        /\ bus' \in [Opaques -> 0 .. MaxPlugs + 1] /\ bus'[p] = plugs + 1 /\ bus'[p] # 0
        /\ \A o \in Opaques \ {p} : bus'[o] = bus[o]
        /\ d.o = p /\ Arrived(d).dev = d /\ Arrived(d).kind = "Arrived"
    BY <1>1, ConstantsAssumption DEF TypeOK, Devices, Arrived, EventType
  <1>3. Holder(p)' = d /\ \A o \in Opaques \ {p} : Holder(o)' = Holder(o)
    BY <1>2 DEF Holder
  <1>4. Phases' \/ events' # events
    BY <1>1 DEF Phases
  <1>5. MapLeads' /\ Polled'
    BY <1>1 DEF MapLeads, Polled
  <1>6. DoublesOnlyFromStart'
    BY <1>1, <1>2 DEF DoublesOnlyFromStart
  <1>7. CASE events' = events /\ (backend = "polling" \/ phase = "start")
    <2>1. events = <<>> /\ Queue = {} /\ Queue' = {}
      BY <1>7 DEF Phases, Queue
    <2>2. TypeOK'
      BY <1>1, <1>2, <1>7, ConstantsAssumption DEF TypeOK
    <2>3. \A o \in Opaques : bus'[o] = 0 => bus[o] = 0
      BY <1>1, <1>2
    <2>4. FreeHasLeft'
      BY <1>1, <2>1, <2>3 DEF FreeHasLeft, LeftAt
    <2>5. LastMatches' /\ HeldIsKnown' /\ ArmedIsEarly' /\ ArrivalsApart'
      BY <1>1, <1>7, <2>1 DEF LastMatches, HeldIsKnown, ArmedIsEarly, ArrivalsApart
    <2> QED
      BY <1>4, <1>5, <1>6, <1>7, <2>2, <2>4, <2>5
  <1>8. CASE events' = Append(events, Arrived(d)) /\ backend # "polling" /\ phase # "start"
    <2> HIDE DEF d, n
    <2>1. /\ events' \in Seq(EventType) /\ n \in Nat
          /\ Queue = 1 .. n /\ Len(events') = n + 1 /\ Queue' = 1 .. n + 1
          /\ \A i \in Queue : events'[i] = events[i]
          /\ events'[n + 1] = Arrived(d)
      BY <1>2, <1>8, AppendLemma DEF n
    <2>2. TypeOK'
      BY <1>1, <1>2, <2>1, ConstantsAssumption DEF TypeOK, EventType
    <2>3. Phases'
      BY <1>1, <1>8 DEF Phases
    <2>4. \A i \in Queue : events[i].dev.o \in Opaques
      BY QueueLemma
    <2>5. LastMatches'
      <3> SUFFICES ASSUME NEW i \in 1 .. n + 1,
                          \A k \in i + 1 .. n + 1 : events'[k].dev.o # events'[i].dev.o
                   PROVE  events'[i] = IF bus'[events'[i].dev.o] = 0
                                       THEN Left(events'[i].dev)
                                       ELSE Arrived([o |-> events'[i].dev.o,
                                                     inc |-> bus'[events'[i].dev.o]])
        BY <2>1 DEF LastMatches, Holder, Arrived, Left
      <3>1. CASE i = n + 1
        <4>1. events'[i] = Arrived(d) /\ events'[i].dev = d /\ d.o = p
          BY <1>2, <2>1, <3>1
        <4>2. d = [o |-> p, inc |-> bus'[p]]
          BY <1>2 DEF d
        <4> QED
          BY <1>2, <4>1, <4>2
      <3>2. CASE i \in 1 .. n
        <4>1. events'[i] = events[i] /\ events[i].dev.o # p /\ events[i].dev.o \in Opaques
          BY <1>2, <2>1, <2>4, <3>2
        <4>2. \A k \in i + 1 .. n : events[k].dev.o # events[i].dev.o
          BY <2>1, <3>2
        <4>3. events[i] = IF bus[events[i].dev.o] = 0 THEN Left(events[i].dev)
                          ELSE Arrived(Holder(events[i].dev.o))
          BY <2>1, <3>2, <4>2 DEF LastMatches, n
        <4> QED
          BY <1>2, <4>1, <4>3 DEF Holder
      <3> QED
        BY <2>1, <3>1, <3>2
    <2>6. FreeHasLeft'
      <3> SUFFICES ASSUME NEW o \in Opaques, bus'[o] = 0
                   PROVE  /\ \A i \in 1 .. n + 1 : ArrivedAt(i, o)' =>
                                \E k \in i + 1 .. n + 1 : LeftAt(k, o)'
                          /\ devices_id_map[o] # 0 \/ (\E e \in listing : e.o = o) =>
                                \E k \in 1 .. n + 1 : LeftAt(k, o)'
        BY <1>1, <2>1 DEF FreeHasLeft
      <3>1. o # p /\ bus[o] = 0
        BY <1>2
      <3>2. \A k \in 1 .. n : LeftAt(k, o) => LeftAt(k, o)'
        BY <2>1 DEF LeftAt
      <3>3. \A i \in 1 .. n + 1 : ArrivedAt(i, o)' => i \in 1 .. n /\ ArrivedAt(i, o)
        BY <1>2, <2>1, <3>1 DEF ArrivedAt
      <3>4. \A i \in 1 .. n : ArrivedAt(i, o) => \E k \in i + 1 .. n : LeftAt(k, o)
        BY <1>8, <2>1, <3>1 DEF FreeHasLeft, n
      <3>5. devices_id_map[o] # 0 \/ (\E e \in listing : e.o = o) => \E k \in 1 .. n : LeftAt(k, o)
        BY <1>8, <2>1, <3>1 DEF FreeHasLeft
      <3> QED
        BY <2>1, <3>2, <3>3, <3>4, <3>5
    <2>7. HeldIsKnown'
      <3> SUFFICES ASSUME NEW o \in Opaques, bus'[o] # 0, phase \in {"listed", "events"},
                          \A k \in 1 .. n + 1 : events'[k].dev.o # o
                   PROVE  \/ Holder(o)' \in listing
                          \/ devices_id_map[o] # 0 /\ ids[devices_id_map[o]].dev = Holder(o)'
                          \/ listFailed /\ devices_id_map[o] = 0 /\ \A e \in listing : e.o # o
        BY <1>1, <2>1 DEF HeldIsKnown, Holder
      <3>1. o # p
        BY <1>2, <2>1
      <3>2. \A k \in Queue : events[k].dev.o # o
        BY <2>1
      <3> QED
        BY <1>2, <1>3, <1>8, <3>1, <3>2 DEF HeldIsKnown
    <2>8. ArmedIsEarly'
      <3> SUFFICES ASSUME phase = "armed", NEW i \in 1 .. n + 1, NEW o \in Opaques,
                          ArrivedAt(i, o)'
                   PROVE  events'[i].dev \in early' /\ (bus'[o] # 0 => Holder(o)' \in early')
        BY <1>1, <2>1 DEF ArmedIsEarly, Holder
      <3>1. d \in early'
        BY <1>1
      <3>2. CASE i = n + 1
        BY <1>2, <1>3, <2>1, <3>1, <3>2 DEF ArrivedAt
      <3>3. CASE i \in 1 .. n
        <4>1. ArrivedAt(i, o) /\ events'[i] = events[i]
          BY <2>1, <3>3 DEF ArrivedAt
        <4>2. events[i].dev \in early /\ (bus[o] # 0 => Holder(o) \in early)
          BY <2>1, <3>3, <4>1 DEF ArmedIsEarly
        <4> QED
          BY <1>2, <1>3, <3>1, <4>1, <4>2
      <3> QED
        BY <2>1, <3>2, <3>3
    <2>9. ArrivalsApart'
      <3>1. \A k \in 1 .. n, o \in Opaques : LeftAt(k, o) => LeftAt(k, o)'
        BY <2>1 DEF LeftAt
      <3>2. \A k \in 1 .. n, o \in Opaques : ArrivedAt(k, o)' => ArrivedAt(k, o)
        BY <2>1 DEF ArrivedAt
      <3>3. ASSUME NEW i \in 1 .. n + 1, NEW j \in 1 .. n + 1, NEW o \in Opaques,
                   i < j, ArrivedAt(i, o)', ArrivedAt(j, o)'
            PROVE  events'[i].dev \in early' \/ \E k \in i + 1 .. j - 1 : LeftAt(k, o)'
        <4>1. i \in 1 .. n /\ ArrivedAt(i, o)
          BY <2>1, <3>2, <3>3
        <4>2. CASE j = n + 1
          <5>1. o = p
            BY <1>2, <2>1, <3>3, <4>2 DEF ArrivedAt
          <5>2. PICK k \in i + 1 .. n : LeftAt(k, o)
            BY <1>1, <1>8, <2>1, <4>1, <5>1 DEF FreeHasLeft, n
          <5> QED
            BY <2>1, <3>1, <4>2, <5>2
        <4>3. CASE j \in 1 .. n
          <5>1. events[i].dev \in early \/ \E k \in i + 1 .. j - 1 : LeftAt(k, o)
            BY <2>1, <3>2, <3>3, <4>1, <4>3 DEF ArrivalsApart
          <5> QED
            BY <1>2, <2>1, <3>1, <4>1, <4>3, <5>1
        <4> QED
          BY <2>1, <4>2, <4>3
      <3>4. ASSUME NEW j \in 1 .. n + 1, NEW o \in Opaques, ArrivedAt(j, o)'
            PROVE  \/ \E k \in 1 .. j - 1 : LeftAt(k, o)'
                   \/ /\ \A e \in listing : e.o = o => e \in early'
                      /\ devices_id_map[o] # 0 => ids[devices_id_map[o]].dev \in early'
        <4>1. CASE j = n + 1
          <5>1. o = p
            BY <1>2, <2>1, <3>4, <4>1 DEF ArrivedAt
          <5>2. devices_id_map[o] # 0 \/ (\E e \in listing : e.o = o) =>
                   \E k \in 1 .. n : LeftAt(k, o)
            BY <1>1, <1>8, <2>1, <5>1 DEF FreeHasLeft
          <5> QED
            BY <2>1, <3>1, <4>1, <5>2
        <4>2. CASE j \in 1 .. n
          <5>1. \/ \E k \in 1 .. j - 1 : LeftAt(k, o)
                \/ /\ \A e \in listing : e.o = o => e \in early
                   /\ devices_id_map[o] # 0 => ids[devices_id_map[o]].dev \in early
            BY <2>1, <3>2, <3>4, <4>2 DEF ArrivalsApart
          <5> QED
            BY <1>2, <2>1, <3>1, <4>2, <5>1
        <4> QED
          BY <2>1, <4>1, <4>2
      <3> QED
        BY <1>1, <2>1, <3>3, <3>4 DEF ArrivalsApart
    <2> QED
      BY <1>5, <1>6, <2>2, <2>3, <2>5, <2>6, <2>7, <2>8, <2>9
  <1> QED
    BY <1>1, <1>7, <1>8 DEF Notify


\* A device is pulled out: the departure is behind everything the stream has of that place.
LEMMA UnplugStep ==
    ASSUME IInv, NEW p \in Opaques, Unplug(p)
    PROVE  IInv'
  <1> USE DEF IInv
  <1> DEFINE d == [o |-> p, inc |-> bus[p]]
             n == Len(events)
  <1>1. /\ bus[p] # 0 /\ bus' = [bus EXCEPT ![p] = 0]
        /\ Notify(Left(d))
        /\ UNCHANGED <<backend, phase, listing, removals, known, devices_id_map, ids, plugs, early,
                       listFailed>>
    BY DEF Unplug
  <1>2. /\ d \in Devices /\ Left(d) \in EventType
        /\ bus' \in [Opaques -> 0 .. MaxPlugs + 1] /\ bus'[p] = 0
        /\ \A o \in Opaques \ {p} : bus'[o] = bus[o]
        /\ d.o = p /\ Left(d).dev = d /\ Left(d).kind = "Left"
    BY <1>1, ConstantsAssumption DEF TypeOK, Devices, Left, EventType
  <1>3. \A o \in Opaques \ {p} : Holder(o)' = Holder(o)
    BY <1>2 DEF Holder
  <1>4. Phases' \/ events' # events
    BY <1>1 DEF Phases
  <1>5. MapLeads' /\ Polled'
    BY <1>1 DEF MapLeads, Polled
  <1>6. DoublesOnlyFromStart'
    BY <1>1, <1>2 DEF DoublesOnlyFromStart
  <1>7. CASE events' = events /\ (backend = "polling" \/ phase = "start")
    <2>1. events = <<>> /\ Queue = {} /\ Queue' = {}
      BY <1>7 DEF Phases, Queue
    <2>2. TypeOK'
      BY <1>1, <1>2, <1>7, ConstantsAssumption DEF TypeOK
    <2>4. FreeHasLeft'
      BY <1>1, <1>7, <2>1 DEF FreeHasLeft, Phases
    <2>5. LastMatches' /\ HeldIsKnown' /\ ArmedIsEarly' /\ ArrivalsApart'
      BY <1>1, <1>7, <2>1 DEF LastMatches, HeldIsKnown, ArmedIsEarly, ArrivalsApart
    <2> QED
      BY <1>4, <1>5, <1>6, <1>7, <2>2, <2>4, <2>5
  <1>8. CASE events' = Append(events, Left(d)) /\ backend # "polling" /\ phase # "start"
    <2> HIDE DEF d, n
    <2>1. /\ events' \in Seq(EventType) /\ n \in Nat
          /\ Queue = 1 .. n /\ Len(events') = n + 1 /\ Queue' = 1 .. n + 1
          /\ \A i \in Queue : events'[i] = events[i]
          /\ events'[n + 1] = Left(d)
      BY <1>2, <1>8, AppendLemma DEF n
    <2>2. TypeOK'
      BY <1>1, <1>2, <2>1, ConstantsAssumption DEF TypeOK, EventType
    <2>3. Phases'
      BY <1>1, <1>8 DEF Phases
    <2>4. \A i \in Queue : events[i].dev.o \in Opaques
      BY QueueLemma
    <2>5. LastMatches'
      <3> SUFFICES ASSUME NEW i \in 1 .. n + 1,
                          \A k \in i + 1 .. n + 1 : events'[k].dev.o # events'[i].dev.o
                   PROVE  events'[i] = IF bus'[events'[i].dev.o] = 0
                                       THEN Left(events'[i].dev)
                                       ELSE Arrived([o |-> events'[i].dev.o,
                                                     inc |-> bus'[events'[i].dev.o]])
        BY <2>1 DEF LastMatches, Holder, Arrived, Left
      <3>1. CASE i = n + 1
        BY <1>2, <2>1, <3>1
      <3>2. CASE i \in 1 .. n
        <4>1. events'[i] = events[i] /\ events[i].dev.o # p /\ events[i].dev.o \in Opaques
          BY <1>2, <2>1, <2>4, <3>2
        <4>2. \A k \in i + 1 .. n : events[k].dev.o # events[i].dev.o
          BY <2>1, <3>2
        <4>3. events[i] = IF bus[events[i].dev.o] = 0 THEN Left(events[i].dev)
                          ELSE Arrived(Holder(events[i].dev.o))
          BY <2>1, <3>2, <4>2 DEF LastMatches, n
        <4> QED
          BY <1>2, <4>1, <4>3 DEF Holder
      <3> QED
        BY <2>1, <3>1, <3>2
    <2>6. FreeHasLeft'
      <3> SUFFICES ASSUME NEW o \in Opaques, bus'[o] = 0
                   PROVE  /\ \A i \in 1 .. n + 1 : ArrivedAt(i, o)' =>
                                \E k \in i + 1 .. n + 1 : LeftAt(k, o)'
                          /\ devices_id_map[o] # 0 \/ (\E e \in listing : e.o = o) =>
                                \E k \in 1 .. n + 1 : LeftAt(k, o)'
        BY <1>1, <2>1 DEF FreeHasLeft
      <3>1. \A k \in 1 .. n + 1 : k = n + 1 /\ o = p => LeftAt(k, o)'
        BY <1>2, <2>1 DEF LeftAt
      <3>2. \A k \in 1 .. n : LeftAt(k, o) => LeftAt(k, o)'
        BY <2>1 DEF LeftAt
      <3>3. \A i \in 1 .. n + 1 : ArrivedAt(i, o)' => i \in 1 .. n /\ ArrivedAt(i, o)
        BY <1>2, <2>1 DEF ArrivedAt
      <3>4. CASE o = p
        <4>1. \A i \in 1 .. n : n + 1 \in i + 1 .. n + 1 /\ n + 1 \in 1 .. n + 1
          BY <2>1
        <4>2. n + 1 \in 1 .. n + 1
          BY <2>1
        <4> QED
          BY <3>1, <3>3, <3>4, <4>1, <4>2
      <3>5. CASE o # p
        <4>1. \A i \in 1 .. n : ArrivedAt(i, o) => \E k \in i + 1 .. n : LeftAt(k, o)
          BY <1>2, <1>8, <2>1, <3>5 DEF FreeHasLeft, n
        <4>2. devices_id_map[o] # 0 \/ (\E e \in listing : e.o = o) => \E k \in 1 .. n : LeftAt(k, o)
          BY <1>2, <1>8, <2>1, <3>5 DEF FreeHasLeft
        <4> QED
          BY <2>1, <3>2, <3>3, <4>1, <4>2
      <3> QED
        BY <3>4, <3>5
    <2>7. HeldIsKnown'
      <3> SUFFICES ASSUME NEW o \in Opaques, bus'[o] # 0, phase \in {"listed", "events"},
                          \A k \in 1 .. n + 1 : events'[k].dev.o # o
                   PROVE  \/ Holder(o)' \in listing
                          \/ devices_id_map[o] # 0 /\ ids[devices_id_map[o]].dev = Holder(o)'
                          \/ listFailed /\ devices_id_map[o] = 0 /\ \A e \in listing : e.o # o
        BY <1>1, <2>1 DEF HeldIsKnown, Holder
      <3>1. o # p
        BY <1>2, <2>1
      <3>2. \A k \in Queue : events[k].dev.o # o
        BY <2>1
      <3> QED
        BY <1>2, <1>3, <1>8, <3>1, <3>2 DEF HeldIsKnown
    <2>8. ArmedIsEarly'
      <3> SUFFICES ASSUME phase = "armed", NEW i \in 1 .. n + 1, NEW o \in Opaques,
                          ArrivedAt(i, o)'
                   PROVE  events'[i].dev \in early' /\ (bus'[o] # 0 => Holder(o)' \in early')
        BY <1>1, <2>1 DEF ArmedIsEarly, Holder
      <3>1. i \in 1 .. n /\ ArrivedAt(i, o) /\ events'[i] = events[i]
        BY <1>2, <2>1 DEF ArrivedAt
      <3>2. events[i].dev \in early /\ (bus[o] # 0 => Holder(o) \in early)
        BY <2>1, <3>1 DEF ArmedIsEarly
      <3>3. bus'[o] # 0 => o # p
        BY <1>2
      <3> QED
        BY <1>1, <1>2, <1>3, <3>1, <3>2, <3>3
    <2>9. ArrivalsApart'
      <3>1. \A k \in 1 .. n, o \in Opaques : LeftAt(k, o) => LeftAt(k, o)'
        BY <2>1 DEF LeftAt
      <3>2. \A k \in 1 .. n + 1, o \in Opaques : ArrivedAt(k, o)' =>
               k \in 1 .. n /\ ArrivedAt(k, o) /\ events'[k] = events[k]
        BY <1>2, <2>1 DEF ArrivedAt
      <3>3. ASSUME NEW i \in 1 .. n + 1, NEW j \in 1 .. n + 1, NEW o \in Opaques,
                   i < j, ArrivedAt(i, o)', ArrivedAt(j, o)'
            PROVE  events'[i].dev \in early \/ \E k \in i + 1 .. j - 1 : LeftAt(k, o)'
        <4>1. events[i].dev \in early \/ \E k \in i + 1 .. j - 1 : LeftAt(k, o)
          BY <2>1, <3>2, <3>3 DEF ArrivalsApart
        <4> QED
          BY <2>1, <3>1, <3>2, <3>3, <4>1
      <3>4. ASSUME NEW j \in 1 .. n + 1, NEW o \in Opaques, ArrivedAt(j, o)'
            PROVE  \/ \E k \in 1 .. j - 1 : LeftAt(k, o)'
                   \/ /\ \A e \in listing : e.o = o => e \in early
                      /\ devices_id_map[o] # 0 => ids[devices_id_map[o]].dev \in early
        <4>1. \/ \E k \in 1 .. j - 1 : LeftAt(k, o)
              \/ /\ \A e \in listing : e.o = o => e \in early
                 /\ devices_id_map[o] # 0 => ids[devices_id_map[o]].dev \in early
          BY <2>1, <3>2, <3>4 DEF ArrivalsApart
        <4> QED
          BY <2>1, <3>1, <3>2, <3>4, <4>1
      <3> QED
        BY <1>1, <2>1, <3>3, <3>4 DEF ArrivalsApart
    <2> QED
      BY <1>5, <1>6, <2>2, <2>3, <2>5, <2>6, <2>7, <2>8, <2>9
  <1> QED
    BY <1>1, <1>7, <1>8 DEF Notify


\* There are finitely many devices, so the enumeration ends.
LEMMA PresentFinite ==
    Cardinality(Present) \in Nat
  <1> DEFINE S == {p \in Opaques : bus[p] # 0}
             f == [o \in S |-> [o |-> o, inc |-> bus[o]]]
  <1>1. IsFiniteSet(S)
    BY ConstantsAssumption, FS_Subset
  <1>2. f \in Surjection(S, Present)
    BY DEF Surjection, Present
  <1> QED
    BY <1>1, <1>2, FS_Surjection, FS_CardinalityType

\* libusb's enumeration: everything present gets an arrival behind what the callback had.
LEMMA EnumerateStep ==
    ASSUME IInv, Enumerate
    PROVE  IInv'
  <1> USE DEF IInv
  <1> DEFINE n == Len(events)
             m == Cardinality(Present)
  <1>1. /\ backend = "hotplug" /\ phase = "armed" /\ phase' = "events"
        /\ UNCHANGED <<world, listing, removals, known, devices_id_map, ids, listFailed>>
    BY DEF Enumerate
  <1>2. PICK s \in [1 .. m -> Present] :
           /\ \A d \in Present : \E i \in DOMAIN s : s[i] = d
           /\ \A i, j \in DOMAIN s : s[i] = s[j] => i = j
           /\ events' = events \o [i \in DOMAIN s |-> Arrived(s[i])]
    BY DEF Enumerate
  <1>3. m \in Nat
    BY PresentFinite
  <1> HIDE DEF m
  <1>4. /\ bus' = bus /\ early' = early /\ backend' = backend /\ plugs' = plugs
        /\ listing = {} /\ ids = <<>> /\ \A o \in Opaques : devices_id_map[o] = 0
    BY <1>1 DEF world, Phases
  <1>5. /\ \A j \in 1 .. m : s[j].o \in Opaques /\ bus[s[j].o] # 0 /\ s[j] = Holder(s[j].o)
        /\ \A o \in Opaques : bus[o] # 0 => \E j \in 1 .. m : s[j] = Holder(o)
        /\ \A j \in 1 .. m : s[j] \in Devices
        /\ \A i, j \in 1 .. m : s[i].o = s[j].o => i = j
    BY <1>2, PresentLemma
  <1>6. /\ events' \in Seq(EventType) /\ n \in Nat /\ Len(events') = n + m
        /\ Queue = 1 .. n /\ Queue' = 1 .. n + m
        /\ \A i \in 1 .. n : events'[i] = events[i]
        /\ \A j \in 1 .. m : events'[n + j] = Arrived(s[j])
    <2> DEFINE t == [i \in 1 .. m |-> Arrived(s[i])]
    <2>1. \A j \in 1 .. m : Arrived(s[j]) \in EventType
      BY <1>5 DEF Arrived, EventType
    <2>2. t \in Seq(EventType) /\ Len(t) = m /\ \A j \in 1 .. m : t[j] = Arrived(s[j])
      BY <1>3, <2>1
    <2>3. events \in Seq(EventType)
      BY DEF TypeOK, EventType
    <2>4. events' = events \o t
      BY <1>2
    <2> HIDE DEF t
    <2>5. /\ events' \in Seq(EventType) /\ n \in Nat /\ Len(events') = n + m
          /\ \A i \in 1 .. n + m : events'[i] = IF i <= n THEN events[i] ELSE t[i - n]
      BY <2>2, <2>3, <2>4, ConcatProperties
    <2> HIDE DEF n
    <2>6. \A i \in 1 .. n : i \in 1 .. n + m /\ i <= n
      BY <1>3, <2>5
    <2>7. \A j \in 1 .. m : n + j \in 1 .. n + m /\ ~(n + j <= n) /\ (n + j) - n = j
      BY <1>3, <2>5
    <2>8. \A j \in 1 .. m : events'[n + j] = t[j]
      BY <2>5, <2>7
    <2> QED
      BY <2>2, <2>5, <2>6, <2>8 DEF Queue, n
  <1> HIDE DEF n
  <1>7. \A i \in 1 .. n + m : i \in 1 .. n \/ \E j \in 1 .. m : i = n + j
    <2> SUFFICES ASSUME NEW i \in 1 .. n + m, i \notin 1 .. n
                 PROVE  i - n \in 1 .. m /\ i = n + (i - n)
      OBVIOUS
    <2> QED
      BY <1>3, <1>6
  <1>8. \A j \in 1 .. m : n + j \in 1 .. n + m /\ \A i \in 1 .. n : n + j \in i + 1 .. n + m
    BY <1>3, <1>6
  <1>9. \A j \in 1 .. m : events'[n + j].kind = "Arrived" /\ events'[n + j].dev = s[j]
    <2> TAKE j \in 1 .. m
    <2>1. events'[n + j] = Arrived(s[j])
      BY <1>6
    <2> QED
      BY <2>1 DEF Arrived
  <1>10. TypeOK'
    BY <1>1, <1>4, <1>6 DEF TypeOK, EventType
  <1>11. Phases' /\ MapLeads' /\ Polled' /\ ArmedIsEarly'
    BY <1>1, <1>4 DEF Phases, MapLeads, Polled, ArmedIsEarly
  <1>12. DoublesOnlyFromStart'
    BY <1>1, <1>4 DEF DoublesOnlyFromStart
  <1>13. LastMatches'
    <2> SUFFICES ASSUME NEW i \in 1 .. n + m,
                        \A k \in i + 1 .. n + m : events'[k].dev.o # events'[i].dev.o
                 PROVE  events'[i] = IF bus[events'[i].dev.o] = 0
                                     THEN Left(events'[i].dev)
                                     ELSE Arrived(Holder(events'[i].dev.o))
      BY <1>4, <1>6 DEF LastMatches, Holder
    <2>1. CASE i \in 1 .. n
      <3>1. events'[i] = events[i] /\ events[i].dev.o \in Opaques
        BY <1>6, <2>1, QueueLemma
      <3>2. bus[events[i].dev.o] = 0
        <4> SUFFICES ASSUME bus[events[i].dev.o] # 0
                     PROVE  FALSE
          OBVIOUS
        <4>1. PICK j \in 1 .. m : s[j] = Holder(events[i].dev.o)
          BY <1>5, <3>1
        <4> QED
          BY <1>8, <1>9, <2>1, <3>1, <4>1 DEF Holder
      <3>3. \A k \in i + 1 .. n : events[k].dev.o # events[i].dev.o
        BY <1>3, <1>6, <2>1
      <3> QED
        BY <1>6, <2>1, <3>1, <3>2, <3>3 DEF LastMatches, n
    <2>2. ASSUME NEW j \in 1 .. m, i = n + j
          PROVE  events'[i] = IF bus[events'[i].dev.o] = 0
                              THEN Left(events'[i].dev) ELSE Arrived(Holder(events'[i].dev.o))
      BY <1>5, <1>6, <1>9, <2>2
    <2> QED
      BY <1>7, <2>1, <2>2
  <1>14. FreeHasLeft'
    <2> SUFFICES ASSUME NEW o \in Opaques, bus[o] = 0, NEW i \in 1 .. n + m, ArrivedAt(i, o)'
                 PROVE  \E k \in i + 1 .. n + m : LeftAt(k, o)'
      BY <1>1, <1>4, <1>6 DEF FreeHasLeft
    <2>1. i \in 1 .. n /\ ArrivedAt(i, o)
      BY <1>5, <1>6, <1>7, <1>9 DEF ArrivedAt
    <2>2. PICK k \in i + 1 .. n : LeftAt(k, o)
      BY <1>1, <1>6, <2>1 DEF FreeHasLeft, n
    <2>3. k \in 1 .. n /\ k \in i + 1 .. n + m
      BY <1>3, <1>6, <2>1
    <2> QED
      BY <1>6, <2>2, <2>3 DEF LeftAt
  <1>15. HeldIsKnown'
    <2> SUFFICES ASSUME NEW o \in Opaques, bus[o] # 0, \A k \in 1 .. n + m : events'[k].dev.o # o
                 PROVE  FALSE
      BY <1>4, <1>6 DEF HeldIsKnown
    <2>1. PICK j \in 1 .. m : s[j] = Holder(o)
      BY <1>5
    <2> QED
      BY <1>8, <1>9, <2>1 DEF Holder
  <1>16. ArrivalsApart'
    <2> SUFFICES ASSUME NEW i \in 1 .. n + m, NEW j \in 1 .. n + m, NEW o \in Opaques,
                        i < j, ArrivedAt(i, o)', ArrivedAt(j, o)'
                 PROVE  events'[i].dev \in early
      BY <1>1, <1>4, <1>6 DEF ArrivalsApart
    <2>1. i \in 1 .. n
      <3> SUFFICES ASSUME NEW a \in 1 .. m, i = n + a
                   PROVE  FALSE
        BY <1>7
      <3>1. PICK b \in 1 .. m : j = n + b
        BY <1>3, <1>6, <1>7
      <3>2. s[a].o = o /\ s[b].o = o
        BY <1>9, <3>1 DEF ArrivedAt
      <3>3. a = b
        BY <1>5, <3>2
      <3> QED
        BY <1>3, <1>6, <3>1, <3>3
    <2> QED
      BY <1>1, <1>6, <2>1 DEF ArmedIsEarly, ArrivedAt
  <1> QED
    BY <1>10, <1>11, <1>12, <1>13, <1>14, <1>15, <1>16

--------------------------------------------------------------------------------
(* The theorems *)

\* The stream starts with an empty queue, whatever is plugged in.
LEMMA InitStep ==
    ASSUME Init
    PROVE  IInv
  <1> USE DEF Init, IInv
  <1>1. TypeOK
    <2>1. devices_id_map \in [Opaques -> 0 .. Len(ids)] /\ ids \in Seq(IdType)
      OBVIOUS
    <2>2. events \in Seq(EventType)
      OBVIOUS
    <2>3. bus \in [Opaques -> 0 .. MaxPlugs + 1] /\ plugs \in 1 .. MaxPlugs + 1
      BY ConstantsAssumption
    <2> QED
      BY <2>1, <2>2, <2>3 DEF TypeOK, IdType, EventType
  <1>2. Queue = {}
    BY DEF Queue
  <1>3. Phases /\ MapLeads /\ Polled
    BY DEF Phases, MapLeads, Polled
  <1>4. LastMatches /\ FreeHasLeft /\ HeldIsKnown /\ ArmedIsEarly /\ ArrivalsApart
    BY <1>2 DEF LastMatches, FreeHasLeft, HeldIsKnown, ArmedIsEarly, ArrivalsApart
  <1>5. DoublesOnlyFromStart
    BY DEF DoublesOnlyFromStart
  <1> QED
    BY <1>1, <1>3, <1>4, <1>5

\* The inductive invariant holds in every reachable state.
THEOREM Inductive ==
    Spec => []IInv
  <1>1. IInv /\ [Next]_vars => IInv'
    <2> SUFFICES ASSUME IInv, [Next]_vars
                 PROVE  IInv'
      OBVIOUS
    <2>1. CASE Arm
      BY <2>1, ArmStep
    <2>2. CASE List
      BY <2>2, ListStep
    <2>3. CASE ListReported
      BY <2>3, ListReportedStep
    <2>4. CASE Enumerate
      BY <2>4, EnumerateStep
    <2>5. CASE Poll
      BY <2>5, PollStep
    <2>6. CASE NextEvent
      BY <2>6, NextEventStep
    <2>7. ASSUME NEW d \in listing, ReportArrival(d)
          PROVE  IInv'
      BY <2>7, ReportArrivalStep
    <2>8. ASSUME NEW d \in removals, ReportRemoval(d)
          PROVE  IInv'
      BY <2>8, ReportRemovalStep
    <2>9. ASSUME NEW o \in Opaques, Plug(o) \/ Unplug(o)
          PROVE  IInv'
      BY <2>9, PlugStep, UnplugStep
    <2>10. CASE UNCHANGED vars
      <3> USE <2>10 DEF vars
      <3>1. TypeOK' /\ Phases' /\ MapLeads' /\ Polled' /\ DoublesOnlyFromStart'
        BY DEF IInv, TypeOK, Phases, MapLeads, Polled, DoublesOnlyFromStart
      <3>2. LastMatches' /\ FreeHasLeft' /\ HeldIsKnown'
        BY DEF IInv, LastMatches, FreeHasLeft, HeldIsKnown, Queue, ArrivedAt, LeftAt, Holder
      <3>3. ArmedIsEarly' /\ ArrivalsApart'
        BY DEF IInv, ArmedIsEarly, ArrivalsApart, Queue, ArrivedAt, LeftAt, Holder
      <3> QED
        BY <3>1, <3>2, <3>3 DEF IInv
    <2> QED
      BY <2>1, <2>2, <2>3, <2>4, <2>5, <2>6, <2>7, <2>8, <2>9, <2>10 DEF Next, Stream
  <1> QED
    BY <1>1, InitStep, PTL DEF Spec

\* The streams, their id map and the bus have their types, and no id is in the map before
\* take_new_id gave it out.
THEOREM TypeCorrect ==
    Spec => []TypeOK
  BY Inductive, PTL DEF IInv

\* A device is told of twice only if it came between the subscription and the list.
THEOREM DoublesTheorem ==
    Spec => []DoublesOnlyFromStart
  BY Inductive, PTL DEF IInv

\* A stream without anything left to report has told of exactly the devices plugged in.
THEOREM ExactTheorem ==
    Spec => []DrainedFeedExact
  <1>1. IInv => DrainedFeedExact
    <2> SUFFICES ASSUME IInv, Drained
                 PROVE  LET told == {ids[devices_id_map[o]].dev :
                                        o \in {p \in Opaques : devices_id_map[p] # 0}} IN
                        CASE backend = "polling" -> {d.o : d \in told} = {d.o : d \in known}
                          [] listFailed -> told \subseteq Present
                          [] OTHER -> told = Present
      BY DEF DrainedFeedExact
    <2> USE DEF IInv
    <2> DEFINE told == {ids[devices_id_map[o]].dev : o \in {p \in Opaques : devices_id_map[p] # 0}}
    <2>1. phase = "events" /\ events = <<>> /\ listing = {} /\ removals = {} /\ Queue = {}
      BY DEF Drained, Queue
    <2>2. \A o \in Opaques : devices_id_map[o] # 0 => ids[devices_id_map[o]].dev.o = o
      BY DEF MapLeads
    <2>3. CASE backend = "polling"
      <3>1. \A o \in Opaques : devices_id_map[o] # 0 <=> \E e \in known : e.o = o
        BY <2>1, <2>3 DEF Polled
      <3>2. \A e \in known : e.o \in Opaques
        BY DEF TypeOK, Devices
      <3>3. {d.o : d \in told} = {o \in Opaques : devices_id_map[o] # 0}
        BY <2>2
      <3>4. {d.o : d \in known} = {o \in Opaques : devices_id_map[o] # 0}
        BY <3>1, <3>2
      <3> QED
        BY <2>3, <3>3, <3>4 DEF Phases
    <2>4. CASE backend # "polling"
      <3>1. \A o \in Opaques : devices_id_map[o] # 0 => bus[o] # 0
        BY <2>1, <2>4 DEF FreeHasLeft
      <3>2. \A o \in Opaques : bus[o] # 0 =>
               \/ devices_id_map[o] # 0 /\ ids[devices_id_map[o]].dev = Holder(o)
               \/ listFailed /\ devices_id_map[o] = 0
        BY <2>1, <2>4 DEF HeldIsKnown
      <3>3. told \subseteq Present
        BY <3>1, <3>2, PresentLemma
      <3>4. ~listFailed => Present \subseteq told
        BY <3>2, PresentLemma
      <3> QED
        BY <2>4, <3>3, <3>4
    <2> QED
      BY <2>3, <2>4
  <1> QED
    BY <1>1, Inductive, PTL
================================================================================
