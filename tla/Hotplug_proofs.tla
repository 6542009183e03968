---------------------------- MODULE Hotplug_proofs ----------------------------
(***************************************************************************)
(* Proofs about the device registry and the tasks that change it.          *)
(*                                                                         *)
(* A serial number is listed once because the watcher makes room before it *)
(* inserts (RoomMade).  After an I/O error it makes room by opaque id and  *)
(* not by serial number, so this rests on what was plugged in last: an     *)
(* entry of the registry and a device that is still on the bus, with the   *)
(* same serial number, have the same opaque id (LatestHeld), because a     *)
(* device that comes back gets a new one (OnBus).                          *)
(*                                                                         *)
(* The proof first says what each step does to the variables (the Effect   *)
(* lemmas) and then shows, part by part, that the invariant is kept.       *)
(***************************************************************************)
EXTENDS Hotplug, TLAPS

(* Types.  TypeOK says of the records what is read; a step that copies one *)
(* needs all of its fields.                                                *)

Stream   == [st : {"idle", "opening", "ended"}, id : 0 .. MaxId]
Watching == [pc : {"select", "settx", "find", "retain", "insert", "shutdown", "announce",
                   "detached", "reopen", "reinsert"}, id : 0 .. MaxId]
AddTask  == [pc : {"off", "check", "connect", "insert", "usb", "send", "done"}, id : 0 .. MaxId,
             serial : Serials \cup {None}]
NetTask  == [pc : {"idle", "remove", "send"}, id : 0 .. MaxId]
Told     == [kind : {"Attached", "Detached"}, id : Ids]
Listener == [st : {"off", "snap", "on", "lag"}, q : Seq(Told), view : SUBSET Ids,
             cursor : 1 .. MaxId + 1]
SysEvent == [kind : {"Connected", "Disconnected"}, opaque : Opaques, serial : Serials]

RegTyped ==
    /\ devices \in [Ids -> {"none", "usb", "net"}]
    /\ about \in [Ids -> [serial : Serials \cup {None}, opaque : 0 .. MaxPlugs]]
    /\ nextId \in 1 .. MaxId + 1

UsbTyped ==
    /\ stream \in Stream /\ (stream.st = "opening" => stream.id \in Ids)
    /\ idMap \in [Opaques -> 0 .. MaxId]
    /\ watcher \in Watching /\ watcher.id \in IF watcher.pc = "select" THEN {0} ELSE Ids
    /\ ioq \in Seq(Ids) /\ Len(ioq) <= IoCap
    /\ rd \in [Ids -> {"none", "fresh", "run", "gone", "silent"}]

NetTyped ==
    /\ adder \in [Adders -> AddTask]
    /\ \A a \in Adders : adder[a].pc \in {"connect", "insert", "usb", "send"} => adder[a].id \in Ids
    /\ netw \in NetTask /\ (netw.pc # "idle" => netw.id \in Ids)
    /\ hb \in [Ids -> {"none", "ok", "dead", "removed", "gone"}]

LstTyped ==
    /\ lst \in [Listeners -> Listener]
    /\ \A l \in Listeners : Len(lst[l].q) <= EventCap

SysTyped ==
    /\ bus \in [Opaques -> Serials \cup {None}] /\ plugs \in 0 .. MaxPlugs
    /\ hotplug \in Seq(SysEvent) /\ again \in Nat /\ ioErrors \in Nat

Typed == RegTyped /\ UsbTyped /\ NetTyped /\ LstTyped /\ SysTyped

--------------------------------------------------------------------------------
(* The inductive invariant.                                                *)

\* An id that was not taken yet belongs to nobody.
Untaken ==
    /\ \A id \in Ids : id >= nextId => devices[id] = "none" /\ rd[id] = "none"
    /\ stream.st = "opening" => stream.id < nextId
    /\ \A o \in Opaques : idMap[o] < nextId
    /\ watcher.id < nextId

\* Opaque ids are used in turn, and a device on the bus is there under one of them.
OnBus ==
    /\ \A o \in Opaques : o > plugs => bus[o] = None
    /\ \A o, p \in Opaques : bus[o] # None /\ bus[o] = bus[p] => o = p
    /\ \A i \in 1 .. Len(hotplug) :
          /\ hotplug[i].opaque <= plugs
          /\ bus[hotplug[i].opaque] \in {None, hotplug[i].serial}
    /\ \A id \in Ids : about[id].opaque <= plugs
    /\ \A id \in Ids : Present(id) => bus[about[id].opaque] = about[id].serial

\* Network devices have no opaque id, and what was opened on the bus has one.
Kinds ==
    /\ \A o \in Opaques : idMap[o] # 0 => about[idMap[o]].opaque = o
    /\ stream.st = "opening" => about[stream.id].opaque # 0
    /\ \A id \in Ids : devices[id] = "net" => about[id].opaque = 0
    /\ \A id \in Ids : rd[id] # "none" => about[id].opaque # 0

\* A network device belongs to the task that took its id, and has one heartbeat.
AddersOwn ==
    /\ \A id \in Ids : /\ id >= nextId => hb[id] = "none"
                       /\ devices[id] = "net" => hb[id] # "none"
    /\ \A a \in Adders :
          /\ adder[a].id < nextId
          /\ adder[a].pc \in {"connect", "insert"} => about[adder[a].id].opaque = 0
          /\ adder[a].pc = "connect" => hb[adder[a].id] = "none"
          /\ adder[a].pc = "insert" => hb[adder[a].id] # "none"
    /\ \A a, b \in Adders : adder[a].pc = "connect" /\ adder[b].pc = "connect"
                            /\ adder[a].id = adder[b].id => a = b

Reported(id) == \E i \in 1 .. Len(ioq) : ioq[i] = id

\* The reader of the device the watcher handles, at every step of the watcher.
Readers ==
    /\ \A i \in 1 .. Len(ioq) : rd[ioq[i]] # "none"
    /\ stream.st = "opening" => rd[stream.id] = "none"
    /\ watcher.pc # "select" => rd[watcher.id] # "none" /\ devices[watcher.id] # "usb"
    /\ watcher.pc \in {"settx", "reinsert"} => rd[watcher.id] \in {"fresh", "silent"}
    /\ watcher.pc \in {"find", "retain", "insert"} =>
          rd[watcher.id] \in {"run", "silent"} \/ Reported(watcher.id)

SameSerial(c, d) == about[c].serial = about[d].serial
SameOpaque(c, d) == about[c].opaque = about[d].opaque

\* A serial number has one USB entry.
UsbOnce ==
    \A c, d \in Ids : devices[c] = "usb" /\ devices[d] = "usb" /\ SameSerial(c, d) => c = d

\* The watcher makes room for the entry it is about to insert.
RoomMade ==
    /\ watcher.pc \in {"insert", "reinsert"} =>
          \A d \in Ids : devices[d] = "usb" => ~SameSerial(d, watcher.id)
    /\ watcher.pc = "reopen" => \A d \in Ids : devices[d] = "usb" => ~SameOpaque(d, watcher.id)

\* What the watcher inserts is the last that was plugged in: any other opaque id of the
\* same serial number has left the bus.
LatestOpened ==
    watcher.pc \in {"settx", "find", "retain", "insert", "reinsert"} =>
        \A e \in Ids : SameSerial(e, watcher.id) /\ ~SameOpaque(e, watcher.id) => ~Present(e)

\* So is what the registry holds, but for the device the watcher is about to insert.
LatestHeld ==
    \A d, e \in Ids :
        devices[d] = "usb" /\ rd[e] # "none" /\ SameSerial(d, e) /\ ~SameOpaque(d, e) =>
            ~Present(e) \/ (watcher.id = e /\ watcher.pc \in {"settx", "find", "retain"})

\* A client that does not listen knows of nothing.
Quiet == \A l \in Listeners : lst[l].st \notin {"snap", "on"} => lst[l].view = {} /\ lst[l].q = <<>>

IInv ==
    /\ Typed /\ Untaken /\ OnBus /\ Kinds /\ AddersOwn
    /\ Readers /\ UsbEntryWatched
    /\ UsbOnce /\ RoomMade /\ LatestOpened /\ LatestHeld
    /\ Quiet /\ NetworkGhostsLeave

\* A network_device_add task goes on: it keeps its device, and the others stay where they are.
LEMMA AdderMoves ==
    ASSUME Typed, NEW a \in Adders, NEW l \in {"insert", "usb", "send", "done"}, AdderGoto(a, l)
    PROVE  /\ adder' \in [Adders -> AddTask]
           /\ adder'[a].pc = l /\ adder'[a].id = adder[a].id
           /\ \A b \in Adders \ {a} : adder'[b] = adder[b]
  <1>1. adder \in [Adders -> AddTask]
    BY DEF Typed, NetTyped
  <1> DEFINE e == [adder[a] EXCEPT !.pc = l]
  <1>2. e \in AddTask /\ e.pc = l /\ e.id = adder[a].id
    BY <1>1 DEF AddTask
  <1>3. adder' = [adder EXCEPT ![a] = e]
    BY DEF AdderGoto
  <1> HIDE DEF e
  <1> QED
    BY <1>1, <1>2, <1>3

\* A task that gets an id connects to its device.
LEMMA AdderStarts ==
    ASSUME Typed, NEW a \in Adders, nextId \in Ids,
           adder' = [adder EXCEPT ![a].pc = "connect", ![a].id = nextId]
    PROVE  /\ adder' \in [Adders -> AddTask]
           /\ adder'[a].pc = "connect" /\ adder'[a].id = nextId
           /\ \A b \in Adders \ {a} : adder'[b] = adder[b]
  <1>1. adder \in [Adders -> AddTask]
    BY DEF Typed, NetTyped
  <1> DEFINE e == [adder[a] EXCEPT !.pc = "connect", !.id = nextId]
  <1>2. e \in AddTask /\ e.pc = "connect" /\ e.id = nextId
    <2>1. adder[a] \in AddTask /\ nextId \in 0 .. MaxId
      BY <1>1, ConstantsAssumption DEF Ids
    <2> QED
      BY <2>1 DEF AddTask
  <1>3. adder' = [adder EXCEPT ![a] = e]
    OBVIOUS
  <1> HIDE DEF e
  <1> QED
    BY <1>1, <1>2, <1>3

\* What a broadcast does to a listener: nothing to one that is not subscribed, one more
\* event for one that is, and the end of the queue for one that is full.
LEMMA BroadcastLemma ==
    ASSUME Typed, NEW e \in Told, Broadcast(e)
    PROVE  /\ LstTyped'
           /\ \A l \in Listeners :
                 \/ lst'[l] = lst[l] /\ lst[l].st \notin {"snap", "on"}
                 \/ /\ lst[l].st \in {"snap", "on"} /\ lst'[l].st = lst[l].st
                    /\ lst'[l].view = lst[l].view /\ lst'[l].q = Append(lst[l].q, e)
                 \/ lst'[l].st = "lag" /\ lst'[l].view = {} /\ lst'[l].q = <<>>
  <1>t. lst \in [Listeners -> Listener] /\ EventCap \in Nat \ {0} /\ MaxId \in Nat \ {0}
        /\ \A l \in Listeners : Len(lst[l].q) <= EventCap
    BY ConstantsAssumption DEF Typed, LstTyped
  <1> DEFINE more(l) == [lst[l] EXCEPT !.q = Append(@, e)]
             lag == [Off EXCEPT !.st = "lag"]
  <1>1. /\ lag \in Listener /\ lag.st = "lag" /\ lag.view = {} /\ lag.q = <<>> /\ Len(lag.q) = 0
    <2>1. Off \in Listener /\ Off.q = <<>> /\ Off.view = {} /\ Len(Off.q) = 0
      BY <1>t DEF Off, Listener
    <2>2. \A r \in Listener : LET n == [r EXCEPT !.st = "lag"]
                              IN  n \in Listener /\ n.st = "lag" /\ n.view = r.view /\ n.q = r.q
      BY DEF Listener
    <2> QED
      BY <2>1, <2>2
  <1>2. ASSUME NEW l \in Listeners
        PROVE  /\ more(l) \in Listener /\ more(l).st = lst[l].st /\ more(l).view = lst[l].view
               /\ more(l).q = Append(lst[l].q, e)
               /\ Len(lst[l].q) < EventCap => Len(more(l).q) <= EventCap
    <2>1. lst[l] \in Listener
      BY <1>t
    <2>2. lst[l].q \in Seq(Told)
      BY <2>1 DEF Listener
    <2>3. Append(lst[l].q, e) \in Seq(Told) /\ Len(Append(lst[l].q, e)) = Len(lst[l].q) + 1
          /\ Len(lst[l].q) \in Nat
      BY <2>2
    <2>4. more(l) \in Listener /\ more(l).st = lst[l].st /\ more(l).view = lst[l].view
          /\ more(l).q = Append(lst[l].q, e)
      BY <2>1, <2>3 DEF Listener
    <2> QED
      BY <1>t, <2>3, <2>4
  <1>3. lst' = [l \in Listeners |->
                  IF lst[l].st \notin {"snap", "on"} THEN lst[l]
                  ELSE IF Len(lst[l].q) < EventCap THEN more(l) ELSE lag]
    BY DEF Broadcast
  <1> HIDE DEF more, lag
  <1>4. lst' \in [Listeners -> Listener]
    BY <1>t, <1>1, <1>2, <1>3
  <1>5. ASSUME NEW l \in Listeners
        PROVE  /\ Len(lst'[l].q) <= EventCap
               /\ \/ lst'[l] = lst[l] /\ lst[l].st \notin {"snap", "on"}
                  \/ /\ lst[l].st \in {"snap", "on"} /\ lst'[l].st = lst[l].st
                     /\ lst'[l].view = lst[l].view /\ lst'[l].q = Append(lst[l].q, e)
                  \/ lst'[l].st = "lag" /\ lst'[l].view = {} /\ lst'[l].q = <<>>
    <2>1. CASE lst[l].st \notin {"snap", "on"}
      <3>1. lst'[l] = lst[l]
        BY <1>3, <2>1
      <3> QED
        BY <1>t, <2>1, <3>1
    <2>2. CASE lst[l].st \in {"snap", "on"} /\ Len(lst[l].q) < EventCap
      <3>1. lst'[l] = more(l)
        BY <1>3, <2>2
      <3> QED
        BY <1>2, <2>2, <3>1
    <2>3. CASE lst[l].st \in {"snap", "on"} /\ ~(Len(lst[l].q) < EventCap)
      <3>1. lst'[l] = lag
        BY <1>3, <2>3
      <3> QED
        BY <1>t, <1>1, <3>1
    <2> QED
      BY <2>1, <2>2, <2>3
  <1> QED
    BY <1>4, <1>5 DEF LstTyped

\* The events are typed.
LEMMA EventTypes == \A id \in Ids : Attached(id) \in Told /\ Detached(id) \in Told
  BY DEF Attached, Detached, Told

\* Find only finds ids.
LEMMA FindIds == \A k, s : Find(k, s) \subseteq Ids
  BY DEF Find

\* The registry keeps its types.
LEMMA RegTypeStep ==
    ASSUME Typed, [Next]_vars
    PROVE  RegTyped'
  <1> USE ConstantsAssumption DEF Typed, RegTyped, UsbTyped, NetTyped, Ids, Opaques, regVars,
          usbVars, netVars, sysVars
  <1>1. CASE StreamConnected
    <2>1. hotplug # <<>> /\ hotplug \in Seq(SysEvent)
      BY <1>1 DEF StreamConnected, SysTyped
    <2>2. Head(hotplug) \in SysEvent
      BY <2>1
    <2>3. Head(hotplug).serial \in Serials /\ Head(hotplug).opaque \in 0 .. MaxPlugs
      BY <2>2 DEF SysEvent
    <2> QED
      BY <1>1, <2>3 DEF StreamConnected, TakeNewId
  <1>2. CASE StreamDisconnected
    BY <1>2 DEF StreamDisconnected, Remove
  <1>3. CASE ArmRetain
    BY <1>3 DEF ArmRetain, Goto, Remove
  <1>4. CASE ArmInsert
    BY <1>4 DEF ArmInsert
  <1>5. CASE ArmIoError
    BY <1>5 DEF ArmIoError, Remove
  <1>6. CASE ArmReinsert
    BY <1>6 DEF ArmReinsert
  <1>7. CASE NetRemove
    BY <1>7 DEF NetRemove, Remove
  <1>8. ASSUME NEW a \in Adders, AddCheck(a)
        PROVE  RegTyped'
    <2>1. adder[a].serial \in Serials \cup {None}
      BY DEF AddTask
    <2>2. CASE UNCHANGED <<about, nextId>>
      BY <1>8, <2>2 DEF AddCheck
    <2>3. CASE TakeNewId(adder[a].serial, 0)
      BY <1>8, <2>1, <2>3 DEF AddCheck, TakeNewId
    <2> QED
      BY <1>8, <2>2, <2>3 DEF AddCheck
  <1>9. ASSUME NEW a \in Adders, AddInsert(a)
        PROVE  RegTyped'
    BY <1>9 DEF AddInsert, AdderGoto
  <1>10. ASSUME NEW id \in Ids, HeartbeatRemove(id)
        PROVE  RegTyped'
    BY <1>10 DEF HeartbeatRemove
  <1>11. CASE StreamOpened \/ StreamOpenFails \/ ArmSetTx \/ ArmFind \/ ArmShutdown \/
            ArmAnnounce \/ ArmDetached \/ ArmReopen \/ NetDetached
    BY <1>11 DEF StreamOpened, StreamOpenFails, ArmSetTx, ArmFind, ArmShutdown, ArmAnnounce,
       ArmDetached, ArmReopen, NetDetached, Goto
  <1>12. ASSUME NEW a \in Adders,
              AddConnect(a) \/ AddCheckUsb(a) \/ AddSend(a)
        PROVE  RegTyped'
    BY <1>12 DEF AddConnect, AddCheckUsb, AddSend, AdderGoto
  <1>13. ASSUME NEW a \in Adders, NEW s \in Serials,
              Resolved(a, s)
        PROVE  RegTyped'
    BY <1>13 DEF Resolved
  <1>14. ASSUME NEW s \in Serials,
              ServiceRemoved(s) \/ Plug(s)
        PROVE  RegTyped'
    BY <1>14 DEF ServiceRemoved, Plug
  <1>15. ASSUME NEW id \in Ids,
              HeartbeatFails(id) \/ HeartbeatDetached(id) \/ ReaderIoError(id)
        PROVE  RegTyped'
    BY <1>15 DEF HeartbeatFails, HeartbeatDetached, ReaderIoError
  <1>16. ASSUME NEW l \in Listeners,
              Subscribe(l) \/ Snapshot(l) \/ ListenerRecv(l) \/ ListenerEnds(l)
        PROVE  RegTyped'
    BY <1>16 DEF Subscribe, Snapshot, ListenerRecv, ListenerEnds
  <1>17. ASSUME NEW o \in Opaques,
              Again(o) \/ Unplug(o)
        PROVE  RegTyped'
    BY <1>17 DEF Again, Unplug
  <1>18. CASE UNCHANGED vars
    BY <1>18 DEF vars
  <1> QED
    BY <1>1, <1>2, <1>3, <1>4, <1>5, <1>6, <1>7, <1>8, <1>9, <1>10, <1>11, <1>12, <1>13, <1>14,
       <1>15, <1>16, <1>17, <1>18
       DEF Next, UsbWatcher, Adding, NetWatcher, HeartbeatEnd, Listening, System

\* So do the hotplug stream, the watcher and the readers.
LEMMA UsbTypeStep ==
    ASSUME Typed, [Next]_vars
    PROVE  UsbTyped'
  <1> USE ConstantsAssumption DEF Typed, RegTyped, UsbTyped, Stream, Watching, Select, Ids,
          Opaques, regVars, usbVars, netVars, sysVars
  <1>1. CASE StreamConnected
    <2>1. hotplug # <<>> /\ hotplug \in Seq(SysEvent)
      BY <1>1 DEF StreamConnected, SysTyped
    <2>2. Head(hotplug) \in SysEvent
      BY <2>1
    <2>3. Head(hotplug).opaque \in Opaques
      BY <2>2 DEF SysEvent
    <2> QED
      BY <1>1, <2>3 DEF StreamConnected, TakeNewId
  <1>2. CASE StreamOpened
    BY <1>2 DEF StreamOpened
  <1>3. CASE StreamOpenFails
    BY <1>3 DEF StreamOpenFails
  <1>4. CASE StreamDisconnected
    <2>1. hotplug # <<>> /\ hotplug \in Seq(SysEvent)
      BY <1>4 DEF StreamDisconnected, SysTyped
    <2>2. Head(hotplug) \in SysEvent
      BY <2>1
    <2>3. Head(hotplug).opaque \in Opaques
      BY <2>2 DEF SysEvent
    <2> DEFINE id == idMap[Head(hotplug).opaque]
    <2>4. id \in 0 .. MaxId /\ idMap' \in [Opaques -> 0 .. MaxId]
      BY <1>4, <2>3 DEF StreamDisconnected
    <2>5. watcher' = watcher \/ (watcher' = [pc |-> "shutdown", id |-> id] /\ id # 0)
      BY <1>4 DEF StreamDisconnected
    <2> HIDE DEF id
    <2>6. watcher' \in Watching /\ watcher'.id \in IF watcher'.pc = "select" THEN {0} ELSE Ids
      <3>1. CASE watcher' = watcher
        BY <3>1
      <3>2. CASE watcher' = [pc |-> "shutdown", id |-> id] /\ id # 0
        BY <2>4, <3>2
      <3> QED
        BY <2>5, <3>1, <3>2
    <2> QED
      BY <1>4, <2>4, <2>6 DEF StreamDisconnected
  <1>5. CASE ArmSetTx
    BY <1>5 DEF ArmSetTx, Goto
  <1>6. CASE ArmFind
    BY <1>6 DEF ArmFind, Goto
  <1>7. CASE ArmRetain
    BY <1>7 DEF ArmRetain, Goto, Remove
  <1>8. CASE ArmInsert
    BY <1>8 DEF ArmInsert
  <1>9. CASE ArmShutdown
    BY <1>9 DEF ArmShutdown, Goto
  <1>10. CASE ArmAnnounce
    BY <1>10 DEF ArmAnnounce, Goto
  <1>11. CASE ArmDetached
    BY <1>11 DEF ArmDetached
  <1>12. CASE ArmIoError
    <2>1. ioq # <<>> /\ ioq' = Tail(ioq) /\ watcher' = [pc |-> "reopen", id |-> Head(ioq)]
          /\ UNCHANGED <<stream, idMap, rd>>
      BY <1>12 DEF ArmIoError
    <2>2. /\ Head(ioq) \in Ids /\ Tail(ioq) \in Seq(Ids) /\ Len(Tail(ioq)) = Len(ioq) - 1
          /\ Len(ioq) \in Nat
      BY <2>1
    <2>3. Len(ioq') <= IoCap
      BY <2>1, <2>2
    <2>4. watcher' \in Watching /\ watcher'.pc # "select" /\ watcher'.id \in Ids
      BY <2>1, <2>2
    <2> QED
      BY <2>1, <2>2, <2>3, <2>4
  <1>13. CASE ArmReopen
    <2>1. CASE watcher' = Select /\ UNCHANGED rd
      BY <1>13, <2>1 DEF ArmReopen
    <2>2. CASE rd' = [rd EXCEPT ![watcher.id] = "fresh"] /\ Goto("reinsert")
      BY <1>13, <2>2 DEF ArmReopen, Goto
    <2> QED
      BY <1>13, <2>1, <2>2 DEF ArmReopen
  <1>14. CASE ArmReinsert
    BY <1>14 DEF ArmReinsert
  <1>15. ASSUME NEW id \in Ids, ReaderIoError(id)
        PROVE  UsbTyped'
    <2>1. UNCHANGED <<stream, idMap, watcher>>
      BY <1>15 DEF ReaderIoError
    <2>2. rd' \in [Ids -> {"none", "fresh", "run", "gone", "silent"}]
      BY <1>15 DEF ReaderIoError
    <2>3. ioq' \in Seq(Ids) /\ Len(ioq') <= IoCap
      <3>1. CASE Len(ioq) < IoCap /\ ioq' = Append(ioq, id)
        BY <3>1
      <3> QED
        BY <1>15, <3>1 DEF ReaderIoError
    <2> QED
      BY <2>1, <2>2, <2>3
  <1>16. CASE NetRemove \/ NetDetached
    BY <1>16 DEF NetRemove, NetDetached, Remove
  <1>17. ASSUME NEW a \in Adders,
              AddCheck(a) \/ AddConnect(a) \/ AddInsert(a) \/ AddCheckUsb(a) \/ AddSend(a)
        PROVE  UsbTyped'
    BY <1>17 DEF AddCheck, AddConnect, AddInsert, AddCheckUsb, AddSend, TakeNewId, AdderGoto
  <1>18. ASSUME NEW a \in Adders, NEW s \in Serials,
              Resolved(a, s)
        PROVE  UsbTyped'
    BY <1>18 DEF Resolved
  <1>19. ASSUME NEW s \in Serials,
              ServiceRemoved(s) \/ Plug(s)
        PROVE  UsbTyped'
    BY <1>19 DEF ServiceRemoved, Plug
  <1>20. ASSUME NEW id \in Ids,
              HeartbeatFails(id) \/ HeartbeatRemove(id) \/ HeartbeatDetached(id)
        PROVE  UsbTyped'
    BY <1>20 DEF HeartbeatFails, HeartbeatRemove, HeartbeatDetached
  <1>21. ASSUME NEW l \in Listeners,
              Subscribe(l) \/ Snapshot(l) \/ ListenerRecv(l) \/ ListenerEnds(l)
        PROVE  UsbTyped'
    BY <1>21 DEF Subscribe, Snapshot, ListenerRecv, ListenerEnds
  <1>22. ASSUME NEW o \in Opaques,
              Again(o) \/ Unplug(o)
        PROVE  UsbTyped'
    BY <1>22 DEF Again, Unplug
  <1>23. CASE UNCHANGED vars
    BY <1>23 DEF vars
  <1> QED
    BY <1>1, <1>2, <1>3, <1>4, <1>5, <1>6, <1>7, <1>8, <1>9, <1>10, <1>11, <1>12, <1>13, <1>14,
       <1>15, <1>16, <1>17, <1>18, <1>19, <1>20, <1>21, <1>22, <1>23
       DEF Next, UsbWatcher, Adding, NetWatcher, HeartbeatEnd, Listening, System

\* So do the network tasks and the heartbeats.
LEMMA NetTypeStep ==
    ASSUME Typed, [Next]_vars
    PROVE  NetTyped'
  <1> USE ConstantsAssumption DEF Typed, RegTyped, NetTyped, AddTask, NetTask, Ids, regVars,
          usbVars, netVars, sysVars
  <1>1. CASE StreamDisconnected
    BY <1>1 DEF StreamDisconnected, Remove
  <1>2. CASE ArmRetain
    BY <1>2 DEF ArmRetain, Goto, Remove
  <1>3. CASE ArmIoError
    BY <1>3 DEF ArmIoError, Remove
  <1>4. CASE NetRemove
    BY <1>4 DEF NetRemove, Remove
  <1>5. CASE NetDetached
    BY <1>5 DEF NetDetached
  <1>6. ASSUME NEW a \in Adders, AddCheck(a)
        PROVE  NetTyped'
    <2>0. adder[a].id \in 0 .. MaxId /\ UNCHANGED <<netw, hb>>
      BY <1>6 DEF AddCheck
    <2>1. CASE AdderGoto(a, "done")
      BY <1>6, <2>0, <2>1, AdderMoves
    <2>2. CASE nextId <= MaxId /\ adder' = [adder EXCEPT ![a].pc = "connect", ![a].id = nextId]
      <3>1. nextId \in Ids
        BY <2>2
      <3> QED
        BY <2>0, <2>2, <3>1, AdderStarts
    <2> QED
      BY <1>6, <2>1, <2>2 DEF AddCheck, TakeNewId
  <1>7. ASSUME NEW a \in Adders, AddConnect(a)
        PROVE  NetTyped'
    <2>0. adder[a].id \in Ids /\ netw' = netw /\ hb' \in [Ids -> {"none", "ok", "dead", "removed", "gone"}]
      BY <1>7 DEF AddConnect
    <2>1. CASE AdderGoto(a, "insert")
      BY <2>0, <2>1, AdderMoves
    <2>2. CASE AdderGoto(a, "done")
      BY <2>0, <2>2, AdderMoves
    <2> QED
      BY <1>7, <2>1, <2>2 DEF AddConnect
  <1>8. ASSUME NEW a \in Adders, AddInsert(a)
        PROVE  NetTyped'
    <2>0. adder[a].id \in Ids /\ UNCHANGED <<netw, hb>> /\ AdderGoto(a, "usb")
      BY <1>8 DEF AddInsert
    <2> QED
      BY <2>0, AdderMoves
  <1>9. ASSUME NEW a \in Adders, AddCheckUsb(a)
        PROVE  NetTyped'
    <2>0. adder[a].id \in Ids /\ UNCHANGED <<netw, hb>>
          /\ (AdderGoto(a, "send") \/ AdderGoto(a, "done"))
      BY <1>9 DEF AddCheckUsb
    <2> QED
      BY <2>0, AdderMoves
  <1>10. ASSUME NEW a \in Adders, AddSend(a)
        PROVE  NetTyped'
    <2>0. adder[a].id \in Ids /\ UNCHANGED <<netw, hb>> /\ AdderGoto(a, "done")
      BY <1>10 DEF AddSend
    <2> QED
      BY <2>0, AdderMoves
  <1>11. ASSUME NEW a \in Adders, NEW s \in Serials, Resolved(a, s)
        PROVE  NetTyped'
    BY <1>11 DEF Resolved
  <1>12. ASSUME NEW s \in Serials, ServiceRemoved(s)
        PROVE  NetTyped'
    BY <1>12 DEF ServiceRemoved, Find
  <1>13. ASSUME NEW id \in Ids, HeartbeatFails(id)
        PROVE  NetTyped'
    BY <1>13 DEF HeartbeatFails
  <1>14. ASSUME NEW id \in Ids, HeartbeatRemove(id)
        PROVE  NetTyped'
    BY <1>14 DEF HeartbeatRemove
  <1>15. ASSUME NEW id \in Ids, HeartbeatDetached(id)
        PROVE  NetTyped'
    BY <1>15 DEF HeartbeatDetached
  <1>16. CASE StreamConnected \/ StreamOpened \/ StreamOpenFails \/ ArmSetTx \/ ArmFind \/
            ArmInsert \/ ArmShutdown \/ ArmAnnounce \/ ArmDetached \/ ArmReopen \/ ArmReinsert
    BY <1>16 DEF StreamConnected, StreamOpened, StreamOpenFails, ArmSetTx, ArmFind, ArmInsert,
       ArmShutdown, ArmAnnounce, ArmDetached, ArmReopen, ArmReinsert, TakeNewId, Goto
  <1>17. ASSUME NEW s \in Serials,
              Plug(s)
        PROVE  NetTyped'
    BY <1>17 DEF Plug
  <1>18. ASSUME NEW id \in Ids,
              ReaderIoError(id)
        PROVE  NetTyped'
    BY <1>18 DEF ReaderIoError
  <1>19. ASSUME NEW l \in Listeners,
              Subscribe(l) \/ Snapshot(l) \/ ListenerRecv(l) \/ ListenerEnds(l)
        PROVE  NetTyped'
    BY <1>19 DEF Subscribe, Snapshot, ListenerRecv, ListenerEnds
  <1>20. ASSUME NEW o \in Opaques,
              Again(o) \/ Unplug(o)
        PROVE  NetTyped'
    BY <1>20 DEF Again, Unplug
  <1>21. CASE UNCHANGED vars
    BY <1>21 DEF vars
  <1> QED
    BY <1>1, <1>2, <1>3, <1>4, <1>5, <1>6, <1>7, <1>8, <1>9, <1>10, <1>11, <1>12, <1>13, <1>14,
       <1>15, <1>16, <1>17, <1>18, <1>19, <1>20, <1>21
       DEF Next, UsbWatcher, Adding, NetWatcher, HeartbeatEnd, Listening, System

--------------------------------------------------------------------------------
(* What the steps of a client that listens do to it.                       *)

OthersKept(l) == \A k \in Listeners \ {l} : lst'[k] = lst[k]

\* One listener changes to another typed one.
LEMMA OneListener ==
    ASSUME Typed, NEW l \in Listeners, NEW r \in Listener, Len(r.q) <= EventCap,
           lst' = [lst EXCEPT ![l] = r]
    PROVE  LstTyped' /\ OthersKept(l) /\ lst'[l] = r
  BY DEF Typed, LstTyped, OthersKept

\* Subscribing changes what the client is doing and nothing that it was told.
LEMMA SubscribeEffect ==
    ASSUME Typed, NEW l \in Listeners, Subscribe(l)
    PROVE  /\ LstTyped' /\ OthersKept(l)
           /\ lst'[l].st = "snap" /\ lst'[l].view = lst[l].view /\ lst'[l].q = lst[l].q
  <1> DEFINE r == [lst[l] EXCEPT !.st = "snap"]
  <1>1. lst[l] \in Listener /\ Len(lst[l].q) <= EventCap
    BY DEF Typed, LstTyped
  <1>2. r \in Listener /\ r.st = "snap" /\ r.view = lst[l].view /\ r.q = lst[l].q
    BY <1>1 DEF Listener
  <1>3. lst' = [lst EXCEPT ![l] = r]
    BY DEF Subscribe
  <1> HIDE DEF r
  <1> QED
    BY <1>1, <1>2, <1>3, OneListener

\* The snapshot adds one registered device at most.
LEMMA SnapshotEffect ==
    ASSUME Typed, NEW l \in Listeners, Snapshot(l)
    PROVE  /\ LstTyped' /\ OthersKept(l)
           /\ lst'[l].st \in {"snap", "on"} /\ lst'[l].q = lst[l].q
           /\ \/ lst'[l].view = lst[l].view
              \/ \E c \in Ids : devices[c] # "none" /\ lst'[l].view = lst[l].view \cup {c}
  <1>1. lst[l] \in Listener /\ Len(lst[l].q) <= EventCap /\ MaxId \in Nat /\ lst[l].st = "snap"
    BY ConstantsAssumption DEF Typed, LstTyped, Snapshot
  <1> DEFINE c == lst[l].cursor
  <1>2. c \in 1 .. MaxId + 1 /\ lst[l].view \subseteq Ids
    BY <1>1 DEF Listener
  <1>3. CASE c > MaxId
    <2> DEFINE r == [lst[l] EXCEPT !.st = "on", !.cursor = 1]
    <2>1. 1 \in 1 .. MaxId + 1
      BY <1>1
    <2>2. r \in Listener /\ r.st = "on" /\ r.q = lst[l].q /\ r.view = lst[l].view
      BY <1>1, <2>1 DEF Listener
    <2>3. lst' = [lst EXCEPT ![l] = r]
      BY <1>3 DEF Snapshot
    <2> HIDE DEF r
    <2> QED
      BY <1>1, <2>2, <2>3, OneListener
  <1>4. CASE ~(c > MaxId)
    <2> DEFINE v == IF Listed(c) THEN lst[l].view \cup {c} ELSE lst[l].view
               r == [lst[l] EXCEPT !.cursor = c + 1, !.view = v]
    <2>1. c \in Ids /\ c + 1 \in 1 .. MaxId + 1
      BY <1>1, <1>2, <1>4 DEF Ids
    <2>2. v \in SUBSET Ids
      BY <1>2, <2>1
    <2>3. v = lst[l].view \/ (devices[c] # "none" /\ v = lst[l].view \cup {c})
      BY DEF Listed
    <2>4. lst' = [lst EXCEPT ![l] = r]
      BY <1>4 DEF Snapshot
    <2> HIDE DEF v, c
    <2>5. r \in Listener /\ r.st = "snap" /\ r.q = lst[l].q /\ r.view = v
      BY <1>1, <2>1, <2>2 DEF Listener
    <2> HIDE DEF r
    <2>6. LstTyped' /\ OthersKept(l) /\ lst'[l] = r
      BY <1>1, <2>4, <2>5, OneListener
    <2> QED
      BY <2>1, <2>3, <2>5, <2>6
  <1> QED
    BY <1>3, <1>4

\* An event takes a device out, or adds one that is registered, or says nothing new.
LEMMA RecvEffect ==
    ASSUME Typed, NEW l \in Listeners, ListenerRecv(l)
    PROVE  /\ LstTyped' /\ OthersKept(l)
           /\ lst'[l].st = "on" /\ lst[l].q # <<>> /\ lst[l].q \in Seq(Told) /\ lst'[l].q = Tail(lst[l].q)
           /\ lst[l].q[1] \in Told
           /\ LET e == lst[l].q[1]
              IN  \/ e.kind = "Detached" /\ lst'[l].view = lst[l].view \ {e.id}
                  \/ e.kind # "Detached" /\ lst'[l].view = lst[l].view
                  \/ e.kind # "Detached" /\ devices[e.id] # "none" /\ lst'[l].view = lst[l].view \cup {e.id}
  <1>1. lst[l] \in Listener /\ lst[l].q # <<>> /\ Len(lst[l].q) <= EventCap /\ lst[l].st = "on"
    BY DEF Typed, LstTyped, ListenerRecv
  <1>2. lst[l].q \in Seq(Told) /\ lst[l].view \subseteq Ids
    BY <1>1 DEF Listener
  <1> DEFINE e == lst[l].q[1]
             v == IF e.kind = "Detached" THEN lst[l].view \ {e.id}
                  ELSE IF devices[e.id] # "none" THEN lst[l].view \cup {e.id} ELSE lst[l].view
             t == Tail(lst[l].q)
             r == [lst[l] EXCEPT !.q = t, !.view = v]
  <1>3. e \in Told /\ e = Head(lst[l].q) /\ Tail(lst[l].q) \in Seq(Told)
        /\ Len(Tail(lst[l].q)) = Len(lst[l].q) - 1 /\ Len(lst[l].q) \in Nat /\ EventCap \in Nat
    BY <1>1, <1>2, ConstantsAssumption
  <1>4. v \in SUBSET Ids
    BY <1>2, <1>3 DEF Told
  <1>5. \/ e.kind = "Detached" /\ v = lst[l].view \ {e.id}
        \/ e.kind # "Detached" /\ v = lst[l].view
        \/ e.kind # "Detached" /\ devices[e.id] # "none" /\ v = lst[l].view \cup {e.id}
    OBVIOUS
  <1>6. lst' = [lst EXCEPT ![l].q = t, ![l].view = v]
    BY <1>3 DEF ListenerRecv
  <1>7. t \in Seq(Told) /\ t = Tail(lst[l].q)
    BY <1>3
  <1> HIDE DEF v, t
  <1>8. lst' = [lst EXCEPT ![l] = r]
    BY <1>6
  <1>9. r \in Listener /\ r.st = "on" /\ r.q = Tail(lst[l].q) /\ r.view = v
    BY <1>1, <1>4, <1>7 DEF Listener
  <1> HIDE DEF r
  <1>10. Len(r.q) <= EventCap
    BY <1>1, <1>3, <1>9
  <1>11. LstTyped' /\ OthersKept(l) /\ lst'[l] = r
    BY <1>8, <1>9, <1>10, OneListener
  <1> QED
    BY <1>1, <1>2, <1>3, <1>5, <1>9, <1>11

\* A client that ends forgets everything.
LEMMA EndsEffect ==
    ASSUME Typed, NEW l \in Listeners, ListenerEnds(l)
    PROVE  LstTyped' /\ OthersKept(l) /\ lst'[l].view = {} /\ lst'[l].q = <<>>
  <1>1. Off \in Listener /\ Len(Off.q) = 0 /\ Off.view = {} /\ Off.q = <<>>
    BY ConstantsAssumption DEF Off, Listener
  <1>2. lst' = [lst EXCEPT ![l] = Off] /\ Len(Off.q) <= EventCap
    BY <1>1, ConstantsAssumption DEF ListenerEnds
  <1>3. LstTyped' /\ OthersKept(l) /\ lst'[l] = Off
    BY <1>1, <1>2, OneListener
  <1> QED
    BY <1>1, <1>3

\* What may happen to the listeners.
Tells ==
    \/ UNCHANGED lst
    \/ \E e \in Told : Broadcast(e)
    \/ \E l \in Listeners : Subscribe(l) \/ Snapshot(l) \/ ListenerRecv(l) \/ ListenerEnds(l)

\* The listeners change by a broadcast, or one of them by a step of its own.
LEMMA LstSteps ==
    ASSUME Typed, [Next]_vars
    PROVE  Tells
  <1> USE DEF Typed, Tells, regVars, usbVars, netVars, sysVars
  <1>e. \A id \in Ids : Attached(id) \in Told /\ Detached(id) \in Told
    BY EventTypes
  <1>w. watcher.pc # "select" => watcher.id \in Ids
    BY DEF UsbTyped
  <1>1. CASE ArmFind
    BY <1>1, <1>e, FindIds DEF ArmFind
  <1>2. CASE ArmAnnounce
    BY <1>2, <1>e, FindIds DEF ArmAnnounce
  <1>3. CASE ArmDetached
    BY <1>3, <1>e, <1>w DEF ArmDetached
  <1>4. CASE ArmIoError
    <2>1. ioq # <<>> /\ ioq \in Seq(Ids) /\ Broadcast(Detached(Head(ioq)))
      BY <1>4 DEF ArmIoError, UsbTyped
    <2>2. Head(ioq) \in Ids
      BY <2>1
    <2> QED
      BY <1>e, <2>1, <2>2
  <1>5. CASE ArmReinsert
    BY <1>5, <1>e, <1>w DEF ArmReinsert
  <1>6. CASE NetDetached
    BY <1>6, <1>e DEF NetDetached, NetTyped
  <1>7. ASSUME NEW a \in Adders, AddSend(a)
        PROVE  Tells
    BY <1>7, <1>e DEF AddSend, NetTyped
  <1>8. ASSUME NEW id \in Ids, HeartbeatDetached(id)
        PROVE  Tells
    BY <1>8, <1>e DEF HeartbeatDetached
  <1>9. ASSUME NEW l \in Listeners, Subscribe(l)
        PROVE  Tells
    BY <1>9
  <1>10. ASSUME NEW l \in Listeners, Snapshot(l)
        PROVE  Tells
    BY <1>10
  <1>11. ASSUME NEW l \in Listeners, ListenerRecv(l)
        PROVE  Tells
    BY <1>11
  <1>12. ASSUME NEW l \in Listeners, ListenerEnds(l)
        PROVE  Tells
    BY <1>12
  <1>13. CASE StreamConnected \/ StreamOpened \/ StreamOpenFails \/ StreamDisconnected \/
            ArmSetTx \/ ArmRetain \/ ArmInsert \/ ArmShutdown \/ ArmReopen \/ NetRemove
    BY <1>13 DEF StreamConnected, StreamOpened, StreamOpenFails, StreamDisconnected, ArmSetTx,
       ArmRetain, ArmInsert, ArmShutdown, ArmReopen, NetRemove, TakeNewId, Remove, Goto
  <1>14. ASSUME NEW a \in Adders,
              AddCheck(a) \/ AddConnect(a) \/ AddInsert(a) \/ AddCheckUsb(a)
        PROVE  Tells
    BY <1>14 DEF AddCheck, AddConnect, AddInsert, AddCheckUsb, TakeNewId, AdderGoto
  <1>15. ASSUME NEW a \in Adders, NEW s \in Serials,
              Resolved(a, s)
        PROVE  Tells
    BY <1>15 DEF Resolved
  <1>16. ASSUME NEW s \in Serials,
              ServiceRemoved(s) \/ Plug(s)
        PROVE  Tells
    BY <1>16 DEF ServiceRemoved, Plug
  <1>17. ASSUME NEW id \in Ids,
              HeartbeatFails(id) \/ HeartbeatRemove(id) \/ ReaderIoError(id)
        PROVE  Tells
    BY <1>17 DEF HeartbeatFails, HeartbeatRemove, ReaderIoError
  <1>18. ASSUME NEW o \in Opaques,
              Again(o) \/ Unplug(o)
        PROVE  Tells
    BY <1>18 DEF Again, Unplug
  <1>19. CASE UNCHANGED vars
    BY <1>19 DEF vars
  <1> QED
    BY <1>1, <1>2, <1>3, <1>4, <1>5, <1>6, <1>7, <1>8, <1>9, <1>10, <1>11, <1>12, <1>13, <1>14,
       <1>15, <1>16, <1>17, <1>18, <1>19
       DEF Next, UsbWatcher, Adding, NetWatcher, HeartbeatEnd, Listening, System

\* So do the listeners.
LEMMA LstTypeStep ==
    ASSUME Typed, [Next]_vars
    PROVE  LstTyped'
  <1>1. UNCHANGED lst => LstTyped'
    BY DEF Typed, LstTyped
  <1> QED
    BY <1>1, LstSteps, BroadcastLemma, SubscribeEffect, SnapshotEffect, RecvEffect, EndsEffect DEF Tells

\* A client that does not listen knows of nothing.
LEMMA QuietStep ==
    ASSUME Typed, Quiet, [Next]_vars
    PROVE  Quiet'
  <1>1. CASE UNCHANGED lst
    BY <1>1 DEF Quiet
  <1>2. ASSUME NEW e \in Told, Broadcast(e)
        PROVE  Quiet'
    BY <1>2, BroadcastLemma DEF Quiet
  <1>3. ASSUME NEW l \in Listeners, Subscribe(l)
        PROVE  Quiet'
    BY <1>3, SubscribeEffect DEF Quiet, OthersKept
  <1>4. ASSUME NEW l \in Listeners, Snapshot(l)
        PROVE  Quiet'
    BY <1>4, SnapshotEffect DEF Quiet, OthersKept
  <1>5. ASSUME NEW l \in Listeners, ListenerRecv(l)
        PROVE  Quiet'
    BY <1>5, RecvEffect DEF Quiet, OthersKept
  <1>6. ASSUME NEW l \in Listeners, ListenerEnds(l)
        PROVE  Quiet'
    BY <1>6, EndsEffect DEF Quiet, OthersKept
  <1> QED
    BY <1>1, <1>2, <1>3, <1>4, <1>5, <1>6, LstSteps DEF Tells

\* And so does the system outside.
LEMMA SysTypeStep ==
    ASSUME Typed, [Next]_vars
    PROVE  SysTyped'
  <1> USE ConstantsAssumption DEF Typed, SysTyped, regVars, usbVars, netVars, sysVars
  <1>1. CASE StreamConnected
    BY <1>1 DEF StreamConnected, TakeNewId
  <1>2. CASE StreamDisconnected
    BY <1>2 DEF StreamDisconnected, Remove
  <1>3. ASSUME NEW s \in Serials, Plug(s)
        PROVE  SysTyped'
    <2>1. plugs + 1 \in Opaques /\ plugs' = plugs + 1
      BY <1>3 DEF Plug, Opaques
    <2>2. Event("Connected", plugs + 1, s) \in SysEvent
      BY <2>1 DEF Event, SysEvent
    <2>3. hotplug' \in Seq(SysEvent)
      BY <1>3, <2>1, <2>2 DEF Plug
    <2> QED
      BY <1>3, <2>1, <2>3 DEF Plug, Opaques
  <1>4. ASSUME NEW id \in Ids, ReaderIoError(id)
        PROVE  SysTyped'
    BY <1>4 DEF ReaderIoError
  <1>5. ASSUME NEW o \in Opaques, Again(o)
        PROVE  SysTyped'
    <2>1. bus[o] \in Serials
      BY <1>5 DEF Again
    <2>2. Event("Connected", o, bus[o]) \in SysEvent
      BY <2>1 DEF Event, SysEvent
    <2>3. hotplug' \in Seq(SysEvent)
      BY <1>5, <2>2 DEF Again
    <2> QED
      BY <1>5, <2>3 DEF Again
  <1>6. ASSUME NEW o \in Opaques, Unplug(o)
        PROVE  SysTyped'
    <2>1. bus[o] \in Serials
      BY <1>6 DEF Unplug
    <2>2. Event("Disconnected", o, bus[o]) \in SysEvent
      BY <2>1 DEF Event, SysEvent
    <2>3. hotplug' \in Seq(SysEvent)
      BY <1>6, <2>2 DEF Unplug
    <2> QED
      BY <1>6, <2>3 DEF Unplug
  <1>7. CASE StreamOpened \/ StreamOpenFails \/ ArmSetTx \/ ArmFind \/ ArmRetain \/ ArmInsert \/
            ArmShutdown \/ ArmAnnounce \/ ArmDetached \/ ArmIoError \/ ArmReopen \/
            ArmReinsert \/ NetRemove \/ NetDetached
    BY <1>7 DEF StreamOpened, StreamOpenFails, ArmSetTx, ArmFind, ArmRetain, ArmInsert,
       ArmShutdown, ArmAnnounce, ArmDetached, ArmIoError, ArmReopen, ArmReinsert, NetRemove,
       NetDetached, Goto, Remove
  <1>8. ASSUME NEW a \in Adders,
              AddCheck(a) \/ AddConnect(a) \/ AddInsert(a) \/ AddCheckUsb(a) \/ AddSend(a)
        PROVE  SysTyped'
    BY <1>8 DEF AddCheck, AddConnect, AddInsert, AddCheckUsb, AddSend, TakeNewId, AdderGoto
  <1>9. ASSUME NEW a \in Adders, NEW s \in Serials,
              Resolved(a, s)
        PROVE  SysTyped'
    BY <1>9 DEF Resolved
  <1>10. ASSUME NEW s \in Serials,
              ServiceRemoved(s)
        PROVE  SysTyped'
    BY <1>10 DEF ServiceRemoved
  <1>11. ASSUME NEW id \in Ids,
              HeartbeatFails(id) \/ HeartbeatRemove(id) \/ HeartbeatDetached(id)
        PROVE  SysTyped'
    BY <1>11 DEF HeartbeatFails, HeartbeatRemove, HeartbeatDetached
  <1>12. ASSUME NEW l \in Listeners,
              Subscribe(l) \/ Snapshot(l) \/ ListenerRecv(l) \/ ListenerEnds(l)
        PROVE  SysTyped'
    BY <1>12 DEF Subscribe, Snapshot, ListenerRecv, ListenerEnds
  <1>13. CASE UNCHANGED vars
    BY <1>13 DEF vars
  <1> QED
    BY <1>1, <1>2, <1>3, <1>4, <1>5, <1>6, <1>7, <1>8, <1>9, <1>10, <1>11, <1>12, <1>13
       DEF Next, UsbWatcher, Adding, NetWatcher, HeartbeatEnd, Listening, System

\* Every step keeps the types.
LEMMA TypeStep ==
    ASSUME Typed, [Next]_vars
    PROVE  Typed'
  <1>1. RegTyped' /\ UsbTyped' /\ NetTyped'
    BY RegTypeStep, UsbTypeStep, NetTypeStep
  <1>2. LstTyped' /\ SysTyped'
    BY LstTypeStep, SysTypeStep
  <1> QED
    BY <1>1, <1>2 DEF Typed

\* The invariant's types are at least those of TypeOK.
LEMMA TypedOK == Typed => TypeOK
  <1> SUFFICES ASSUME Typed PROVE TypeOK
    OBVIOUS
  <1>1. /\ stream.st \in {"idle", "opening", "ended"} /\ stream.id \in 0 .. MaxId
        /\ watcher.pc \in {"select", "settx", "find", "retain", "insert", "shutdown", "announce",
                           "detached", "reopen", "reinsert"}
        /\ netw.pc \in {"idle", "remove", "send"} /\ netw.id \in 0 .. MaxId
    BY DEF Typed, UsbTyped, NetTyped, Stream, Watching, NetTask
  <1>2. \A l \in Listeners : Len(lst[l].q) <= EventCap /\ lst[l].view \subseteq Ids
    BY DEF Typed, LstTyped, Listener
  <1> QED
    BY <1>1, <1>2 DEF Typed, RegTyped, UsbTyped, NetTyped, TypeOK

--------------------------------------------------------------------------------
(* What the steps do to the USB side, field by field.                      *)

\* The watcher goes on with the same device, or back to its select!.
MovesTo(l) == watcher'.pc = l /\ watcher'.id = watcher.id
Rests == watcher'.pc = "select" /\ watcher'.id = 0
BusKept == UNCHANGED <<bus, plugs>>
NetKept == UNCHANGED <<adder, netw>>

\* A Connected event takes a new id for the device, and the stream opens it.
LEMMA ConnectedEffect ==
    ASSUME Typed, StreamConnected
    PROVE  /\ watcher.pc = "select" /\ hotplug # <<>> /\ hotplug' = Tail(hotplug)
           /\ hotplug[1].opaque \in Opaques /\ hotplug[1].serial \in Serials
           /\ nextId \in Ids /\ nextId' = nextId + 1
           /\ about'[nextId].opaque = hotplug[1].opaque /\ about'[nextId].serial = hotplug[1].serial
           /\ \A id \in Ids : id # nextId => about'[id] = about[id]
           /\ idMap'[hotplug[1].opaque] = nextId
           /\ \A o \in Opaques : o # hotplug[1].opaque => idMap'[o] = idMap[o]
           /\ stream'.st = "opening" /\ stream'.id = nextId
           /\ BusKept /\ NetKept /\ UNCHANGED <<devices, watcher, ioq, rd, hb, lst>>
  <1>1. /\ hotplug # <<>> /\ hotplug \in Seq(SysEvent)
        /\ about \in [Ids -> [serial : Serials \cup {None}, opaque : 0 .. MaxPlugs]]
        /\ idMap \in [Opaques -> 0 .. MaxId] /\ nextId \in 1 .. MaxId + 1
    BY DEF StreamConnected, Typed, SysTyped, RegTyped, UsbTyped
  <1>2. Head(hotplug) \in SysEvent /\ Head(hotplug) = hotplug[1]
    BY <1>1
  <1>3. hotplug[1].opaque \in Opaques /\ hotplug[1].serial \in Serials
    BY <1>2 DEF SysEvent
  <1> DEFINE o == hotplug[1].opaque
             s == hotplug[1].serial
  <1>4. /\ nextId <= MaxId /\ nextId' = nextId + 1
        /\ about' = [about EXCEPT ![nextId] = [serial |-> s, opaque |-> o]]
        /\ idMap' = [idMap EXCEPT ![o] = nextId]
    BY <1>2 DEF StreamConnected, TakeNewId
  <1> HIDE DEF o, s
  <1>5. nextId \in Ids
    BY <1>1, <1>4, ConstantsAssumption DEF Ids
  <1>6. /\ about'[nextId].opaque = o /\ about'[nextId].serial = s
        /\ \A id \in Ids : id # nextId => about'[id] = about[id]
    BY <1>1, <1>4, <1>5
  <1>7. idMap'[o] = nextId /\ \A p \in Opaques : p # o => idMap'[p] = idMap[p]
    BY <1>1, <1>3, <1>4 DEF o
  <1> QED
    BY <1>1, <1>3, <1>4, <1>5, <1>6, <1>7 DEF StreamConnected, BusKept, NetKept, netVars, o, s

\* The device is open: its reader runs without disconnected_tx, and the watcher takes over.
LEMMA OpenedEffect ==
    ASSUME Typed, StreamOpened
    PROVE  /\ watcher.pc = "select" /\ stream.st = "opening" /\ stream.id \in Ids /\ Present(stream.id)
           /\ stream'.st = "idle"
           /\ rd'[stream.id] = "fresh" /\ \A id \in Ids : id # stream.id => rd'[id] = rd[id]
           /\ watcher'.pc = "settx" /\ watcher'.id = stream.id
           /\ BusKept /\ NetKept /\ UNCHANGED <<devices, about, nextId, idMap, ioq, hotplug, hb, lst>>
  <1>1. stream \in Stream /\ rd \in [Ids -> {"none", "fresh", "run", "gone", "silent"}]
        /\ (stream.st = "opening" => stream.id \in Ids)
    BY DEF Typed, UsbTyped
  <1>2. stream'.st = "idle"
    BY <1>1 DEF StreamOpened, Stream
  <1> QED
    BY <1>1, <1>2 DEF StreamOpened, BusKept, NetKept, netVars, regVars, sysVars

\* A device that cannot be opened ends the stream and changes nothing else.
LEMMA OpenFailsEffect ==
    ASSUME Typed, StreamOpenFails
    PROVE  /\ stream'.st = "ended"
           /\ BusKept /\ NetKept
           /\ UNCHANGED <<devices, about, nextId, idMap, watcher, ioq, rd, hotplug, hb, lst>>
  <1>1. stream \in Stream
    BY DEF Typed, UsbTyped
  <1>2. stream'.st = "ended"
    BY <1>1 DEF StreamOpenFails, Stream
  <1> QED
    BY <1>2 DEF StreamOpenFails, BusKept, NetKept, netVars, regVars, sysVars

\* A Disconnected event takes out the entry of the id the stream knows, if there is one.
LEMMA DisconnectedEffect ==
    ASSUME Typed, StreamDisconnected
    PROVE  /\ watcher.pc = "select" /\ stream.st = "idle" /\ hotplug # <<>> /\ hotplug' = Tail(hotplug)
           /\ hotplug[1].opaque \in Opaques
           /\ idMap'[hotplug[1].opaque] = 0
           /\ \A o \in Opaques : o # hotplug[1].opaque => idMap'[o] = idMap[o]
           /\ \/ UNCHANGED <<devices, hb, watcher>>
              \/ \E id \in Ids :
                    /\ id = idMap[hotplug[1].opaque] /\ devices[id] # "none" /\ devices'[id] = "none"
                    /\ \A d \in Ids : d # id => devices'[d] = devices[d]
                    /\ \A d \in Ids : hb'[d] # hb[d] => devices[d] = "net" /\ hb'[d] = "gone"
                    /\ watcher'.pc = "shutdown" /\ watcher'.id = id
           /\ BusKept /\ NetKept /\ UNCHANGED <<about, nextId, stream, ioq, rd, lst>>
  <1>1. /\ hotplug # <<>> /\ hotplug \in Seq(SysEvent) /\ idMap \in [Opaques -> 0 .. MaxId]
    BY DEF StreamDisconnected, Typed, SysTyped, UsbTyped
  <1>2. Head(hotplug) \in SysEvent /\ Head(hotplug) = hotplug[1]
    BY <1>1
  <1>3. hotplug[1].opaque \in Opaques
    BY <1>2 DEF SysEvent
  <1> DEFINE o == hotplug[1].opaque
             id == idMap[o]
  <1>4. /\ idMap' = [idMap EXCEPT ![o] = 0]
        /\ \/ UNCHANGED <<devices, hb, watcher>>
           \/ /\ id # 0 /\ devices[id] # "none" /\ Remove({id})
              /\ watcher' = [pc |-> "shutdown", id |-> id]
    BY <1>2 DEF StreamDisconnected
  <1>5. id \in 0 .. MaxId
    BY <1>1, <1>3
  <1>6. idMap'[o] = 0 /\ \A p \in Opaques : p # o => idMap'[p] = idMap[p]
    BY <1>1, <1>3, <1>4
  <1>7. CASE id # 0 /\ devices[id] # "none" /\ Remove({id})
               /\ watcher' = [pc |-> "shutdown", id |-> id]
    <2> HIDE DEF id
    <2>1. id \in Ids
      BY <1>5, <1>7, ConstantsAssumption DEF Ids
    <2>2. /\ devices'[id] = "none" /\ \A d \in Ids : d # id => devices'[d] = devices[d]
          /\ \A d \in Ids : hb'[d] # hb[d] => devices[d] = "net" /\ hb'[d] = "gone"
      BY <1>7, <2>1 DEF Remove
    <2>3. watcher'.pc = "shutdown" /\ watcher'.id = id
      BY <1>7
    <2> QED
      BY <1>1, <1>3, <1>6, <1>7, <2>1, <2>2, <2>3 DEF StreamDisconnected, BusKept, NetKept, id
  <1>8. CASE UNCHANGED <<devices, hb, watcher>>
    BY <1>1, <1>3, <1>6, <1>8 DEF StreamDisconnected, BusKept, NetKept
  <1> QED
    BY <1>4, <1>7, <1>8

\* The reader of the device gets disconnected_tx unless it failed before.
LEMMA SetTxEffect ==
    ASSUME Typed, ArmSetTx
    PROVE  /\ watcher.pc = "settx" /\ watcher.id \in Ids /\ MovesTo("find")
           /\ rd'[watcher.id] = IF rd[watcher.id] = "fresh" THEN "run" ELSE rd[watcher.id]
           /\ \A id \in Ids : id # watcher.id => rd'[id] = rd[id]
           /\ BusKept /\ NetKept
           /\ UNCHANGED <<devices, about, nextId, stream, idMap, ioq, hotplug, hb, lst>>
  <1>1. watcher \in Watching /\ rd \in [Ids -> {"none", "fresh", "run", "gone", "silent"}]
        /\ watcher.pc = "settx" /\ watcher.id \in Ids
    BY DEF Typed, UsbTyped, ArmSetTx
  <1>2. MovesTo("find")
    BY <1>1 DEF ArmSetTx, Goto, MovesTo, Watching
  <1> QED
    BY <1>1, <1>2 DEF ArmSetTx, BusKept, NetKept, netVars, regVars, sysVars

\* The announcements change the watcher's place and the listeners only.
LEMMA AnnounceEffect ==
    ASSUME Typed, ArmFind \/ ArmAnnounce \/ ArmDetached
    PROVE  /\ watcher.pc # "select" /\ watcher.id \in Ids
           /\ \/ watcher.pc = "find" /\ MovesTo("retain")
              \/ watcher.pc = "announce" /\ MovesTo("detached")
              \/ watcher.pc = "detached" /\ Rests
           /\ BusKept /\ NetKept
           /\ UNCHANGED <<devices, about, nextId, stream, idMap, ioq, rd, hotplug, hb>>
  <1>1. watcher \in Watching /\ watcher.pc # "select" /\ watcher.id \in Ids
    BY DEF Typed, UsbTyped, ArmFind, ArmAnnounce, ArmDetached
  <1>2. \/ watcher.pc = "find" /\ MovesTo("retain")
        \/ watcher.pc = "announce" /\ MovesTo("detached")
        \/ watcher.pc = "detached" /\ Rests
    BY <1>1 DEF ArmFind, ArmAnnounce, ArmDetached, Goto, MovesTo, Rests, Select, Watching
  <1> QED
    BY <1>1, <1>2 DEF ArmFind, ArmAnnounce, ArmDetached, BusKept, NetKept, netVars, regVars, sysVars

\* Every entry with the serial number of the watcher's device goes.
LEMMA RetainEffect ==
    ASSUME Typed, ArmRetain
    PROVE  /\ watcher.pc = "retain" /\ watcher.id \in Ids /\ MovesTo("insert")
           /\ \A id \in Ids : devices'[id] = IF SameSerial(id, watcher.id) THEN "none" ELSE devices[id]
           /\ \A d \in Ids : hb'[d] # hb[d] => devices[d] = "net" /\ hb'[d] = "gone"
           /\ BusKept /\ NetKept
           /\ UNCHANGED <<about, nextId, stream, idMap, ioq, rd, hotplug, lst>>
  <1>1. watcher \in Watching /\ watcher.pc = "retain" /\ watcher.id \in Ids
        /\ devices \in [Ids -> {"none", "usb", "net"}]
    BY DEF Typed, RegTyped, UsbTyped, ArmRetain
  <1>2. MovesTo("insert")
    BY <1>1 DEF ArmRetain, Goto, MovesTo, Watching
  <1>3. /\ \A id \in Ids : devices'[id] = IF SameSerial(id, watcher.id) THEN "none" ELSE devices[id]
        /\ \A d \in Ids : hb'[d] # hb[d] => devices[d] = "net" /\ hb'[d] = "gone"
    BY <1>1 DEF ArmRetain, Remove, Find, Serial, SameSerial
  <1> QED
    BY <1>1, <1>2, <1>3 DEF ArmRetain, BusKept, NetKept, sysVars

\* The device is registered.
LEMMA InsertEffect ==
    ASSUME Typed, ArmInsert
    PROVE  /\ watcher.pc = "insert" /\ watcher.id \in Ids /\ Rests
           /\ devices'[watcher.id] = "usb" /\ \A d \in Ids : d # watcher.id => devices'[d] = devices[d]
           /\ BusKept /\ NetKept
           /\ UNCHANGED <<about, nextId, stream, idMap, ioq, rd, hotplug, hb, lst>>
  BY DEF Typed, RegTyped, UsbTyped, ArmInsert, Rests, Select, BusKept, NetKept, netVars, sysVars

\* The reader of the device is aborted.
LEMMA ShutdownEffect ==
    ASSUME Typed, ArmShutdown
    PROVE  /\ watcher.pc = "shutdown" /\ watcher.id \in Ids /\ (Rests \/ MovesTo("announce"))
           /\ rd'[watcher.id] = "gone" /\ \A id \in Ids : id # watcher.id => rd'[id] = rd[id]
           /\ BusKept /\ NetKept
           /\ UNCHANGED <<devices, about, nextId, stream, idMap, ioq, hotplug, hb, lst>>
  <1>1. watcher \in Watching /\ rd \in [Ids -> {"none", "fresh", "run", "gone", "silent"}]
        /\ watcher.pc = "shutdown" /\ watcher.id \in Ids
    BY DEF Typed, UsbTyped, ArmShutdown
  <1>2. Rests \/ MovesTo("announce")
    BY <1>1 DEF ArmShutdown, Goto, MovesTo, Rests, Select, Watching
  <1> QED
    BY <1>1, <1>2 DEF ArmShutdown, BusKept, NetKept, netVars, regVars, sysVars

\* The report of an I/O error takes out the USB entries with its opaque id.
LEMMA IoErrorEffect ==
    ASSUME Typed, ArmIoError
    PROVE  /\ watcher.pc = "select" /\ ioq # <<>> /\ ioq' = Tail(ioq) /\ ioq[1] \in Ids
           /\ \A d \in Ids : devices'[d] = IF devices[d] = "usb" /\ SameOpaque(d, ioq[1])
                                           THEN "none" ELSE devices[d]
           /\ watcher'.pc = "reopen" /\ watcher'.id = ioq[1]
           /\ BusKept /\ NetKept
           /\ UNCHANGED <<about, nextId, stream, idMap, rd, hotplug, hb>>
  <1>1. ioq # <<>> /\ ioq \in Seq(Ids) /\ devices \in [Ids -> {"none", "usb", "net"}]
        /\ hb \in [Ids -> {"none", "ok", "dead", "removed", "gone"}]
    BY DEF Typed, RegTyped, UsbTyped, NetTyped, ArmIoError
  <1>2. Head(ioq) = ioq[1] /\ ioq[1] \in Ids
    BY <1>1
  <1>3. /\ \A d \in Ids : devices'[d] = IF devices[d] = "usb" /\ SameOpaque(d, ioq[1])
                                        THEN "none" ELSE devices[d]
    BY <1>1, <1>2 DEF ArmIoError, Remove, SameOpaque
  <1>4. hb' = hb
    <2>1. hb' = [id \in Ids |-> hb[id]]
      BY DEF ArmIoError, Remove
    <2> QED
      BY <1>1, <2>1
  <1> QED
    BY <1>1, <1>2, <1>3, <1>4 DEF ArmIoError, BusKept, NetKept, sysVars

\* A device that is still there is opened again, under its old id.
LEMMA ReopenEffect ==
    ASSUME Typed, ArmReopen
    PROVE  /\ watcher.pc = "reopen" /\ watcher.id \in Ids
           /\ \/ /\ Present(watcher.id) /\ MovesTo("reinsert")
                 /\ rd'[watcher.id] = "fresh" /\ \A id \in Ids : id # watcher.id => rd'[id] = rd[id]
              \/ Rests /\ UNCHANGED rd
           /\ BusKept /\ NetKept
           /\ UNCHANGED <<devices, about, nextId, stream, idMap, ioq, hotplug, hb, lst>>
  <1>1. watcher \in Watching /\ rd \in [Ids -> {"none", "fresh", "run", "gone", "silent"}]
        /\ watcher.pc = "reopen" /\ watcher.id \in Ids
    BY DEF Typed, UsbTyped, ArmReopen
  <1>2. Goto("reinsert") => MovesTo("reinsert")
    BY <1>1 DEF Goto, MovesTo, Watching
  <1>3. watcher' = Select => Rests
    BY DEF Select, Rests
  <1> QED
    BY <1>1, <1>2, <1>3 DEF ArmReopen, BusKept, NetKept, netVars, regVars, sysVars

\* It gets disconnected_tx and is registered again.
LEMMA ReinsertEffect ==
    ASSUME Typed, ArmReinsert
    PROVE  /\ watcher.pc = "reinsert" /\ watcher.id \in Ids /\ Rests
           /\ rd'[watcher.id] = IF rd[watcher.id] = "fresh" THEN "run" ELSE rd[watcher.id]
           /\ \A id \in Ids : id # watcher.id => rd'[id] = rd[id]
           /\ devices'[watcher.id] = "usb" /\ \A d \in Ids : d # watcher.id => devices'[d] = devices[d]
           /\ BusKept /\ NetKept
           /\ UNCHANGED <<about, nextId, stream, idMap, ioq, hotplug, hb>>
  BY DEF Typed, RegTyped, UsbTyped, ArmReinsert, Rests, Select, BusKept, NetKept, netVars, sysVars

\* A reader that fails is reported, or is silent without disconnected_tx.
LEMMA ReaderEffect ==
    ASSUME Typed, NEW id \in Ids, ReaderIoError(id)
    PROVE  /\ \/ rd[id] = "run" /\ rd'[id] = "gone" /\ ioq' = Append(ioq, id)
              \/ rd[id] = "fresh" /\ rd'[id] = "silent" /\ ioq' = ioq
           /\ \A d \in Ids : d # id => rd'[d] = rd[d]
           /\ BusKept /\ NetKept
           /\ UNCHANGED <<devices, about, nextId, stream, idMap, watcher, hotplug, hb, lst>>
  BY DEF Typed, UsbTyped, ReaderIoError, BusKept, NetKept, netVars, regVars

\* A task that adds a network device takes an id.
Allocates(a) ==
    /\ nextId \in Ids /\ nextId' = nextId + 1
    /\ about'[nextId].opaque = 0
    /\ \A id \in Ids : id # nextId => about'[id] = about[id]
    /\ adder'[a].pc = "connect" /\ adder'[a].id = nextId
    /\ \A b \in Adders \ {a} : adder'[b] = adder[b]
    /\ BusKept
    /\ UNCHANGED <<devices, stream, idMap, watcher, ioq, rd, hotplug, netw, hb, lst>>

\* The USB side is left alone: at most an entry goes, or a task inserts its network device.
Elsewhere ==
    /\ \A id \in Ids :
          \/ devices'[id] = devices[id]
          \/ devices'[id] = "none"
          \/ devices'[id] = "net" /\ \E a \in Adders : adder[a].pc = "insert" /\ adder[a].id = id
    /\ BusKept /\ UNCHANGED <<about, nextId, stream, idMap, watcher, ioq, rd, hotplug>>

\* A task that adds a network device takes an id, or is done.
LEMMA CheckEffect ==
    ASSUME Typed, NEW a \in Adders, AddCheck(a)
    PROVE  \/ Allocates(a)
           \/ Elsewhere /\ AdderGoto(a, "done") /\ UNCHANGED <<devices, netw, hb, lst>>
  <1>1. CASE AdderGoto(a, "done") /\ UNCHANGED <<about, nextId>>
    BY <1>1 DEF AddCheck, Elsewhere, BusKept, usbVars, sysVars
  <1>2. CASE TakeNewId(adder[a].serial, 0)
             /\ adder' = [adder EXCEPT ![a].pc = "connect", ![a].id = nextId]
    <2>1. nextId \in Ids
      BY <1>2, ConstantsAssumption DEF Typed, RegTyped, TakeNewId, Ids
    <2>2. /\ nextId' = nextId + 1 /\ about'[nextId].opaque = 0
          /\ \A id \in Ids : id # nextId => about'[id] = about[id]
      BY <1>2, <2>1 DEF Typed, RegTyped, TakeNewId
    <2>3. /\ adder'[a].pc = "connect" /\ adder'[a].id = nextId
          /\ \A b \in Adders \ {a} : adder'[b] = adder[b]
      BY <1>2, <2>1, AdderStarts
    <2> QED
      BY <2>1, <2>2, <2>3 DEF AddCheck, Allocates, BusKept, usbVars, sysVars
  <1> QED
    BY <1>1, <1>2 DEF AddCheck

\* A step that is neither the watcher's, a reader's nor the bus's leaves the USB side alone.
LEMMA Steps ==
    ASSUME Typed, [Next]_vars
    PROVE  \/ UsbWatcher \/ Elsewhere
           \/ \E id \in Ids : ReaderIoError(id)
           \/ \E a \in Adders : Allocates(a)
           \/ \E s \in Serials : Plug(s)
           \/ \E o \in Opaques : Again(o) \/ Unplug(o)
  <1> USE DEF Elsewhere, BusKept, regVars, usbVars, sysVars
  <1>d. devices \in [Ids -> {"none", "usb", "net"}] /\ netw \in NetTask
    BY DEF Typed, RegTyped, NetTyped
  <1>1. CASE NetRemove
    <2>1. \A id \in Ids : devices'[id] \in {"none", devices[id]}
      BY <1>1, <1>d DEF NetRemove, Remove
    <2> QED
      BY <1>1, <2>1 DEF NetRemove
  <1>2. CASE NetDetached
    BY <1>2 DEF NetDetached
  <1>3. ASSUME NEW a \in Adders, AddCheck(a)
        PROVE  Elsewhere \/ Allocates(a)
    BY <1>3, CheckEffect
  <1>4. ASSUME NEW a \in Adders, AddConnect(a) \/ AddCheckUsb(a) \/ AddSend(a)
        PROVE  Elsewhere
    BY <1>4 DEF AddConnect, AddCheckUsb, AddSend
  <1>5. ASSUME NEW a \in Adders, AddInsert(a)
        PROVE  Elsewhere
    <2>1. devices' = [devices EXCEPT ![adder[a].id] = "net"] /\ adder[a].pc = "insert"
      BY <1>5 DEF AddInsert
    <2>2. \A id \in Ids : devices'[id] = devices[id] \/ (devices'[id] = "net" /\ adder[a].id = id)
      BY <1>d, <2>1
    <2> QED
      BY <1>5, <2>1, <2>2 DEF AddInsert
  <1>6. ASSUME NEW s \in Serials, ServiceRemoved(s) \/ \E a \in Adders : Resolved(a, s)
        PROVE  Elsewhere
    BY <1>6 DEF ServiceRemoved, Resolved
  <1>7. ASSUME NEW id \in Ids, HeartbeatFails(id) \/ HeartbeatDetached(id)
        PROVE  Elsewhere
    BY <1>7 DEF HeartbeatFails, HeartbeatDetached
  <1>8. ASSUME NEW id \in Ids, HeartbeatRemove(id)
        PROVE  Elsewhere
    <2>1. \A d \in Ids : devices'[d] \in {"none", devices[d]}
      BY <1>8, <1>d DEF HeartbeatRemove
    <2> QED
      BY <1>8, <2>1 DEF HeartbeatRemove
  <1>9. ASSUME NEW l \in Listeners, Subscribe(l) \/ Snapshot(l) \/ ListenerRecv(l) \/ ListenerEnds(l)
        PROVE  Elsewhere
    BY <1>9 DEF Subscribe, Snapshot, ListenerRecv, ListenerEnds
  <1>10. CASE UNCHANGED vars
    BY <1>10 DEF vars
  <1> QED
    BY <1>1, <1>2, <1>3, <1>4, <1>5, <1>6, <1>7, <1>8, <1>9, <1>10
       DEF Next, Adding, NetWatcher, HeartbeatEnd, Listening, System

\* What Tail does to a queue that is not empty.
LEMMA TailFacts ==
    ASSUME NEW S, NEW q \in Seq(S), q # <<>>
    PROVE  /\ Len(q) \in Nat \ {0} /\ Len(Tail(q)) = Len(q) - 1 /\ Tail(q) \in Seq(S)
           /\ \A i \in 1 .. Len(Tail(q)) : Tail(q)[i] = q[i + 1] /\ i + 1 \in 1 .. Len(q)
           /\ \A i \in 1 .. Len(q) : i = 1 \/ (i - 1 \in 1 .. Len(Tail(q)) /\ Tail(q)[i - 1] = q[i])
  <1>1. Len(q) \in Nat \ {0} /\ Len(Tail(q)) = Len(q) - 1 /\ Tail(q) \in Seq(S)
        /\ \A i \in 1 .. Len(Tail(q)) : Tail(q)[i] = q[i + 1]
    OBVIOUS
  <1>2. \A i \in 1 .. Len(Tail(q)) : i + 1 \in 1 .. Len(q)
    BY <1>1
  <1>3. ASSUME NEW i \in 1 .. Len(q), i # 1
        PROVE  i - 1 \in 1 .. Len(Tail(q)) /\ Tail(q)[i - 1] = q[i]
    <2>1. i - 1 \in 1 .. Len(Tail(q)) /\ (i - 1) + 1 = i
      BY <1>1, <1>3
    <2> QED
      BY <1>1, <2>1
  <1> QED
    BY <1>1, <1>2, <1>3

\* What Append does to a queue.
LEMMA AppendFacts ==
    ASSUME NEW S, NEW q \in Seq(S), NEW e
    PROVE  /\ Len(q) \in Nat /\ Len(Append(q, e)) = Len(q) + 1 /\ Append(q, e)[Len(q) + 1] = e
           /\ \A i \in 1 .. Len(q) : Append(q, e)[i] = q[i] /\ i \in 1 .. Len(Append(q, e))
           /\ \A i \in 1 .. Len(Append(q, e)) : i \in 1 .. Len(q) \/ i = Len(q) + 1
  OBVIOUS

\* Ids are handed out once, in turn (DEVICE_ID_COUNTER).
LEMMA UntakenStep ==
    ASSUME Typed, Untaken, Readers, AddersOwn, [Next]_vars
    PROVE  Untaken'
  <1>n. nextId \in Nat /\ watcher.id \in Nat /\ stream.id \in Nat /\ plugs \in Nat
    BY ConstantsAssumption DEF Typed, RegTyped, UsbTyped, SysTyped, Stream, Watching
  <1>m. \A o \in Opaques : idMap[o] \in Nat
    BY ConstantsAssumption DEF Typed, UsbTyped
  <1>i. \A id \in Ids : id \in Nat
    BY ConstantsAssumption DEF Ids

  <1>q. ioq # <<>> => rd[ioq[1]] # "none"
    <2>1. ioq \in Seq(Ids)
      BY DEF Typed, UsbTyped
    <2>2. ioq # <<>> => 1 \in 1 .. Len(ioq)
      BY <2>1
    <2> QED
      BY <2>2 DEF Readers
  <1>1. CASE StreamConnected
    BY <1>1, ConnectedEffect, <1>n, <1>m, <1>i
       DEF Untaken
  <1>2. CASE StreamOpened
    BY <1>2, OpenedEffect, <1>n, <1>m, <1>i
       DEF Untaken
  <1>3. CASE StreamOpenFails
    BY <1>3, OpenFailsEffect, <1>n, <1>m, <1>i
       DEF Untaken
  <1>4. CASE StreamDisconnected
    BY <1>4, DisconnectedEffect, <1>n, <1>m, <1>i
       DEF Untaken
  <1>5. CASE ArmSetTx
    BY <1>5, SetTxEffect, <1>n, <1>m, <1>i
       DEF MovesTo, Untaken
  <1>6. CASE ArmFind \/ ArmAnnounce \/ ArmDetached
    BY <1>6, AnnounceEffect, <1>n, <1>m, <1>i
       DEF MovesTo, Rests, Untaken
  <1>7. CASE ArmRetain
    BY <1>7, RetainEffect, <1>n, <1>m, <1>i
       DEF MovesTo, Untaken
  <1>8. CASE ArmInsert
    BY <1>8, InsertEffect, <1>n, <1>m, <1>i
       DEF Rests, Untaken
  <1>9. CASE ArmShutdown
    BY <1>9, ShutdownEffect, <1>n, <1>m, <1>i
       DEF MovesTo, Rests, Untaken
  <1>10. CASE ArmIoError
    <2>1. ioq[1] < nextId
      BY <1>10, <1>q, <1>n, <1>i, IoErrorEffect DEF Untaken
    <2> QED
      BY <1>10, <1>n, <1>m, <1>i, <2>1, IoErrorEffect DEF Untaken, BusKept, NetKept
  <1>11. CASE ArmReopen
    BY <1>11, ReopenEffect, <1>n, <1>m, <1>i
       DEF MovesTo, Rests, Untaken
  <1>12. CASE ArmReinsert
    BY <1>12, ReinsertEffect, <1>n, <1>m, <1>i
       DEF Rests, Untaken
  <1>13. ASSUME NEW id \in Ids, ReaderIoError(id)
        PROVE  Untaken'
    BY <1>13, ReaderEffect, <1>n, <1>m, <1>i
       DEF Untaken
  <1>14. ASSUME NEW a \in Adders, Allocates(a)
        PROVE  Untaken'
    BY <1>14, <1>n, <1>m, <1>i
       DEF Allocates, Untaken
  <1>15. CASE Elsewhere
    <2>1. \A id \in Ids : id >= nextId => devices'[id] = "none"
      BY <1>15, <1>n, <1>i DEF Elsewhere, Untaken, AddersOwn
    <2> QED
      BY <1>15, <2>1 DEF Elsewhere, BusKept, Untaken
  <1>16. ASSUME NEW s \in Serials, Plug(s)
        PROVE  Untaken'
    BY <1>16, <1>n, <1>m, <1>i
       DEF Plug, regVars, usbVars, netVars, Untaken
  <1>17. ASSUME NEW o \in Opaques, Again(o)
        PROVE  Untaken'
    BY <1>17, <1>n, <1>m, <1>i
       DEF Again, regVars, usbVars, netVars, Untaken
  <1>18. ASSUME NEW o \in Opaques, Unplug(o)
        PROVE  Untaken'
    BY <1>18, <1>n, <1>m, <1>i
       DEF Unplug, regVars, usbVars, netVars, Untaken
  <1> QED
    BY <1>1, <1>2, <1>3, <1>4, <1>5, <1>6, <1>7, <1>8, <1>9, <1>10, <1>11, <1>12, <1>13, <1>14,
       <1>15, <1>16, <1>17, <1>18, Steps
       DEF UsbWatcher

\* A device that leaves the bus comes back under another opaque id.
LEMMA OnBusStep ==
    ASSUME Typed, OnBus, [Next]_vars
    PROVE  OnBus'
  <1>n. nextId \in Nat /\ watcher.id \in Nat /\ stream.id \in Nat /\ plugs \in Nat
    BY ConstantsAssumption DEF Typed, RegTyped, UsbTyped, SysTyped, Stream, Watching
  <1>m. \A o \in Opaques : idMap[o] \in Nat
    BY ConstantsAssumption DEF Typed, UsbTyped
  <1>i. \A id \in Ids : id \in Nat
    BY ConstantsAssumption DEF Ids

  <1>h. hotplug \in Seq(SysEvent) /\ (hotplug # <<>> => 1 \in 1 .. Len(hotplug))
    <2>1. hotplug \in Seq(SysEvent)
      BY DEF Typed, SysTyped
    <2> QED
      BY <2>1
  <1>e. \A i \in 1 .. Len(hotplug) : hotplug[i].opaque \in Opaques /\ hotplug[i].serial \in Serials
    <2>1. \A i \in 1 .. Len(hotplug) : hotplug[i] \in SysEvent
      BY <1>h
    <2> QED
      BY <2>1 DEF SysEvent
  <1>o. \A o \in Opaques : o \in Nat \ {0} /\ bus[o] \in Serials \cup {None}
    BY ConstantsAssumption DEF Opaques, Typed, SysTyped
  <1>a. \A id \in Ids : about[id].opaque = 0 \/ about[id].opaque \in Opaques
    <2>1. \A id \in Ids : about[id].opaque \in 0 .. MaxPlugs
      BY DEF Typed, RegTyped
    <2> QED
      BY <2>1, ConstantsAssumption DEF Opaques
  <1>1. CASE StreamConnected
    <2>1. hotplug # <<>> /\ hotplug' = Tail(hotplug)
      BY <1>1, ConnectedEffect
    <2>2. \A i \in 1 .. Len(hotplug') : hotplug'[i] = hotplug[i + 1] /\ i + 1 \in 1 .. Len(hotplug)
      BY <1>h, <2>1, TailFacts

    <2>3. /\ hotplug[1].opaque <= plugs /\ bus[hotplug[1].opaque] \in {None, hotplug[1].serial}
      BY <1>h, <2>1 DEF OnBus
    <2>4. ASSUME NEW id \in Ids
          PROVE  /\ about'[id].opaque <= plugs
                 /\ Present(id)' => bus[about'[id].opaque] = about'[id].serial
      <3>1. CASE id = nextId
        BY <1>1, <2>3, <3>1, ConnectedEffect DEF Present, BusKept
      <3>2. CASE id # nextId
        BY <1>1, <3>2, ConnectedEffect DEF OnBus, Present, BusKept
      <3> QED
        BY <3>1, <3>2
    <2> QED
      BY <1>1, <2>2, <2>4, ConnectedEffect DEF OnBus, BusKept
  <1>2. CASE StreamOpened
    BY <1>2, OpenedEffect, <1>n, <1>i
       DEF BusKept, OnBus, Present
  <1>3. CASE StreamOpenFails
    BY <1>3, OpenFailsEffect, <1>n, <1>i
       DEF BusKept, OnBus, Present
  <1>4. CASE StreamDisconnected
    <2>1. hotplug # <<>> /\ hotplug' = Tail(hotplug)
      BY <1>4, DisconnectedEffect
    <2>2. \A i \in 1 .. Len(hotplug') : hotplug'[i] = hotplug[i + 1] /\ i + 1 \in 1 .. Len(hotplug)
      BY <1>h, <2>1, TailFacts

    <2>3. UNCHANGED <<about, bus, plugs>>
      BY <1>4, DisconnectedEffect DEF BusKept
    <2> QED
      BY <2>2, <2>3 DEF OnBus, Present
  <1>5. CASE ArmSetTx
    BY <1>5, SetTxEffect, <1>n, <1>i
       DEF BusKept, OnBus, Present
  <1>6. CASE ArmFind \/ ArmAnnounce \/ ArmDetached
    BY <1>6, AnnounceEffect, <1>n, <1>i
       DEF BusKept, OnBus, Present
  <1>7. CASE ArmRetain
    BY <1>7, RetainEffect, <1>n, <1>i
       DEF BusKept, OnBus, Present
  <1>8. CASE ArmInsert
    BY <1>8, InsertEffect, <1>n, <1>i
       DEF BusKept, OnBus, Present
  <1>9. CASE ArmShutdown
    BY <1>9, ShutdownEffect, <1>n, <1>i
       DEF BusKept, OnBus, Present
  <1>10. CASE ArmIoError
    BY <1>10, IoErrorEffect, <1>n, <1>i
       DEF BusKept, OnBus, Present
  <1>11. CASE ArmReopen
    BY <1>11, ReopenEffect, <1>n, <1>i
       DEF BusKept, OnBus, Present
  <1>12. CASE ArmReinsert
    BY <1>12, ReinsertEffect, <1>n, <1>i
       DEF BusKept, OnBus, Present
  <1>13. ASSUME NEW id \in Ids, ReaderIoError(id)
        PROVE  OnBus'
    BY <1>13, ReaderEffect, <1>n, <1>i
       DEF BusKept, OnBus, Present
  <1>14. ASSUME NEW a \in Adders, Allocates(a)
        PROVE  OnBus'
    BY <1>14, <1>n, <1>i
       DEF Allocates, BusKept, OnBus, Present
  <1>15. CASE Elsewhere
    BY <1>15, <1>n, <1>i
       DEF Elsewhere, BusKept, OnBus, Present
  <1>16. ASSUME NEW s \in Serials, Plug(s)
        PROVE  OnBus'
    <2> DEFINE ev == Event("Connected", plugs + 1, s)
    <2>1. /\ plugs' = plugs + 1 /\ plugs + 1 \in Opaques /\ hotplug' = Append(hotplug, ev)
          /\ \A o \in Opaques : bus'[o] = IF o = plugs + 1 THEN s ELSE bus[o]
          /\ about' = about
      BY <1>16, <1>n, ConstantsAssumption DEF Plug, Opaques, Typed, SysTyped, regVars
    <2>2. ev.opaque = plugs + 1 /\ ev.serial = s
      BY DEF Event
    <2> HIDE DEF ev
    <2>3. \A i \in 1 .. Len(hotplug') : \/ i \in 1 .. Len(hotplug) /\ hotplug'[i] = hotplug[i]
                                       \/ hotplug'[i] = ev
      BY <2>1, <1>h, AppendFacts

    <2>4. \A o \in Opaques : bus[o] # s
      BY <1>16 DEF Plug
    <2>5. \A o \in Opaques : o <= plugs => o # plugs + 1 /\ bus'[o] = bus[o] /\ o <= plugs'
      BY <1>n, <1>o, <2>1
    <2>6. \A o \in Opaques : o > plugs' => bus'[o] = None
      BY <1>n, <1>o, <2>1 DEF OnBus
    <2>7. \A o, p \in Opaques : bus'[o] # None /\ bus'[o] = bus'[p] => o = p
      BY <2>1, <2>4 DEF OnBus
    <2>8. ASSUME NEW i \in 1 .. Len(hotplug')
          PROVE  hotplug'[i].opaque <= plugs' /\ bus'[hotplug'[i].opaque] \in {None, hotplug'[i].serial}
      <3>1. CASE i \in 1 .. Len(hotplug) /\ hotplug'[i] = hotplug[i]
        BY <1>e, <2>5, <3>1 DEF OnBus
      <3>2. CASE hotplug'[i] = ev
        BY <1>n, <2>1, <2>2, <3>2
      <3> QED
        BY <2>3, <3>1, <3>2
    <2>9. ASSUME NEW id \in Ids
          PROVE  about[id].opaque <= plugs' /\ (Present(id)' => bus'[about[id].opaque] = about[id].serial)
      <3>1. CASE about[id].opaque = 0
        BY <1>n, <2>1, <3>1 DEF Present
      <3>2. CASE about[id].opaque \in Opaques
        BY <2>1, <2>5, <3>2 DEF OnBus, Present
      <3> QED
        BY <1>a, <3>1, <3>2
    <2> QED
      BY <2>1, <2>6, <2>7, <2>8, <2>9 DEF OnBus
  <1>17. ASSUME NEW o \in Opaques, Again(o)
        PROVE  OnBus'
    <2> DEFINE ev == Event("Connected", o, bus[o])
    <2>1. hotplug' = Append(hotplug, ev) /\ UNCHANGED <<bus, plugs, about>> /\ bus[o] # None
      BY <1>17 DEF Again, regVars
    <2>2. ev.opaque = o /\ ev.serial = bus[o] /\ o <= plugs
      BY <1>n, <1>o, <2>1 DEF Event, OnBus
    <2> HIDE DEF ev
    <2>3. \A i \in 1 .. Len(hotplug') : \/ i \in 1 .. Len(hotplug) /\ hotplug'[i] = hotplug[i]
                                       \/ hotplug'[i] = ev
      BY <2>1, <1>h, AppendFacts

    <2> QED
      BY <2>1, <2>2, <2>3 DEF OnBus, Present
  <1>18. ASSUME NEW o \in Opaques, Unplug(o)
        PROVE  OnBus'
    <2> DEFINE ev == Event("Disconnected", o, bus[o])
    <2>1. /\ hotplug' = Append(hotplug, ev) \/ hotplug' = hotplug
          /\ UNCHANGED <<plugs, about>> /\ bus[o] # None
          /\ \A p \in Opaques : bus'[p] = IF p = o THEN None ELSE bus[p]
      BY <1>18 DEF Unplug, regVars, Typed, SysTyped
    <2>2. ev.opaque = o /\ ev.serial = bus[o] /\ o <= plugs
      BY <1>n, <1>o, <2>1 DEF Event, OnBus
    <2> HIDE DEF ev
    <2>3. \A i \in 1 .. Len(hotplug') : \/ i \in 1 .. Len(hotplug) /\ hotplug'[i] = hotplug[i]
                                       \/ hotplug'[i] = ev
      BY <2>1, <1>h, AppendFacts
    <2>4. ASSUME NEW i \in 1 .. Len(hotplug')
          PROVE  hotplug'[i].opaque <= plugs' /\ bus'[hotplug'[i].opaque] \in {None, hotplug'[i].serial}
      <3>1. CASE i \in 1 .. Len(hotplug) /\ hotplug'[i] = hotplug[i]
        BY <1>e, <2>1, <3>1 DEF OnBus
      <3>2. CASE hotplug'[i] = ev
        BY <2>1, <2>2, <3>2
      <3> QED
        BY <2>3, <3>1, <3>2
    <2>5. ASSUME NEW id \in Ids
          PROVE  about[id].opaque <= plugs' /\ (Present(id)' => bus'[about[id].opaque] = about[id].serial)
      BY <1>a, <2>1 DEF OnBus, Present
    <2> QED
      BY <2>1, <2>4, <2>5 DEF OnBus
  <1> QED
    BY <1>1, <1>2, <1>3, <1>4, <1>5, <1>6, <1>7, <1>8, <1>9, <1>10, <1>11, <1>12, <1>13, <1>14,
       <1>15, <1>16, <1>17, <1>18, Steps
       DEF UsbWatcher

\* An entry keeps the kind it was created with.
LEMMA KindsStep ==
    ASSUME Typed, Untaken, Kinds, Readers, AddersOwn, [Next]_vars
    PROVE  Kinds'
  <1>n. nextId \in Nat /\ watcher.id \in Nat /\ stream.id \in Nat /\ plugs \in Nat
    BY ConstantsAssumption DEF Typed, RegTyped, UsbTyped, SysTyped, Stream, Watching
  <1>m. \A o \in Opaques : idMap[o] \in Nat
    BY ConstantsAssumption DEF Typed, UsbTyped
  <1>i. \A id \in Ids : id \in Nat
    BY ConstantsAssumption DEF Ids

  <1>q. ioq # <<>> => rd[ioq[1]] # "none"
    <2>1. ioq \in Seq(Ids)
      BY DEF Typed, UsbTyped
    <2>2. ioq # <<>> => 1 \in 1 .. Len(ioq)
      BY <2>1
    <2> QED
      BY <2>2 DEF Readers
  <1>1. CASE StreamConnected
    <2>1. nextId \in Ids /\ hotplug[1].opaque \in Opaques /\ hotplug[1].opaque # 0
      BY <1>1, ConnectedEffect, ConstantsAssumption DEF Opaques
    <2>2. \A o \in Opaques : idMap[o] # nextId /\ (idMap[o] # 0 => idMap[o] \in Ids)
      BY <1>n, <1>m, ConstantsAssumption DEF Untaken, Typed, UsbTyped, Ids
    <2>3. \A o \in Opaques : idMap'[o] # 0 => about'[idMap'[o]].opaque = o
      BY <1>1, <2>1, <2>2, ConnectedEffect DEF Kinds
    <2>4. devices[nextId] = "none" /\ rd[nextId] = "none"
      BY <1>n, <2>1 DEF Untaken
    <2> QED
      BY <1>1, <2>1, <2>3, <2>4, ConnectedEffect DEF Kinds
  <1>2. CASE StreamOpened
    BY <1>2, OpenedEffect, <1>n, <1>m, <1>i
       DEF Kinds, Untaken
  <1>3. CASE StreamOpenFails
    BY <1>3, OpenFailsEffect, <1>n, <1>m, <1>i
       DEF Kinds, Untaken
  <1>4. CASE StreamDisconnected
    <2>1. /\ UNCHANGED <<about, stream, rd>>
          /\ \A o \in Opaques : idMap'[o] \in {0, idMap[o]}
      BY <1>4, DisconnectedEffect
    <2>2. \A id \in Ids : devices'[id] = "net" => devices[id] = "net"
      BY <1>4, DisconnectedEffect
    <2> QED
      BY <2>1, <2>2 DEF Kinds
  <1>5. CASE ArmSetTx
    BY <1>5, SetTxEffect, <1>n, <1>m, <1>i
       DEF Kinds, Untaken
  <1>6. CASE ArmFind \/ ArmAnnounce \/ ArmDetached
    BY <1>6, AnnounceEffect, <1>n, <1>m, <1>i
       DEF Kinds, Untaken
  <1>7. CASE ArmRetain
    BY <1>7, RetainEffect, <1>n, <1>m, <1>i
       DEF Kinds, Untaken
  <1>8. CASE ArmInsert
    BY <1>8, InsertEffect, <1>n, <1>m, <1>i
       DEF Kinds, Untaken
  <1>9. CASE ArmShutdown
    <2>1. rd[watcher.id] # "none" /\ \A id \in Ids : rd'[id] # "none" => rd[id] # "none"
      BY <1>9, ShutdownEffect DEF Readers
    <2> QED
      BY <1>9, <2>1, ShutdownEffect DEF Kinds
  <1>10. CASE ArmIoError
    BY <1>10, IoErrorEffect, <1>n, <1>m, <1>i
       DEF Kinds, Untaken
  <1>11. CASE ArmReopen
    <2>1. \A id \in Ids : rd'[id] # "none" => rd[id] # "none"
      BY <1>11, ReopenEffect DEF Readers
    <2> QED
      BY <1>11, <2>1, ReopenEffect DEF Kinds
  <1>12. CASE ArmReinsert
    BY <1>12, ReinsertEffect, <1>n, <1>m, <1>i
       DEF Kinds, Untaken
  <1>13. ASSUME NEW id \in Ids, ReaderIoError(id)
        PROVE  Kinds'
    BY <1>13, ReaderEffect, <1>n, <1>m, <1>i
       DEF Kinds, Untaken
  <1>14. ASSUME NEW a \in Adders, Allocates(a)
        PROVE  Kinds'
    <2>1. nextId \in Ids /\ devices[nextId] = "none" /\ rd[nextId] = "none"
      BY <1>14, <1>n DEF Untaken, Allocates
    <2>2. \A o \in Opaques : idMap[o] # nextId /\ (idMap[o] # 0 => idMap[o] \in Ids)
      BY <1>n, <1>m, ConstantsAssumption DEF Untaken, Typed, UsbTyped, Ids
    <2>3. stream.st = "opening" => stream.id # nextId /\ stream.id \in Ids
      BY <1>n DEF Untaken, Typed, UsbTyped
    <2> QED
      BY <1>14, <2>1, <2>2, <2>3 DEF Kinds, Allocates, BusKept
  <1>15. CASE Elsewhere
    <2>1. \A id \in Ids : devices'[id] = "net" => about[id].opaque = 0
      BY <1>15 DEF Elsewhere, Kinds, AddersOwn
    <2> QED
      BY <1>15, <2>1 DEF Elsewhere, Kinds
  <1>16. ASSUME NEW s \in Serials, Plug(s)
        PROVE  Kinds'
    BY <1>16, <1>n, <1>m, <1>i
       DEF Plug, regVars, usbVars, netVars, Kinds, Untaken
  <1>17. ASSUME NEW o \in Opaques, Again(o)
        PROVE  Kinds'
    BY <1>17, <1>n, <1>m, <1>i
       DEF Again, regVars, usbVars, netVars, Kinds, Untaken
  <1>18. ASSUME NEW o \in Opaques, Unplug(o)
        PROVE  Kinds'
    BY <1>18, <1>n, <1>m, <1>i
       DEF Unplug, regVars, usbVars, netVars, Kinds, Untaken
  <1> QED
    BY <1>1, <1>2, <1>3, <1>4, <1>5, <1>6, <1>7, <1>8, <1>9, <1>10, <1>11, <1>12, <1>13, <1>14,
       <1>15, <1>16, <1>17, <1>18, Steps
       DEF UsbWatcher

\* A network device stays with the task that took its id, and its heartbeat starts once.
LEMMA AddersOwnStep ==
    ASSUME Typed, AddersOwn, [Next]_vars
    PROVE  AddersOwn'
  <1> USE DEF regVars, netVars
  <1>n. nextId \in Nat /\ \A id \in Ids : id \in Nat
    BY ConstantsAssumption DEF Typed, RegTyped, Ids
  <1>a. \A a \in Adders : adder[a].id \in Nat
    BY ConstantsAssumption DEF Typed, NetTyped, AddTask
  <1>c. \A a \in Adders : adder[a].pc \in {"connect", "insert", "usb", "send"} => adder[a].id \in Ids
    BY DEF Typed, NetTyped
  <1>t. hb \in [Ids -> {"none", "ok", "dead", "removed", "gone"}]
        /\ devices \in [Ids -> {"none", "usb", "net"}]
    BY DEF Typed, NetTyped, RegTyped
  <1>k. ASSUME UNCHANGED <<nextId, about, adder>>,
               \A id \in Ids : hb'[id] # hb[id] => hb[id] # "none" /\ hb'[id] # "none",
               \A id \in Ids : devices'[id] = "net" => devices[id] = "net"
        PROVE  AddersOwn'
    BY <1>k, <1>n, <1>c DEF AddersOwn
  <1>f. UNCHANGED <<nextId, about, adder, hb, devices>> => AddersOwn'
    BY DEF AddersOwn
  <1>g. ASSUME NEW a \in Adders, NEW l \in {"usb", "send", "done"}, AdderGoto(a, l),
               UNCHANGED <<nextId, about, hb, devices>>
        PROVE  AddersOwn'
    <2>1. /\ adder'[a].pc = l /\ adder'[a].id = adder[a].id
          /\ \A b \in Adders \ {a} : adder'[b] = adder[b]
      BY <1>g, AdderMoves
    <2> QED
      BY <1>g, <2>1 DEF AddersOwn
  <1>h. UNCHANGED vars => UNCHANGED <<nextId, about, adder, hb, devices>>
    BY DEF vars
  <1>1. CASE StreamConnected
    <2>1. /\ nextId \in Ids /\ nextId' = nextId + 1 /\ UNCHANGED <<adder, hb, devices>>
          /\ \A id \in Ids : id # nextId => about'[id] = about[id]
      BY <1>1, ConnectedEffect DEF NetKept
    <2> QED
      BY <1>n, <1>a, <1>c, <2>1 DEF AddersOwn
  <1>2. CASE StreamDisconnected
    <2>1. UNCHANGED <<nextId, about, adder>>
      BY <1>2, DisconnectedEffect DEF NetKept
    <2>2. \A d \in Ids : /\ hb'[d] # hb[d] => devices[d] = "net" /\ hb'[d] = "gone"
                         /\ devices'[d] = "net" => devices[d] = "net"
      BY <1>2, DisconnectedEffect
    <2> QED
      BY <1>k, <2>1, <2>2 DEF AddersOwn
  <1>3. CASE ArmRetain
    <2>1. UNCHANGED <<nextId, about, adder>>
      BY <1>3, RetainEffect DEF NetKept
    <2>2. \A d \in Ids : /\ hb'[d] # hb[d] => devices[d] = "net" /\ hb'[d] = "gone"
                         /\ devices'[d] = "net" => devices[d] = "net"
      BY <1>3, RetainEffect
    <2> QED
      BY <1>k, <2>1, <2>2 DEF AddersOwn
  <1>4. CASE ArmInsert
    <2>1. UNCHANGED <<nextId, about, adder, hb>> /\ \A d \in Ids : devices'[d] = "net" => devices[d] = "net"
      BY <1>4, InsertEffect DEF NetKept
    <2> QED
      BY <1>k, <2>1
  <1>5. CASE ArmIoError
    <2>1. UNCHANGED <<nextId, about, adder, hb>> /\ \A d \in Ids : devices'[d] = "net" => devices[d] = "net"
      BY <1>5, IoErrorEffect DEF NetKept
    <2> QED
      BY <1>k, <2>1
  <1>6. CASE ArmReinsert
    <2>1. UNCHANGED <<nextId, about, adder, hb>> /\ \A d \in Ids : devices'[d] = "net" => devices[d] = "net"
      BY <1>6, ReinsertEffect DEF NetKept
    <2> QED
      BY <1>k, <2>1
  <1>7. CASE NetRemove
    <2>1. UNCHANGED <<nextId, about, adder>>
      BY <1>7 DEF NetRemove
    <2>2. \A d \in Ids : /\ hb'[d] # hb[d] => devices[d] = "net" /\ hb'[d] = "gone"
                         /\ devices'[d] = "net" => devices[d] = "net"
      BY <1>7, <1>t DEF NetRemove, Remove
    <2> QED
      BY <1>k, <2>1, <2>2 DEF AddersOwn
  <1>8. ASSUME NEW a \in Adders, AddCheck(a)
        PROVE  AddersOwn'
    <2>1. CASE Allocates(a)
      BY <1>n, <1>a, <1>c, <2>1 DEF Allocates, AddersOwn
    <2>2. CASE Elsewhere /\ AdderGoto(a, "done") /\ UNCHANGED <<devices, netw, hb, lst>>
      BY <1>g, <2>2 DEF Elsewhere
    <2> QED
      BY <1>8, <2>1, <2>2, CheckEffect
  <1>9. ASSUME NEW a \in Adders, AddConnect(a)
        PROVE  AddersOwn'
    <2>1. UNCHANGED <<nextId, about, devices>> /\ adder[a].pc = "connect" /\ adder[a].id \in Ids
      BY <1>9, <1>c DEF AddConnect, regVars
    <2>2. CASE AdderGoto(a, "insert") /\ hb' = [hb EXCEPT ![adder[a].id] = "ok"]
      <3>1. /\ adder'[a].pc = "insert" /\ adder'[a].id = adder[a].id
            /\ \A b \in Adders \ {a} : adder'[b] = adder[b]
        BY <2>2, AdderMoves
      <3>2. hb'[adder[a].id] = "ok" /\ \A id \in Ids : id # adder[a].id => hb'[id] = hb[id]
        BY <1>t, <2>1, <2>2
      <3>3. \A b \in Adders \ {a} : adder[b].pc = "connect" => adder[b].id # adder[a].id
        BY <2>1 DEF AddersOwn
      <3>4. \A id \in Ids : /\ id >= nextId' => hb'[id] = "none"
                            /\ devices'[id] = "net" => hb'[id] # "none"
        BY <1>n, <2>1, <3>2 DEF AddersOwn
      <3>5. \A b \in Adders :
               /\ adder'[b].id < nextId'
               /\ adder'[b].pc \in {"connect", "insert"} => about'[adder'[b].id].opaque = 0
        BY <2>1, <3>1 DEF AddersOwn
      <3>6. \A b \in Adders : /\ adder'[b].pc = "connect" => hb'[adder'[b].id] = "none"
                              /\ adder'[b].pc = "insert" => hb'[adder'[b].id] # "none"
        BY <1>c, <2>1, <3>1, <3>2, <3>3 DEF AddersOwn
      <3>7. \A b, c \in Adders : adder'[b].pc = "connect" /\ adder'[c].pc = "connect"
                                /\ adder'[b].id = adder'[c].id => b = c
        BY <3>1 DEF AddersOwn
      <3>8. \A b \in Adders :
               /\ adder'[b].id < nextId'
               /\ adder'[b].pc \in {"connect", "insert"} => about'[adder'[b].id].opaque = 0
               /\ adder'[b].pc = "connect" => hb'[adder'[b].id] = "none"
               /\ adder'[b].pc = "insert" => hb'[adder'[b].id] # "none"
        BY <3>5, <3>6
      <3> QED
        BY <3>4, <3>7, <3>8, Zenon DEF AddersOwn
    <2>3. CASE AdderGoto(a, "done") /\ UNCHANGED hb
      BY <1>g, <2>1, <2>3
    <2> QED
      BY <1>9, <2>2, <2>3 DEF AddConnect
  <1>10. ASSUME NEW a \in Adders, AddInsert(a)
        PROVE  AddersOwn'
    <2>1. /\ adder'[a].pc = "usb" /\ adder'[a].id = adder[a].id
          /\ \A b \in Adders \ {a} : adder'[b] = adder[b]
      BY <1>10, AdderMoves DEF AddInsert
    <2>2. /\ UNCHANGED <<nextId, about, hb>> /\ adder[a].pc = "insert"
          /\ \A id \in Ids : devices'[id] = "net" => devices[id] = "net" \/ id = adder[a].id
      BY <1>10, <1>t DEF AddInsert
    <2> QED
      BY <2>1, <2>2 DEF AddersOwn
  <1>11. ASSUME NEW a \in Adders, AddCheckUsb(a)
        PROVE  AddersOwn'
    <2>1. UNCHANGED <<nextId, about, hb, devices>> /\ \E l \in {"usb", "send", "done"} : AdderGoto(a, l)
      BY <1>11 DEF AddCheckUsb, regVars
    <2> QED
      BY <1>g, <2>1
  <1>12. ASSUME NEW a \in Adders, AddSend(a)
        PROVE  AddersOwn'
    <2>1. UNCHANGED <<nextId, about, hb, devices>> /\ AdderGoto(a, "done")
      BY <1>12 DEF AddSend, regVars
    <2> QED
      BY <1>g, <2>1
  <1>13. ASSUME NEW a \in Adders, NEW s \in Serials, Resolved(a, s)
        PROVE  AddersOwn'
    <2>1. /\ adder'[a].pc = "check" /\ adder'[a].id = 0
          /\ \A b \in Adders \ {a} : adder'[b] = adder[b]
          /\ UNCHANGED <<nextId, about, hb, devices>>
      BY <1>13 DEF Resolved, regVars, Typed, NetTyped
    <2>2. 0 < nextId
      BY ConstantsAssumption DEF Typed, RegTyped
    <2> QED
      BY <2>1, <2>2 DEF AddersOwn
  <1>14. ASSUME NEW id \in Ids, HeartbeatFails(id)
        PROVE  AddersOwn'
    <2>1. UNCHANGED <<nextId, about, adder>>
      BY <1>14 DEF HeartbeatFails, regVars
    <2>2. \A d \in Ids : /\ hb'[d] # hb[d] => hb[d] # "none" /\ hb'[d] # "none"
                         /\ devices'[d] = "net" => devices[d] = "net"
      BY <1>14, <1>t DEF HeartbeatFails, regVars
    <2> QED
      BY <1>k, <2>1, <2>2
  <1>15. ASSUME NEW id \in Ids, HeartbeatRemove(id)
        PROVE  AddersOwn'
    <2>1. UNCHANGED <<nextId, about, adder>>
      BY <1>15 DEF HeartbeatRemove, regVars
    <2>2. \A d \in Ids : /\ hb'[d] # hb[d] => hb[d] # "none" /\ hb'[d] # "none"
                         /\ devices'[d] = "net" => devices[d] = "net"
      BY <1>15, <1>t DEF HeartbeatRemove, regVars
    <2> QED
      BY <1>k, <2>1, <2>2
  <1>16. ASSUME NEW id \in Ids, HeartbeatDetached(id)
        PROVE  AddersOwn'
    <2>1. UNCHANGED <<nextId, about, adder>>
      BY <1>16 DEF HeartbeatDetached, regVars
    <2>2. \A d \in Ids : /\ hb'[d] # hb[d] => hb[d] # "none" /\ hb'[d] # "none"
                         /\ devices'[d] = "net" => devices[d] = "net"
      BY <1>16, <1>t DEF HeartbeatDetached, regVars
    <2> QED
      BY <1>k, <2>1, <2>2
  <1>17. CASE StreamOpened \/ StreamOpenFails \/ ArmSetTx \/ ArmFind \/ ArmShutdown \/
            ArmAnnounce \/ ArmDetached \/ ArmReopen \/ NetDetached
    BY <1>17, <1>f DEF StreamOpened, StreamOpenFails, ArmSetTx, ArmFind, ArmShutdown,
       ArmAnnounce, ArmDetached, ArmReopen, NetDetached, Goto
  <1>18. ASSUME NEW s \in Serials,
              ServiceRemoved(s) \/ Plug(s)
        PROVE  AddersOwn'
    BY <1>18, <1>f DEF ServiceRemoved, Plug
  <1>19. ASSUME NEW id \in Ids,
              ReaderIoError(id)
        PROVE  AddersOwn'
    BY <1>19, <1>f DEF ReaderIoError
  <1>20. ASSUME NEW l \in Listeners,
              Subscribe(l) \/ Snapshot(l) \/ ListenerRecv(l) \/ ListenerEnds(l)
        PROVE  AddersOwn'
    BY <1>20, <1>f DEF Subscribe, Snapshot, ListenerRecv, ListenerEnds
  <1>21. ASSUME NEW o \in Opaques,
              Again(o) \/ Unplug(o)
        PROVE  AddersOwn'
    BY <1>21, <1>f DEF Again, Unplug
  <1>22. CASE UNCHANGED vars
    BY <1>22, <1>f, <1>h
  <1> QED
    BY <1>1, <1>2, <1>3, <1>4, <1>5, <1>6, <1>7, <1>8, <1>9, <1>10, <1>11, <1>12, <1>13, <1>14,
       <1>15, <1>16, <1>17, <1>18, <1>19, <1>20, <1>21, <1>22
       DEF Next, UsbWatcher, Adding, NetWatcher, HeartbeatEnd, Listening, System

\* A reader that can report an error goes on to be heard: its report stays queued until the watcher
\* has taken the entry out.
LEMMA ReadersStep ==
    ASSUME Typed, Untaken, Kinds, Readers, UsbEntryWatched, [Next]_vars
    PROVE  Readers' /\ UsbEntryWatched'
  <1>q. ioq \in Seq(Ids) /\ \A i \in 1 .. Len(ioq) : ioq[i] \in Ids
    <2>1. ioq \in Seq(Ids)
      BY DEF Typed, UsbTyped
    <2> QED
      BY <2>1
  <1>w. \A id \in Ids : devices[id] = "usb" => rd[id] # "none"
    BY DEF Readers, UsbEntryWatched
  <1>s. watcher.pc # "select" => watcher.id \in Ids
    BY DEF Typed, UsbTyped
  <1>t. stream.st = "opening" => stream.id \in Ids
    BY DEF Typed, UsbTyped
  <1>1. CASE StreamConnected
    <2>1. rd[nextId] = "none"
      BY <1>1, ConnectedEffect, ConstantsAssumption DEF Untaken, Typed, RegTyped
    <2> QED
      BY <1>1, <2>1, ConnectedEffect DEF Readers, UsbEntryWatched, Reported, NetKept
  <1>2. CASE StreamOpened
    <2>1. devices[stream.id] # "usb"
      BY <1>2, <1>w, OpenedEffect DEF Readers
    <2> QED
      BY <1>2, <2>1, <1>q, OpenedEffect DEF Readers, UsbEntryWatched, Reported
  <1>3. CASE StreamOpenFails
    BY <1>3, OpenFailsEffect, <1>q, <1>w, <1>s, <1>t
       DEF Readers, UsbEntryWatched, Reported
  <1>4. CASE StreamDisconnected
    <2>0. UNCHANGED <<stream, ioq, rd>>
      BY <1>4, DisconnectedEffect
    <2>1. CASE UNCHANGED <<devices, hb, watcher>>
      BY <2>0, <2>1 DEF Readers, UsbEntryWatched, Reported
    <2>2. CASE \E id \in Ids :
                  /\ id = idMap[hotplug[1].opaque] /\ devices[id] # "none" /\ devices'[id] = "none"
                  /\ \A d \in Ids : d # id => devices'[d] = devices[d]
                  /\ \A d \in Ids : hb'[d] # hb[d] => devices[d] = "net" /\ hb'[d] = "gone"
                  /\ watcher'.pc = "shutdown" /\ watcher'.id = id
      <3>1. PICK id \in Ids :
                  /\ id = idMap[hotplug[1].opaque] /\ devices[id] # "none" /\ devices'[id] = "none"
                  /\ \A d \in Ids : d # id => devices'[d] = devices[d]
                  /\ watcher'.pc = "shutdown" /\ watcher'.id = id
        BY <2>2
      <3>2. hotplug[1].opaque \in Opaques /\ hotplug[1].opaque # 0 /\ id # 0
        BY <1>4, DisconnectedEffect, ConstantsAssumption DEF Opaques, Ids
      <3>3. devices[id] = "usb"
        BY <3>1, <3>2 DEF Kinds, Typed, RegTyped
      <3>4. rd[id] # "none"
        BY <1>w, <3>3
      <3> QED
        BY <2>0, <3>1, <3>4 DEF Readers, UsbEntryWatched, Reported
    <2> QED
      BY <1>4, <2>1, <2>2, DisconnectedEffect
  <1>5. CASE ArmSetTx
    BY <1>5, SetTxEffect, <1>q, <1>w, <1>s, <1>t
       DEF MovesTo, Readers, UsbEntryWatched, Reported
  <1>6. CASE ArmFind \/ ArmAnnounce \/ ArmDetached
    BY <1>6, AnnounceEffect, <1>q, <1>w, <1>s, <1>t
       DEF MovesTo, Rests, Readers, UsbEntryWatched, Reported
  <1>7. CASE ArmRetain
    BY <1>7, RetainEffect, <1>q, <1>w, <1>s, <1>t
       DEF MovesTo, Readers, UsbEntryWatched, Reported
  <1>8. CASE ArmInsert
    BY <1>8, InsertEffect, <1>q, <1>w, <1>s, <1>t
       DEF Rests, Readers, UsbEntryWatched, Reported
  <1>9. CASE ArmShutdown
    BY <1>9, ShutdownEffect, <1>q, <1>w, <1>s, <1>t
       DEF MovesTo, Rests, Readers, UsbEntryWatched, Reported
  <1>10. CASE ArmIoError
    <2>0. ioq # <<>> /\ ioq' = Tail(ioq) /\ UNCHANGED <<stream, rd>>
      BY <1>10, IoErrorEffect
    <2>1. /\ \A i \in 1 .. Len(ioq') : ioq'[i] = ioq[i + 1] /\ i + 1 \in 1 .. Len(ioq)
          /\ \A i \in 1 .. Len(ioq) : i = 1 \/ (i - 1 \in 1 .. Len(ioq') /\ ioq'[i - 1] = ioq[i])
          /\ 1 \in 1 .. Len(ioq)
      BY <1>q, <2>0, TailFacts
    <2>2. \A i \in 1 .. Len(ioq') : rd[ioq'[i]] # "none"
      BY <2>1 DEF Readers
    <2>3. ASSUME NEW id \in Ids, devices'[id] = "usb"
          PROVE  rd[id] \in {"run", "silent"} \/ \E i \in 1 .. Len(ioq') : ioq'[i] = id
      <3>1. devices[id] = "usb" /\ id # ioq[1]
        BY <1>10, <2>3, IoErrorEffect DEF SameOpaque
      <3>2. ASSUME NEW i \in 1 .. Len(ioq), ioq[i] = id
            PROVE  \E j \in 1 .. Len(ioq') : ioq'[j] = id
        BY <2>1, <3>1, <3>2
      <3> QED
        BY <3>1, <3>2 DEF UsbEntryWatched
    <2>4. /\ watcher'.pc = "reopen" /\ rd[watcher'.id] # "none" /\ devices'[watcher'.id] # "usb"
      BY <1>10, <2>1, IoErrorEffect DEF Readers, SameOpaque
    <2> QED
      BY <2>0, <2>2, <2>3, <2>4 DEF Readers, UsbEntryWatched
  <1>11. CASE ArmReopen
    BY <1>11, ReopenEffect, <1>q, <1>w, <1>s, <1>t
       DEF MovesTo, Rests, Readers, UsbEntryWatched, Reported
  <1>12. CASE ArmReinsert
    BY <1>12, ReinsertEffect, <1>q, <1>w, <1>s, <1>t
       DEF Rests, Readers, UsbEntryWatched, Reported
  <1>13. ASSUME NEW id \in Ids, ReaderIoError(id)
        PROVE  Readers' /\ UsbEntryWatched'
    <2>1. CASE rd[id] = "fresh" /\ rd'[id] = "silent" /\ ioq' = ioq
      BY <1>13, <2>1, <1>q, <1>s, <1>t, ReaderEffect DEF Readers, UsbEntryWatched, Reported
    <2>2. CASE rd[id] = "run" /\ rd'[id] = "gone" /\ ioq' = Append(ioq, id)
      <3>1. /\ \A i \in 1 .. Len(ioq) : ioq'[i] = ioq[i] /\ i \in 1 .. Len(ioq')
            /\ \A i \in 1 .. Len(ioq') : i \in 1 .. Len(ioq) \/ ioq'[i] = id
            /\ \E i \in 1 .. Len(ioq') : ioq'[i] = id
        BY <1>q, <2>2, AppendFacts
      <3>2. \A d \in Ids : d # id => rd'[d] = rd[d]
        BY <1>13, ReaderEffect
      <3>3. \A i \in 1 .. Len(ioq') : rd'[ioq'[i]] # "none"
        BY <1>q, <2>2, <3>1, <3>2 DEF Readers
      <3>4. ASSUME NEW d \in Ids, rd[d] \in {"run", "silent"} \/ \E i \in 1 .. Len(ioq) : ioq[i] = d
            PROVE  rd'[d] \in {"run", "silent"} \/ \E i \in 1 .. Len(ioq') : ioq'[i] = d
        BY <3>1, <3>2, <3>4
      <3>5. UNCHANGED <<devices, stream, watcher>>
        BY <1>13, ReaderEffect
      <3>6. UsbEntryWatched'
        BY <3>4, <3>5 DEF UsbEntryWatched
      <3>7. watcher.pc \in {"find", "retain", "insert"} =>
               rd'[watcher.id] \in {"run", "silent"} \/ \E i \in 1 .. Len(ioq') : ioq'[i] = watcher.id
        BY <1>s, <3>4 DEF Readers, Reported
      <3>8. /\ stream.st = "opening" => rd'[stream.id] = "none"
            /\ watcher.pc # "select" => rd'[watcher.id] # "none" /\ devices[watcher.id] # "usb"
            /\ watcher.pc \in {"settx", "reinsert"} => rd'[watcher.id] \in {"fresh", "silent"}
        BY <1>s, <1>t, <2>2, <3>2 DEF Readers
      <3> QED
        BY <3>3, <3>5, <3>6, <3>7, <3>8 DEF Readers, Reported
    <2> QED
      BY <1>13, <2>1, <2>2, ReaderEffect
  <1>14. ASSUME NEW a \in Adders, Allocates(a)
        PROVE  Readers' /\ UsbEntryWatched'
    BY <1>14, <1>q, <1>w, <1>s, <1>t
       DEF Allocates, Readers, UsbEntryWatched, Reported
  <1>15. CASE Elsewhere
    BY <1>15, <1>q, <1>w, <1>s, <1>t
       DEF Elsewhere, Readers, UsbEntryWatched, Reported
  <1>16. ASSUME NEW s \in Serials, Plug(s)
        PROVE  Readers' /\ UsbEntryWatched'
    BY <1>16, <1>q, <1>w, <1>s, <1>t
       DEF Plug, regVars, usbVars, netVars, Readers, UsbEntryWatched, Reported
  <1>17. ASSUME NEW o \in Opaques, Again(o)
        PROVE  Readers' /\ UsbEntryWatched'
    BY <1>17, <1>q, <1>w, <1>s, <1>t
       DEF Again, regVars, usbVars, netVars, Readers, UsbEntryWatched, Reported
  <1>18. ASSUME NEW o \in Opaques, Unplug(o)
        PROVE  Readers' /\ UsbEntryWatched'
    BY <1>18, <1>q, <1>w, <1>s, <1>t
       DEF Unplug, regVars, usbVars, netVars, Readers, UsbEntryWatched, Reported
  <1> QED
    BY <1>1, <1>2, <1>3, <1>4, <1>5, <1>6, <1>7, <1>8, <1>9, <1>10, <1>11, <1>12, <1>13, <1>14,
       <1>15, <1>16, <1>17, <1>18, Steps
       DEF UsbWatcher

\* A serial number keeps at most one USB entry.
LEMMA UsbOnceStep ==
    ASSUME Typed, Untaken, UsbOnce, RoomMade, [Next]_vars
    PROVE  UsbOnce'
  <1>n. nextId \in Nat /\ watcher.id \in Nat /\ plugs \in Nat /\ \A id \in Ids : id \in Nat
    BY ConstantsAssumption DEF Typed, RegTyped, UsbTyped, SysTyped, Watching, Ids
  <1>u. \A id \in Ids : devices[id] = "usb" \/ rd[id] # "none" => id # nextId
    BY <1>n DEF Untaken
  <1>w. watcher.pc # "select" => watcher.id \in Ids /\ watcher.id # nextId
    BY <1>n DEF Untaken, Typed, UsbTyped
  <1>1. CASE StreamConnected
    BY <1>1, ConnectedEffect, <1>n, <1>u, <1>w
       DEF UsbOnce, RoomMade, SameSerial, SameOpaque
  <1>2. CASE StreamOpened
    BY <1>2, OpenedEffect, <1>n, <1>u, <1>w
       DEF UsbOnce, RoomMade, SameSerial, SameOpaque
  <1>3. CASE StreamOpenFails
    BY <1>3, OpenFailsEffect, <1>n, <1>u, <1>w
       DEF UsbOnce, RoomMade, SameSerial, SameOpaque
  <1>4. CASE StreamDisconnected
    BY <1>4, DisconnectedEffect, <1>n, <1>u, <1>w
       DEF UsbOnce, RoomMade, SameSerial, SameOpaque
  <1>5. CASE ArmSetTx
    BY <1>5, SetTxEffect, <1>n, <1>u, <1>w
       DEF UsbOnce, RoomMade, SameSerial, SameOpaque
  <1>6. CASE ArmFind \/ ArmAnnounce \/ ArmDetached
    BY <1>6, AnnounceEffect, <1>n, <1>u, <1>w
       DEF UsbOnce, RoomMade, SameSerial, SameOpaque
  <1>7. CASE ArmRetain
    BY <1>7, RetainEffect, <1>n, <1>u, <1>w
       DEF UsbOnce, RoomMade, SameSerial, SameOpaque
  <1>8. CASE ArmInsert
    BY <1>8, InsertEffect, <1>n, <1>u, <1>w
       DEF UsbOnce, RoomMade, SameSerial, SameOpaque
  <1>9. CASE ArmShutdown
    BY <1>9, ShutdownEffect, <1>n, <1>u, <1>w
       DEF UsbOnce, RoomMade, SameSerial, SameOpaque
  <1>10. CASE ArmIoError
    BY <1>10, IoErrorEffect, <1>n, <1>u, <1>w
       DEF UsbOnce, RoomMade, SameSerial, SameOpaque
  <1>11. CASE ArmReopen
    BY <1>11, ReopenEffect, <1>n, <1>u, <1>w
       DEF UsbOnce, RoomMade, SameSerial, SameOpaque
  <1>12. CASE ArmReinsert
    BY <1>12, ReinsertEffect, <1>n, <1>u, <1>w
       DEF UsbOnce, RoomMade, SameSerial, SameOpaque
  <1>13. ASSUME NEW id \in Ids, ReaderIoError(id)
        PROVE  UsbOnce'
    BY <1>13, ReaderEffect, <1>n, <1>u, <1>w
       DEF UsbOnce, RoomMade, SameSerial, SameOpaque
  <1>14. ASSUME NEW a \in Adders, Allocates(a)
        PROVE  UsbOnce'
    BY <1>14, <1>n, <1>u, <1>w
       DEF Allocates, UsbOnce, RoomMade, SameSerial, SameOpaque
  <1>15. CASE Elsewhere
    BY <1>15, <1>n, <1>u, <1>w
       DEF Elsewhere, UsbOnce, RoomMade, SameSerial, SameOpaque
  <1>16. ASSUME NEW s \in Serials, Plug(s)
        PROVE  UsbOnce'
    BY <1>16, <1>n, <1>u, <1>w
       DEF Plug, regVars, usbVars, netVars, UsbOnce, RoomMade, SameSerial, SameOpaque
  <1>17. ASSUME NEW o \in Opaques, Again(o)
        PROVE  UsbOnce'
    BY <1>17, <1>n, <1>u, <1>w
       DEF Again, regVars, usbVars, netVars, UsbOnce, RoomMade, SameSerial, SameOpaque
  <1>18. ASSUME NEW o \in Opaques, Unplug(o)
        PROVE  UsbOnce'
    BY <1>18, <1>n, <1>u, <1>w
       DEF Unplug, regVars, usbVars, netVars, UsbOnce, RoomMade, SameSerial, SameOpaque
  <1> QED
    BY <1>1, <1>2, <1>3, <1>4, <1>5, <1>6, <1>7, <1>8, <1>9, <1>10, <1>11, <1>12, <1>13, <1>14,
       <1>15, <1>16, <1>17, <1>18, Steps
       DEF UsbWatcher

\* Before the watcher inserts an entry, every other of that serial number is gone.
LEMMA RoomMadeStep ==
    ASSUME Typed, Untaken, Readers, RoomMade, LatestHeld, [Next]_vars
    PROVE  RoomMade'
  <1>n. nextId \in Nat /\ watcher.id \in Nat /\ plugs \in Nat /\ \A id \in Ids : id \in Nat
    BY ConstantsAssumption DEF Typed, RegTyped, UsbTyped, SysTyped, Watching, Ids
  <1>u. \A id \in Ids : devices[id] = "usb" \/ rd[id] # "none" => id # nextId
    BY <1>n DEF Untaken
  <1>w. watcher.pc # "select" => watcher.id \in Ids /\ watcher.id # nextId
    BY <1>n DEF Untaken, Typed, UsbTyped
  <1>1. CASE StreamConnected
    BY <1>1, ConnectedEffect, <1>n, <1>u, <1>w
       DEF RoomMade, SameSerial, SameOpaque
  <1>2. CASE StreamOpened
    BY <1>2, OpenedEffect, <1>n, <1>u, <1>w
       DEF RoomMade, SameSerial, SameOpaque
  <1>3. CASE StreamOpenFails
    BY <1>3, OpenFailsEffect, <1>n, <1>u, <1>w
       DEF RoomMade, SameSerial, SameOpaque
  <1>4. CASE StreamDisconnected
    BY <1>4, DisconnectedEffect, <1>n, <1>u, <1>w
       DEF RoomMade, SameSerial, SameOpaque
  <1>5. CASE ArmSetTx
    BY <1>5, SetTxEffect, <1>n, <1>u, <1>w
       DEF MovesTo, RoomMade, SameSerial, SameOpaque
  <1>6. CASE ArmFind \/ ArmAnnounce \/ ArmDetached
    BY <1>6, AnnounceEffect, <1>n, <1>u, <1>w
       DEF MovesTo, Rests, RoomMade, SameSerial, SameOpaque
  <1>7. CASE ArmRetain
    BY <1>7, RetainEffect, <1>n, <1>u, <1>w
       DEF MovesTo, RoomMade, SameSerial, SameOpaque
  <1>8. CASE ArmInsert
    BY <1>8, InsertEffect, <1>n, <1>u, <1>w
       DEF Rests, RoomMade, SameSerial, SameOpaque
  <1>9. CASE ArmShutdown
    BY <1>9, ShutdownEffect, <1>n, <1>u, <1>w
       DEF MovesTo, Rests, RoomMade, SameSerial, SameOpaque
  <1>10. CASE ArmIoError
    BY <1>10, IoErrorEffect, <1>n, <1>u, <1>w
       DEF RoomMade, SameSerial, SameOpaque
  <1>11. CASE ArmReopen
    <2>1. CASE Rests
      BY <2>1 DEF Rests, RoomMade
    <2>2. CASE Present(watcher.id) /\ MovesTo("reinsert")
      <3>1. ASSUME NEW d \in Ids, devices[d] = "usb"
            PROVE  ~SameSerial(d, watcher.id)
        <4>1. ~SameOpaque(d, watcher.id) /\ rd[watcher.id] # "none"
              /\ watcher.id \in Ids /\ watcher.pc = "reopen"
          BY <1>11, <3>1, ReopenEffect DEF RoomMade, Readers
        <4> QED
          BY <2>2, <3>1, <4>1 DEF LatestHeld
      <3> QED
        BY <1>11, <2>2, <3>1, ReopenEffect DEF RoomMade, MovesTo, SameSerial
    <2> QED
      BY <1>11, <2>1, <2>2, ReopenEffect
  <1>12. CASE ArmReinsert
    BY <1>12, ReinsertEffect, <1>n, <1>u, <1>w
       DEF Rests, RoomMade, SameSerial, SameOpaque
  <1>13. ASSUME NEW id \in Ids, ReaderIoError(id)
        PROVE  RoomMade'
    BY <1>13, ReaderEffect, <1>n, <1>u, <1>w
       DEF RoomMade, SameSerial, SameOpaque
  <1>14. ASSUME NEW a \in Adders, Allocates(a)
        PROVE  RoomMade'
    BY <1>14, <1>n, <1>u, <1>w
       DEF Allocates, RoomMade, SameSerial, SameOpaque
  <1>15. CASE Elsewhere
    BY <1>15, <1>n, <1>u, <1>w
       DEF Elsewhere, RoomMade, SameSerial, SameOpaque
  <1>16. ASSUME NEW s \in Serials, Plug(s)
        PROVE  RoomMade'
    BY <1>16, <1>n, <1>u, <1>w
       DEF Plug, regVars, usbVars, netVars, RoomMade, SameSerial, SameOpaque
  <1>17. ASSUME NEW o \in Opaques, Again(o)
        PROVE  RoomMade'
    BY <1>17, <1>n, <1>u, <1>w
       DEF Again, regVars, usbVars, netVars, RoomMade, SameSerial, SameOpaque
  <1>18. ASSUME NEW o \in Opaques, Unplug(o)
        PROVE  RoomMade'
    BY <1>18, <1>n, <1>u, <1>w
       DEF Unplug, regVars, usbVars, netVars, RoomMade, SameSerial, SameOpaque
  <1> QED
    BY <1>1, <1>2, <1>3, <1>4, <1>5, <1>6, <1>7, <1>8, <1>9, <1>10, <1>11, <1>12, <1>13, <1>14,
       <1>15, <1>16, <1>17, <1>18, Steps
       DEF UsbWatcher

\* The watcher handles what was plugged in last.
LEMMA LatestOpenedStep ==
    ASSUME Typed, Untaken, OnBus, LatestOpened, [Next]_vars
    PROVE  LatestOpened'
  <1>n. nextId \in Nat /\ watcher.id \in Nat /\ plugs \in Nat /\ \A id \in Ids : id \in Nat
    BY ConstantsAssumption DEF Typed, RegTyped, UsbTyped, SysTyped, Watching, Ids
  <1>u. \A id \in Ids : devices[id] = "usb" \/ rd[id] # "none" => id # nextId
    BY <1>n DEF Untaken
  <1>w. watcher.pc # "select" => watcher.id \in Ids /\ watcher.id # nextId
    BY <1>n DEF Untaken, Typed, UsbTyped

  <1>o. \A id \in Ids : about[id].opaque # 0 => about[id].opaque \in Opaques /\ about[id].opaque # plugs + 1
    <2>1. \A id \in Ids : about[id].opaque \in 0 .. MaxPlugs /\ about[id].opaque <= plugs
      BY DEF Typed, RegTyped, OnBus
    <2> QED
      BY <1>n, <2>1, ConstantsAssumption DEF Opaques
  <1>b. \A o \in Opaques : \A s : bus' = [bus EXCEPT ![o] = s] =>
             \A p \in Opaques : bus'[p] = IF p = o THEN s ELSE bus[p]
    BY DEF Typed, SysTyped
  <1>p. (\E s \in Serials : Plug(s)) => \A id \in Ids : Present(id)' => Present(id)
    <2>1. plugs < MaxPlugs => plugs + 1 \in Opaques
      BY <1>n, ConstantsAssumption DEF Opaques
    <2> QED
      BY <1>b, <1>o, <2>1 DEF Plug, Present, regVars
  <1>x. (\E o \in Opaques : Unplug(o)) => \A id \in Ids : Present(id)' => Present(id)
    BY <1>b, <1>o DEF Unplug, Present, regVars
  <1>1. CASE StreamConnected
    BY <1>1, ConnectedEffect, <1>n, <1>u, <1>w
       DEF BusKept, LatestOpened, Present, SameSerial, SameOpaque
  <1>2. CASE StreamOpened
    <2>1. ASSUME NEW w \in Ids, Present(w)
          PROVE  \A e \in Ids : SameSerial(e, w) /\ ~SameOpaque(e, w) => ~Present(e)
      BY <2>1, <1>o DEF OnBus, Present, SameSerial, SameOpaque

    <2> QED
      BY <1>2, <2>1, OpenedEffect DEF LatestOpened, SameSerial, SameOpaque, Present, BusKept
  <1>3. CASE StreamOpenFails
    BY <1>3, OpenFailsEffect, <1>n, <1>u, <1>w
       DEF BusKept, LatestOpened, Present, SameSerial, SameOpaque
  <1>4. CASE StreamDisconnected
    BY <1>4, DisconnectedEffect, <1>n, <1>u, <1>w
       DEF BusKept, LatestOpened, Present, SameSerial, SameOpaque
  <1>5. CASE ArmSetTx
    BY <1>5, SetTxEffect, <1>n, <1>u, <1>w
       DEF BusKept, MovesTo, LatestOpened, Present, SameSerial, SameOpaque
  <1>6. CASE ArmFind \/ ArmAnnounce \/ ArmDetached
    BY <1>6, AnnounceEffect, <1>n, <1>u, <1>w
       DEF BusKept, MovesTo, Rests, LatestOpened, Present, SameSerial, SameOpaque
  <1>7. CASE ArmRetain
    BY <1>7, RetainEffect, <1>n, <1>u, <1>w
       DEF BusKept, MovesTo, LatestOpened, Present, SameSerial, SameOpaque
  <1>8. CASE ArmInsert
    BY <1>8, InsertEffect, <1>n, <1>u, <1>w
       DEF BusKept, Rests, LatestOpened, Present, SameSerial, SameOpaque
  <1>9. CASE ArmShutdown
    BY <1>9, ShutdownEffect, <1>n, <1>u, <1>w
       DEF BusKept, MovesTo, Rests, LatestOpened, Present, SameSerial, SameOpaque
  <1>10. CASE ArmIoError
    BY <1>10, IoErrorEffect, <1>n, <1>u, <1>w
       DEF BusKept, LatestOpened, Present, SameSerial, SameOpaque
  <1>11. CASE ArmReopen
    <2>1. ASSUME NEW w \in Ids, Present(w)
          PROVE  \A e \in Ids : SameSerial(e, w) /\ ~SameOpaque(e, w) => ~Present(e)
      BY <2>1, <1>o DEF OnBus, Present, SameSerial, SameOpaque

    <2> QED
      BY <1>11, <2>1, ReopenEffect DEF LatestOpened, SameSerial, SameOpaque, Present, BusKept, Rests, MovesTo
  <1>12. CASE ArmReinsert
    BY <1>12, ReinsertEffect, <1>n, <1>u, <1>w
       DEF BusKept, Rests, LatestOpened, Present, SameSerial, SameOpaque
  <1>13. ASSUME NEW id \in Ids, ReaderIoError(id)
        PROVE  LatestOpened'
    BY <1>13, ReaderEffect, <1>n, <1>u, <1>w
       DEF BusKept, LatestOpened, Present, SameSerial, SameOpaque
  <1>14. ASSUME NEW a \in Adders, Allocates(a)
        PROVE  LatestOpened'
    BY <1>14, <1>n, <1>u, <1>w
       DEF Allocates, BusKept, LatestOpened, Present, SameSerial, SameOpaque
  <1>15. CASE Elsewhere
    BY <1>15, <1>n, <1>u, <1>w
       DEF Elsewhere, BusKept, LatestOpened, Present, SameSerial, SameOpaque
  <1>16. ASSUME NEW s \in Serials, Plug(s)
        PROVE  LatestOpened'
    <2>1. UNCHANGED <<about, watcher>> /\ \A id \in Ids : Present(id)' => Present(id)
      BY <1>16, <1>p DEF Plug, regVars, usbVars
    <2> QED
      BY <2>1 DEF LatestOpened, SameSerial, SameOpaque
  <1>17. ASSUME NEW o \in Opaques, Again(o)
        PROVE  LatestOpened'
    BY <1>17, <1>n, <1>u, <1>w
       DEF Again, regVars, usbVars, netVars, LatestOpened, Present, SameSerial, SameOpaque
  <1>18. ASSUME NEW o \in Opaques, Unplug(o)
        PROVE  LatestOpened'
    <2>1. UNCHANGED <<about, watcher>> /\ \A id \in Ids : Present(id)' => Present(id)
      BY <1>18, <1>x DEF Unplug, regVars, usbVars
    <2> QED
      BY <2>1 DEF LatestOpened, SameSerial, SameOpaque
  <1> QED
    BY <1>1, <1>2, <1>3, <1>4, <1>5, <1>6, <1>7, <1>8, <1>9, <1>10, <1>11, <1>12, <1>13, <1>14,
       <1>15, <1>16, <1>17, <1>18, Steps
       DEF UsbWatcher

\* The registry holds what was plugged in last.
LEMMA LatestHeldStep ==
    ASSUME Typed, Untaken, OnBus, Readers, LatestOpened, LatestHeld, [Next]_vars
    PROVE  LatestHeld'
  <1>n. nextId \in Nat /\ watcher.id \in Nat /\ plugs \in Nat /\ \A id \in Ids : id \in Nat
    BY ConstantsAssumption DEF Typed, RegTyped, UsbTyped, SysTyped, Watching, Ids
  <1>u. \A id \in Ids : devices[id] = "usb" \/ rd[id] # "none" => id # nextId
    BY <1>n DEF Untaken
  <1>w. watcher.pc # "select" => watcher.id \in Ids /\ watcher.id # nextId
    BY <1>n DEF Untaken, Typed, UsbTyped

  <1>o. \A id \in Ids : about[id].opaque # 0 => about[id].opaque \in Opaques /\ about[id].opaque # plugs + 1
    <2>1. \A id \in Ids : about[id].opaque \in 0 .. MaxPlugs /\ about[id].opaque <= plugs
      BY DEF Typed, RegTyped, OnBus
    <2> QED
      BY <1>n, <2>1, ConstantsAssumption DEF Opaques
  <1>b. \A o \in Opaques : \A s : bus' = [bus EXCEPT ![o] = s] =>
             \A p \in Opaques : bus'[p] = IF p = o THEN s ELSE bus[p]
    BY DEF Typed, SysTyped
  <1>p. (\E s \in Serials : Plug(s)) => \A id \in Ids : Present(id)' => Present(id)
    <2>1. plugs < MaxPlugs => plugs + 1 \in Opaques
      BY <1>n, ConstantsAssumption DEF Opaques
    <2> QED
      BY <1>b, <1>o, <2>1 DEF Plug, Present, regVars
  <1>x. (\E o \in Opaques : Unplug(o)) => \A id \in Ids : Present(id)' => Present(id)
    BY <1>b, <1>o DEF Unplug, Present, regVars
  <1>1. CASE StreamConnected
    BY <1>1, ConnectedEffect, <1>n, <1>u, <1>w
       DEF BusKept, LatestHeld, LatestOpened, Readers, Present, SameSerial, SameOpaque
  <1>2. CASE StreamOpened
    BY <1>2, OpenedEffect, <1>n, <1>u, <1>w
       DEF BusKept, LatestHeld, LatestOpened, Readers, Present, SameSerial, SameOpaque
  <1>3. CASE StreamOpenFails
    BY <1>3, OpenFailsEffect, <1>n, <1>u, <1>w
       DEF BusKept, LatestHeld, LatestOpened, Readers, Present, SameSerial, SameOpaque
  <1>4. CASE StreamDisconnected
    BY <1>4, DisconnectedEffect, <1>n, <1>u, <1>w
       DEF BusKept, LatestHeld, LatestOpened, Readers, Present, SameSerial, SameOpaque
  <1>5. CASE ArmSetTx
    BY <1>5, SetTxEffect, <1>n, <1>u, <1>w
       DEF BusKept, MovesTo, LatestHeld, LatestOpened, Readers, Present, SameSerial, SameOpaque
  <1>6. CASE ArmFind \/ ArmAnnounce \/ ArmDetached
    <2>1. UNCHANGED <<about, bus, devices, rd>>
      BY <1>6, AnnounceEffect DEF BusKept
    <2>2. watcher.pc \in {"settx", "find", "retain"} =>
             watcher'.id = watcher.id /\ watcher'.pc \in {"settx", "find", "retain"}
      BY <1>6, AnnounceEffect DEF MovesTo
    <2> QED
      BY <2>1, <2>2 DEF LatestHeld, SameSerial, SameOpaque, Present
  <1>7. CASE ArmRetain
    BY <1>7, RetainEffect, <1>n, <1>u, <1>w
       DEF BusKept, MovesTo, LatestHeld, LatestOpened, Readers, Present, SameSerial, SameOpaque
  <1>8. CASE ArmInsert
    BY <1>8, InsertEffect, <1>n, <1>u, <1>w
       DEF BusKept, Rests, LatestHeld, LatestOpened, Readers, Present, SameSerial, SameOpaque
  <1>9. CASE ArmShutdown
    BY <1>9, ShutdownEffect, <1>n, <1>u, <1>w
       DEF BusKept, MovesTo, Rests, LatestHeld, LatestOpened, Readers, Present, SameSerial,
           SameOpaque
  <1>10. CASE ArmIoError
    BY <1>10, IoErrorEffect, <1>n, <1>u, <1>w
       DEF BusKept, LatestHeld, LatestOpened, Readers, Present, SameSerial, SameOpaque
  <1>11. CASE ArmReopen
    BY <1>11, ReopenEffect, <1>n, <1>u, <1>w
       DEF BusKept, MovesTo, Rests, LatestHeld, LatestOpened, Readers, Present, SameSerial,
           SameOpaque
  <1>12. CASE ArmReinsert
    BY <1>12, ReinsertEffect, <1>n, <1>u, <1>w
       DEF BusKept, Rests, LatestHeld, LatestOpened, Readers, Present, SameSerial, SameOpaque
  <1>13. ASSUME NEW id \in Ids, ReaderIoError(id)
        PROVE  LatestHeld'
    BY <1>13, ReaderEffect, <1>n, <1>u, <1>w
       DEF BusKept, LatestHeld, LatestOpened, Readers, Present, SameSerial, SameOpaque
  <1>14. ASSUME NEW a \in Adders, Allocates(a)
        PROVE  LatestHeld'
    BY <1>14, <1>n, <1>u, <1>w
       DEF Allocates, BusKept, LatestHeld, LatestOpened, Readers, Present, SameSerial,
           SameOpaque
  <1>15. CASE Elsewhere
    BY <1>15, <1>n, <1>u, <1>w
       DEF Elsewhere, BusKept, LatestHeld, LatestOpened, Readers, Present, SameSerial,
           SameOpaque
  <1>16. ASSUME NEW s \in Serials, Plug(s)
        PROVE  LatestHeld'
    <2>1. UNCHANGED <<about, watcher, devices, rd>> /\ \A id \in Ids : Present(id)' => Present(id)
      BY <1>16, <1>p DEF Plug, regVars, usbVars
    <2> QED
      BY <2>1 DEF LatestHeld, SameSerial, SameOpaque
  <1>17. ASSUME NEW o \in Opaques, Again(o)
        PROVE  LatestHeld'
    BY <1>17, <1>n, <1>u, <1>w
       DEF Again, regVars, usbVars, netVars, LatestHeld, LatestOpened, Readers, Present,
           SameSerial, SameOpaque
  <1>18. ASSUME NEW o \in Opaques, Unplug(o)
        PROVE  LatestHeld'
    <2>1. UNCHANGED <<about, watcher, devices, rd>> /\ \A id \in Ids : Present(id)' => Present(id)
      BY <1>18, <1>x DEF Unplug, regVars, usbVars
    <2> QED
      BY <2>1 DEF LatestHeld, SameSerial, SameOpaque
  <1> QED
    BY <1>1, <1>2, <1>3, <1>4, <1>5, <1>6, <1>7, <1>8, <1>9, <1>10, <1>11, <1>12, <1>13, <1>14,
       <1>15, <1>16, <1>17, <1>18, Steps
       DEF UsbWatcher

--------------------------------------------------------------------------------
(* Before anything was plugged in.                                         *)

\* The USB side is idle then, and stays so.
LEMMA NothingPlugged ==
    ASSUME Typed, OnBus, Kinds, Readers, UsbEntryWatched, plugs = 0
    PROVE  /\ \A id \in Ids : rd[id] = "none" /\ devices[id] # "usb"
           /\ watcher.pc = "select" /\ stream.st # "opening" /\ ioq = <<>> /\ hotplug = <<>>
           /\ \A o \in Opaques : bus[o] = None
  <1>1. \A id \in Ids : about[id].opaque = 0
    <2>1. \A id \in Ids : about[id].opaque \in 0 .. MaxPlugs /\ about[id].opaque <= 0
      BY DEF Typed, RegTyped, OnBus
    <2> QED
      BY <2>1, ConstantsAssumption
  <1>2. \A id \in Ids : rd[id] = "none"
    BY <1>1 DEF Kinds
  <1>3. ioq = <<>>
    <2>1. ioq \in Seq(Ids) /\ \A i \in 1 .. Len(ioq) : rd[ioq[i]] # "none"
      BY DEF Typed, UsbTyped, Readers
    <2>2. ioq # <<>> => 1 \in 1 .. Len(ioq) /\ ioq[1] \in Ids
      BY <2>1
    <2> QED
      BY <1>2, <2>1, <2>2
  <1>4. \A id \in Ids : devices[id] # "usb"
    <2>1. Len(ioq) = 0
      BY <1>3
    <2> QED
      BY <1>2, <2>1 DEF UsbEntryWatched
  <1>5. watcher.pc = "select" /\ stream.st # "opening"
    BY <1>1, <1>2 DEF Readers, Kinds, Typed, UsbTyped
  <1>6. \A o \in Opaques : o > 0
    BY ConstantsAssumption DEF Opaques
  <1>7. hotplug = <<>>
    <2>1. hotplug \in Seq(SysEvent)
      BY DEF Typed, SysTyped
    <2>2. hotplug # <<>> => 1 \in 1 .. Len(hotplug) /\ hotplug[1] \in SysEvent
      BY <2>1
    <2>3. hotplug # <<>> => hotplug[1].opaque \in Opaques /\ hotplug[1].opaque <= 0
      BY <2>2 DEF SysEvent, OnBus
    <2>4. \A o \in Opaques : ~(o <= 0)
      BY <1>6, ConstantsAssumption DEF Opaques
    <2> QED
      BY <2>3, <2>4
  <1>8. \A o \in Opaques : bus[o] = None
    BY <1>6 DEF OnBus
  <1> QED
    BY <1>2, <1>3, <1>4, <1>5, <1>7, <1>8

\* A network device that is registered, or that a task is about to announce as gone.
Leaves(id) == devices[id] = "net" \/ (netw.pc = "send" /\ netw.id = id) \/ hb[id] = "removed"
Queued(l, id) == \E i \in 1 .. Len(lst[l].q) : lst[l].q[i] = Detached(id)
Known == \A l \in Listeners : \A id \in lst[l].view : Leaves(id) \/ Queued(l, id)

\* No step forgets a network device that a client knows of.
LEMMA KnownStep ==
    ASSUME Typed, OnBus, Kinds, AddersOwn, Readers, UsbEntryWatched, Quiet, Known, plugs = 0, plugs' = 0,
           [Next]_vars
    PROVE  Known'
  <1>0. /\ \A id \in Ids : rd[id] = "none" /\ devices[id] # "usb"
        /\ watcher.pc = "select" /\ stream.st # "opening" /\ ioq = <<>> /\ hotplug = <<>>
        /\ \A o \in Opaques : bus[o] = None
    BY NothingPlugged
  <1>v. \A l \in Listeners : lst[l].view \subseteq Ids /\ lst[l].q \in Seq(Told)
    BY DEF Typed, LstTyped, Listener
  <1>t. /\ hb \in [Ids -> {"none", "ok", "dead", "removed", "gone"}]
        /\ devices \in [Ids -> {"none", "usb", "net"}]
        /\ netw \in NetTask /\ (netw.pc # "idle" => netw.id \in Ids)
    BY DEF Typed, NetTyped, RegTyped
  <1>f. \A s : Find("usb", s) = {}
    BY <1>0 DEF Find
  <1>e. \A id \in Ids : Attached(id) \in Told /\ Detached(id) \in Told
    BY EventTypes
  \* The listeners are left alone.
  <1>k. ASSUME UNCHANGED lst, \A id \in Ids : Leaves(id) => Leaves(id)'
        PROVE  Known'
    BY <1>k, <1>v DEF Known, Queued
  \* They are told of something, and of what does not leave any more.
  <1>b. ASSUME NEW e \in Told, Broadcast(e), \A id \in Ids : Leaves(id) => Leaves(id)' \/ e = Detached(id)
        PROVE  Known'
    <2> SUFFICES ASSUME NEW l \in Listeners, NEW id \in lst'[l].view
                 PROVE  Leaves(id)' \/ Queued(l, id)'
      BY DEF Known
    <2>1. /\ lst[l].st \in {"snap", "on"} /\ lst'[l].view = lst[l].view /\ lst'[l].q = Append(lst[l].q, e)
      BY <1>b, BroadcastLemma DEF Quiet
    <2>2. id \in Ids /\ (Leaves(id) \/ Queued(l, id))
      BY <1>v, <2>1 DEF Known
    <2>3. /\ \A i \in 1 .. Len(lst[l].q) : lst'[l].q[i] = lst[l].q[i] /\ i \in 1 .. Len(lst'[l].q)
          /\ \E i \in 1 .. Len(lst'[l].q) : lst'[l].q[i] = e
      BY <1>v, <2>1, AppendFacts
    <2> QED
      BY <1>b, <2>2, <2>3 DEF Queued
  \* One of them takes a step.
  <1>o. ASSUME NEW l \in Listeners, OthersKept(l), UNCHANGED <<devices, netw, hb>>,
               \A id \in lst'[l].view : Leaves(id) \/ Queued(l, id)'
        PROVE  Known'
    BY <1>o DEF Known, Leaves, Queued, OthersKept
  <1> USE DEF regVars, usbVars, netVars, sysVars
  <1>1. CASE UsbWatcher
    BY <1>0, <1>1 DEF UsbWatcher, StreamConnected, StreamOpened, StreamOpenFails, StreamDisconnected,
       ArmSetTx, ArmFind, ArmRetain, ArmInsert, ArmShutdown, ArmAnnounce, ArmDetached, ArmIoError,
       ArmReopen, ArmReinsert
  <1>2. CASE NetRemove
    <2>1. UNCHANGED lst /\ netw.pc = "remove" /\ netw.id \in Ids
      BY <1>2, <1>t DEF NetRemove
    <2>2. CASE devices[netw.id] = "none" /\ netw' = [netw EXCEPT !.pc = "idle"] /\ UNCHANGED <<devices, hb>>
      BY <1>k, <2>1, <2>2 DEF Leaves
    <2>3. CASE netw' = [netw EXCEPT !.pc = "send"] /\ Remove({netw.id})
      <3>1. netw'.pc = "send" /\ netw'.id = netw.id
        BY <1>t, <2>3 DEF NetTask
      <3>2. \A id \in Ids : id # netw.id => devices'[id] = devices[id] /\ hb'[id] = hb[id]
        BY <2>3 DEF Remove
      <3> QED
        BY <1>k, <2>1, <3>1, <3>2 DEF Leaves
    <2> QED
      BY <1>2, <2>2, <2>3 DEF NetRemove
  <1>3. CASE NetDetached
    <2>1. Broadcast(Detached(netw.id)) /\ netw.id \in Ids /\ UNCHANGED <<devices, hb>>
      BY <1>3, <1>f, <1>t DEF NetDetached
    <2> QED
      BY <1>b, <1>e, <2>1 DEF Leaves
  <1>4. ASSUME NEW a \in Adders, AddCheck(a)
        PROVE  Known'
    BY <1>4, <1>k DEF AddCheck, Leaves
  <1>5. ASSUME NEW a \in Adders, AddConnect(a)
        PROVE  Known'
    <2>1. /\ adder[a].id \in Ids /\ hb[adder[a].id] = "none" /\ UNCHANGED <<devices, netw, lst>>
          /\ hb' = [hb EXCEPT ![adder[a].id] = "ok"] \/ hb' = hb
      BY <1>5 DEF AddConnect, AddersOwn, Typed, NetTyped
    <2> QED
      BY <1>k, <1>t, <2>1 DEF Leaves
  <1>6. ASSUME NEW a \in Adders, AddInsert(a)
        PROVE  Known'
    <2>1. devices' = [devices EXCEPT ![adder[a].id] = "net"] /\ UNCHANGED <<hb, netw, lst>>
      BY <1>6 DEF AddInsert
    <2> QED
      BY <1>k, <1>t, <2>1 DEF Leaves
  <1>7. ASSUME NEW a \in Adders, AddCheckUsb(a)
        PROVE  Known'
    BY <1>7, <1>k DEF AddCheckUsb, Leaves
  <1>8. ASSUME NEW a \in Adders, AddSend(a)
        PROVE  Known'
    <2>1. Attached(adder[a].id) \in Told /\ Broadcast(Attached(adder[a].id))
          /\ UNCHANGED <<devices, netw, hb>>
      BY <1>8, <1>e DEF AddSend, Typed, NetTyped
    <2> QED
      BY <1>b, <2>1 DEF Leaves
  <1>9. ASSUME NEW s \in Serials, ServiceRemoved(s) \/ \E a \in Adders : Resolved(a, s)
        PROVE  Known'
    <2>1. UNCHANGED <<devices, hb, lst>> /\ (netw.pc = "idle" \/ netw' = netw)
      BY <1>9 DEF ServiceRemoved, Resolved
    <2> QED
      BY <1>k, <2>1 DEF Leaves
  <1>10. ASSUME NEW s \in Serials, Plug(s)
         PROVE  Known'
    BY <1>10 DEF Plug
  <1>11. ASSUME NEW o \in Opaques, Again(o) \/ Unplug(o)
         PROVE  Known'
    BY <1>0, <1>11 DEF Again, Unplug
  <1>12. ASSUME NEW id \in Ids, HeartbeatFails(id)
         PROVE  Known'
    BY <1>12, <1>k, <1>t DEF HeartbeatFails, Leaves
  <1>13. ASSUME NEW id \in Ids, HeartbeatRemove(id)
         PROVE  Known'
    <2>1. /\ hb[id] = "dead" /\ UNCHANGED <<netw, lst>>
          /\ \A d \in Ids : d # id => devices'[d] = devices[d] /\ hb'[d] = hb[d]
          /\ devices[id] = "net" => hb'[id] = "removed"
      BY <1>13, <1>t DEF HeartbeatRemove
    <2> QED
      BY <1>k, <2>1 DEF Leaves
  <1>14. ASSUME NEW id \in Ids, HeartbeatDetached(id)
         PROVE  Known'
    <2>1. /\ Broadcast(Detached(id)) /\ UNCHANGED <<netw, devices>>
          /\ \A d \in Ids : d # id => hb'[d] = hb[d]
      BY <1>14, <1>f, <1>t DEF HeartbeatDetached
    <2> QED
      BY <1>b, <1>e, <2>1 DEF Leaves
  <1>15. ASSUME NEW id \in Ids, ReaderIoError(id)
         PROVE  Known'
    BY <1>0, <1>15 DEF ReaderIoError
  <1>16. ASSUME NEW l \in Listeners, Subscribe(l)
         PROVE  Known'
    <2>1. OthersKept(l) /\ UNCHANGED <<devices, netw, hb>>
      BY <1>16, SubscribeEffect DEF Subscribe
    <2>2. lst'[l].view = lst[l].view /\ lst'[l].q = lst[l].q
      BY <1>16, SubscribeEffect
    <2>3. \A id \in lst'[l].view : Leaves(id) \/ Queued(l, id)'
      BY <2>2 DEF Known, Queued
    <2> QED
      BY <1>o, <2>1, <2>3
  <1>17. ASSUME NEW l \in Listeners, Snapshot(l)
         PROVE  Known'
    <2>1. \A id \in lst'[l].view : id \in lst[l].view \/ devices[id] = "net"
      BY <1>17, <1>0, <1>t, SnapshotEffect
    <2>2. OthersKept(l) /\ UNCHANGED <<devices, netw, hb>>
      BY <1>17, SnapshotEffect DEF Snapshot
    <2>3. lst'[l].q = lst[l].q
      BY <1>17, SnapshotEffect
    <2>4. \A id \in lst'[l].view : Leaves(id) \/ Queued(l, id)'
      BY <2>1, <2>3 DEF Known, Queued, Leaves
    <2> QED
      BY <1>o, <2>2, <2>4
  <1>18. ASSUME NEW l \in Listeners, ListenerRecv(l)
         PROVE  Known'
    <2> DEFINE e == lst[l].q[1]
    <2>1. e \in Told /\ e.id \in Ids
      BY <1>18, RecvEffect DEF Told
    <2>2. ASSUME NEW id \in lst'[l].view
          PROVE  Leaves(id) \/ Queued(l, id)'
      <3>1. CASE id \in lst[l].view /\ Queued(l, id)
        <4>1. PICK i \in 1 .. Len(lst[l].q) : lst[l].q[i] = Detached(id)
          BY <3>1 DEF Queued
        <4>2. CASE i = 1
          <5>1. e.kind = "Detached" /\ e.id = id
            BY <4>1, <4>2 DEF Detached
          <5>2. id \notin lst'[l].view \/ FALSE
            BY <1>18, <5>1, RecvEffect
          <5> QED
            BY <5>2
        <4>3. CASE i # 1
          <5>1. lst[l].q # <<>> /\ lst'[l].q = Tail(lst[l].q)
            BY <1>18, RecvEffect
          <5>2. i - 1 \in 1 .. Len(lst'[l].q) /\ lst'[l].q[i - 1] = lst[l].q[i]
            BY <1>v, <4>3, <5>1, TailFacts
          <5> QED
            BY <4>1, <5>2 DEF Queued
        <4> QED
          BY <4>2, <4>3
      <3>2. id \in lst[l].view \/ devices[id] = "net"
        BY <1>18, <1>0, <1>t, <2>1, RecvEffect
      <3> QED
        BY <3>1, <3>2 DEF Known, Leaves
    <2> QED
      BY <1>18, <1>o, <2>2, RecvEffect DEF ListenerRecv
  <1>19. ASSUME NEW l \in Listeners, ListenerEnds(l)
         PROVE  Known'
    BY <1>19, <1>o, EndsEffect DEF ListenerEnds
  <1>20. CASE UNCHANGED vars
    BY <1>20, <1>k DEF vars, Leaves
  <1> QED
    BY <1>1, <1>2, <1>3, <1>4, <1>5, <1>6, <1>7, <1>8, <1>9, <1>10, <1>11, <1>12, <1>13, <1>14,
       <1>15, <1>16, <1>17, <1>18, <1>19, <1>20
       DEF Next, Adding, NetWatcher, HeartbeatEnd, Listening, System

\* The property is about the same record that Known reads field by field.
LEMMA SendRecord ==
    \A r \in NetTask : \A id : r = [pc |-> "send", id |-> id] <=> (r.pc = "send" /\ r.id = id)
  BY DEF NetTask

\* As long as nothing is plugged in, what a client knows of is there or is announced as gone.
LEMMA GhostsStep ==
    ASSUME Typed, Typed', OnBus, Kinds, AddersOwn, Readers, UsbEntryWatched, Quiet, NetworkGhostsLeave,
           [Next]_vars
    PROVE  NetworkGhostsLeave'
  <1>t. netw \in NetTask /\ netw' \in NetTask
    BY DEF Typed, NetTyped
  <1>r. \A id : /\ netw = [pc |-> "send", id |-> id] <=> netw.pc = "send" /\ netw.id = id
               /\ netw' = [pc |-> "send", id |-> id] <=> netw'.pc = "send" /\ netw'.id = id
    BY <1>t, SendRecord
  <1>k. (plugs' = 0 => Known') => NetworkGhostsLeave'
    BY <1>r, Zenon DEF NetworkGhostsLeave, Known, Leaves, Queued
  <1> SUFFICES ASSUME plugs' = 0
               PROVE  Known'
    BY <1>k
  <1>1. plugs = 0
    <2>1. plugs' = plugs \/ plugs' = plugs + 1
      BY Steps, ConnectedEffect, OpenedEffect, OpenFailsEffect, DisconnectedEffect, SetTxEffect,
         AnnounceEffect, RetainEffect, InsertEffect, ShutdownEffect, IoErrorEffect,
         ReopenEffect, ReinsertEffect, ReaderEffect
         DEF UsbWatcher, BusKept, Elsewhere, Allocates, Plug, Again, Unplug
    <2>2. plugs \in Nat
      BY ConstantsAssumption DEF Typed, SysTyped
    <2> QED
      BY <2>1, <2>2
  <1>2. Known
    BY <1>1, <1>r DEF NetworkGhostsLeave, Known, Leaves, Queued
  <1> QED
    BY <1>1, <1>2, KnownStep

--------------------------------------------------------------------------------
(* The theorems.                                                           *)

\* The daemon starts in the invariant: nothing is registered, plugged in or announced.
LEMMA InitIInv == Init => IInv
  <1> SUFFICES ASSUME Init PROVE IInv
    OBVIOUS
  <1> USE ConstantsAssumption DEF Init
  <1>1. Typed
    <2>1. RegTyped
      BY DEF RegTyped, Unknown, Ids
    <2>2. UsbTyped
      BY DEF UsbTyped, Stream, Watching, Select, Ids, Opaques
    <2>3. NetTyped
      BY DEF NetTyped, AddTask, NetTask
    <2>4. LstTyped
      <3>1. Off \in Listener /\ Len(Off.q) = 0
        BY DEF Off, Listener
      <3> QED
        BY <3>1 DEF LstTyped
    <2>5. SysTyped
      BY DEF SysTyped
    <2> QED
      BY <2>1, <2>2, <2>3, <2>4, <2>5 DEF Typed
  <1>2. Untaken
    BY DEF Untaken, Select
  <1>3. /\ \A id \in Ids : about[id].opaque = 0 /\ rd[id] = "none" /\ devices[id] = "none" /\ hb[id] = "none"
        /\ watcher.pc = "select" /\ stream.st = "idle" /\ Len(ioq) = 0 /\ Len(hotplug) = 0
    BY DEF Unknown, Select
  <1>4. OnBus /\ Kinds
    <2>1. \A o \in Opaques : bus[o] = None /\ idMap[o] = 0
      OBVIOUS
    <2> QED
      BY <1>3, <2>1 DEF OnBus, Kinds, Present
  <1>5. AddersOwn
    BY <1>3 DEF AddersOwn
  <1>6. Readers /\ UsbEntryWatched
    BY <1>3 DEF Readers, UsbEntryWatched
  <1>7. UsbOnce /\ RoomMade /\ LatestOpened /\ LatestHeld
    BY <1>3 DEF UsbOnce, RoomMade, LatestOpened, LatestHeld
  <1>8. \A l \in Listeners : lst[l].view = {} /\ lst[l].q = <<>>
    BY DEF Off
  <1>9. Quiet /\ NetworkGhostsLeave
    BY <1>8 DEF Quiet, NetworkGhostsLeave
  <1> QED
    BY <1>1, <1>2, <1>4, <1>5, <1>6, <1>7, <1>9 DEF IInv

\* Every step keeps the invariant.
LEMMA StepIInv == IInv /\ [Next]_vars => IInv'
  <1> SUFFICES ASSUME IInv, [Next]_vars PROVE IInv'
    OBVIOUS
  <1> USE DEF IInv
  <1>1. Typed'
    BY TypeStep
  <1>2. Untaken' /\ OnBus' /\ Kinds' /\ AddersOwn'
    BY UntakenStep, OnBusStep, KindsStep, AddersOwnStep
  <1>3. Readers' /\ UsbEntryWatched'
    BY ReadersStep
  <1>4. UsbOnce' /\ RoomMade'
    BY UsbOnceStep, RoomMadeStep
  <1>5. LatestOpened' /\ LatestHeld'
    BY LatestOpenedStep, LatestHeldStep
  <1>6. Quiet' /\ NetworkGhostsLeave'
    BY <1>1, QuietStep, GhostsStep
  <1> QED
    BY <1>1, <1>2, <1>3, <1>4, <1>5, <1>6

\* The invariant holds of every behaviour of the watchers, whatever the order in which
\* devices come and go, readers fail and announcements arrive.
THEOREM Inductive == Spec => []IInv
  BY InitIInv, StepIInv, PTL DEF Spec

\* Type invariant of the registry, the tasks and the listeners: in particular the queues
\* of I/O errors and of hotplug events stay within their capacities.
THEOREM TypeCorrect == Spec => []TypeOK
  <1>1. IInv => TypeOK
    BY TypedOK DEF IInv
  <1> QED
    BY <1>1, Inductive, PTL

\* ListDevices and Listen show a serial number once (device listing in
\* src/src/handler/listen.rs): an I/O error of a device that was plugged in again meanwhile
\* never brings its old entry back next to the new one.
THEOREM OnceTheorem == Spec => []ListedOnce
  <1>1. IInv => ListedOnce
    <2> SUFFICES ASSUME IInv, NEW c \in Ids, NEW d \in Ids, Listed(c), Listed(d),
                        about[c].serial = about[d].serial, c # d
                 PROVE  FALSE
      BY DEF ListedOnce
    <2>1. devices[c] # "none" /\ devices[d] # "none"
      BY DEF Listed
    <2>2. devices[c] # "net" /\ devices[d] # "net"
      BY <2>1 DEF Listed
    <2>3. devices[c] = "usb" /\ devices[d] = "usb"
      BY <2>1, <2>2 DEF IInv, Typed, RegTyped
    <2> QED
      BY <2>3 DEF IInv, UsbOnce, SameSerial
  <1> QED
    BY <1>1, Inductive, PTL

\* A registered USB device is watched: its reader loop runs, or its report is on the way
\* to the watcher, or it failed before it could report.
THEOREM WatchedTheorem == Spec => []UsbEntryWatched
  <1>1. IInv => UsbEntryWatched
    BY DEF IInv
  <1> QED
    BY <1>1, Inductive, PTL

\* As long as nothing was plugged in, a client that listens is told of every network device
\* that goes.
THEOREM GhostsTheorem == Spec => []NetworkGhostsLeave
  <1>1. IInv => NetworkGhostsLeave
    BY DEF IInv
  <1> QED
    BY <1>1, Inductive, PTL
================================================================================
