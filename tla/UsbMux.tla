-------------------------------- MODULE UsbMux --------------------------------
(***************************************************************************)
(* The tasks around one USB device: the reader and the writer loop of      *)
(* UsbDevice (src/src/device/usb.rs), the PacketRouter                     *)
(* (src/src/device/packet_router.rs), one handler task per client that     *)
(* asked to Connect (src/src/handler/connect.rs, src/src/conn/usb.rs), and *)
(* the task that shuts the device down or forgets it.                      *)
(*                                                                         *)
(* A step is what a task does between two awaits or two lock waits.  Byte  *)
(* counts and the window are FlowControl's subject; here the window is     *)
(* open whenever the client has something to send.                         *)
(***************************************************************************)
EXTENDS Integers, Sequences, FiniteSets

CONSTANTS
    Conns,     \* the clients' Connect requests
    None,      \* no connection
    PortMod,   \* source ports are counted modulo this (AtomicU16: 2^16)
    TxCap,     \* capacity of the writer channel (256)
    RxCap,     \* capacity of a connection's channel (256)
    ShardOf,   \* the shard of the router's map a port hashes to
    DevCap,    \* external: packets the device has under way to the host
    MaxData,   \* bound: data packets the device sends
    MaxResets, \* bound: connections the device resets
    MaxReads,  \* bound: data packets the clients' bytes make
    Endings    \* bound: what may end the device, of {"unplug", "cleanup"}

Ports == 1 .. PortMod - 1

ASSUME ConstantsAssumption ==
    /\ None \notin Conns
    /\ PortMod \in Nat /\ PortMod > 1
    /\ TxCap \in Nat \ {0} /\ RxCap \in Nat \ {0} /\ DevCap \in Nat \ {0}
    /\ MaxData \in Nat /\ MaxResets \in Nat /\ MaxReads \in Nat
    /\ DOMAIN ShardOf = Ports
    /\ Endings \subseteq {"unplug", "cleanup"}

VARIABLES
    pc,        \* pc[c]: where the handler of c is
    port,      \* port[c]: its source port, 0 before it has one
    chan,      \* chan[c]: the channel register() made for c
    reads,     \* data packets made of the clients' bytes so far
    got,       \* got[c]: number of the last data packet written to its client, while it lasts
    hand,      \* hand[c]: number of the data packet recv() has popped, 0 for none
    next_source_port,
    router,    \* router[p]: the connection whose sender is registered for port p
    conns,     \* conns[p]: UsbDevice.conns, the connections close_all knows of
    wq,        \* the writer channel
    writer,    \* the writer loop: "run" or "gone"
    reader,    \* the reader loop: its state and the packet it is routing
    canceled,  \* the device's CancellationToken; the loops are aborted with it
    closing,   \* shutdown(): "no", "rst" (in close_all), "done" or "err"
    todo,      \* the connections close_all has still to send RST to
    registered,\* the device is in CONNECTED_DEVICES
    unplugged, \* external: the device is gone from the bus
    peer,      \* external: peer[p]: the connection the device has open on port p
    devOut,    \* external: packets on their way to the host
    devSyn,    \* external: ports whose SYN the device has not answered
    devSent,   \* external: data packets the device has sent, numbered from 1
    reset      \* external: connections the device accepted and reset later

handlerVars == <<pc, port, chan, reads, got, hand>>
muxVars     == <<next_source_port, router, conns>>
loopVars    == <<wq, writer, reader>>
downVars    == <<canceled, closing, todo, registered>>
devVars     == <<unplugged, peer, devOut, devSyn, devSent, reset>>
vars == <<handlerVars, muxVars, loopVars, downVars, devVars>>

\* connect() keeps its Ref into CONNECTED_DEVICES while UsbDevice::connect runs.
Connecting == {"register", "syn", "synack", "hsack"}
\* The connection is established and its handler runs handle_usb_device_connect.
Open  == {"select", "acking", "toclient", "sending"}
\* The handler owns the receiving end of its channel.
Alive == (Connecting \ {"register"}) \cup Open \cup {"rst", "drop", "unreg"}
Ended == {"failed", "done"}

Idle == [st |-> "read", kind |-> "none", port |-> 0, conn |-> None, n |-> 0]
Packet(kind, p, c, n) == [kind |-> kind, port |-> p, conn |-> c, n |-> n]

\* Faulty: an unbounded writer channel.
Room_Unbounded == writer = "run"

Room == writer = "run" /\ Len(wq) < TxCap
\* Some sender of c's channel is left: it is registered.
HasSender(c) == \E p \in Ports : router[p] = c
\* The reader holds a reference into the router's map while it waits in route().
Locked(p) == reader.st \in {"blocked", "wedged"} /\ ShardOf[reader.port] = ShardOf[p]

\* A device without connections.  It may have served others before: the counter is anywhere.
Init ==
    /\ pc = [c \in Conns |-> "idle"] /\ port = [c \in Conns |-> 0]
    /\ chan = [c \in Conns |-> <<>>] /\ reads = 0
    /\ got = [c \in Conns |-> 0] /\ hand = [c \in Conns |-> 0]
    /\ next_source_port \in 0 .. PortMod - 1
    /\ router = [p \in Ports |-> None] /\ conns = [p \in Ports |-> None]
    /\ wq = <<>> /\ writer = "run" /\ reader = Idle
    /\ canceled = FALSE /\ closing = "no" /\ todo = {} /\ registered = TRUE
    /\ unplugged = FALSE /\ peer = [p \in Ports |-> None] /\ devOut = <<>>
    /\ devSyn = {} /\ devSent = 0 /\ reset = {}

Goto(c, l) == pc' = [pc EXCEPT ![c] = l]
\* The task ends with c's connection, or the attempt at one; the receiver is dropped.
End(c, l) ==
    /\ Goto(c, l)
    /\ chan' = [chan EXCEPT ![c] = <<>>]
    /\ got' = [got EXCEPT ![c] = 0] /\ hand' = [hand EXCEPT ![c] = 0]
Send(c, kind) == wq' = Append(wq, Packet(kind, port[c], c, 0))

--------------------------------------------------------------------------------
(* UsbDevice::connect and the handshake of UsbDeviceConn::new.  An error   *)
(* returns at once: the route stays registered.                            *)

\* get_next_source_port: fetch_add on a wrapping counter, 0 is the error value.
AllocPort(c) ==
    /\ pc[c] = "idle" /\ registered
    /\ next_source_port' = (next_source_port + 1) % PortMod
    /\ IF next_source_port = 0
       THEN Goto(c, "failed") /\ UNCHANGED port
       ELSE Goto(c, "register") /\ port' = [port EXCEPT ![c] = next_source_port]
    /\ UNCHANGED <<chan, reads, got, hand, router, conns, loopVars, downVars, devVars>>

\* register: a new channel, and an insert that replaces what the port had.
Register(c) ==
    /\ pc[c] = "register" /\ ~Locked(port[c])
    /\ router' = [router EXCEPT ![port[c]] = c]
    /\ Goto(c, "syn")
    /\ UNCHANGED <<port, chan, reads, got, hand, next_source_port, conns, loopVars, downVars,
                   devVars>>

SendSyn(c) ==
    /\ pc[c] = "syn"
    /\ \/ Room /\ Send(c, "SYN") /\ Goto(c, "synack") /\ UNCHANGED <<chan, got, hand>>
       \/ writer = "gone" /\ End(c, "failed") /\ UNCHANGED wq
    /\ UNCHANGED <<port, reads, muxVars, writer, reader, downVars, devVars>>

\* rx.recv(): the first packet routed to the port, whatever its flags.
RecvSynAck(c) ==
    /\ pc[c] = "synack"
    /\ \/ /\ chan[c] # <<>>
          /\ chan' = [chan EXCEPT ![c] = Tail(@)]
          /\ Goto(c, "hsack") /\ UNCHANGED <<got, hand>>
       \/ chan[c] = <<>> /\ ~HasSender(c) /\ End(c, "failed")
    /\ UNCHANGED <<port, reads, muxVars, loopVars, downVars, devVars>>

SendHandshakeAck(c) ==
    /\ pc[c] = "hsack"
    /\ \/ /\ Room /\ Send(c, "ACK") /\ Goto(c, "select")
          /\ conns' = [conns EXCEPT ![port[c]] = c]
          /\ UNCHANGED <<chan, got, hand>>
       \/ writer = "gone" /\ End(c, "failed") /\ UNCHANGED <<wq, conns>>
    /\ UNCHANGED <<port, reads, next_source_port, router, writer, reader,
                   downVars, devVars>>

--------------------------------------------------------------------------------
(* handle_usb_device_connect.  The select! polls wait_shutdown, recv() and *)
(* client_read; while recv() waits in ack() ("acking") another branch may  *)
(* win, and the packet in hand is gone with the future.                    *)

\* Faulty: the `if` of the client_read branch put on the recv branch.
Recv_GuardedLikeRead(c) ==
    /\ pc[c] = "select" /\ chan[c] # <<>> /\ reads < MaxReads
    /\ chan' = [chan EXCEPT ![c] = Tail(@)]
    /\ hand' = [hand EXCEPT ![c] = Head(chan[c]).n]
    /\ \/ Room /\ Send(c, "ACK") /\ Goto(c, "toclient")
       \/ writer = "run" /\ ~Room /\ Goto(c, "acking") /\ UNCHANGED wq
       \/ writer = "gone" /\ Goto(c, "drop") /\ UNCHANGED wq
    /\ UNCHANGED <<port, reads, got, muxVars, writer, reader, downVars, devVars>>

Recv(c) ==
    /\ pc[c] = "select" /\ chan[c] # <<>>
    /\ chan' = [chan EXCEPT ![c] = Tail(@)]
    /\ hand' = [hand EXCEPT ![c] = Head(chan[c]).n]
    /\ \/ Room /\ Send(c, "ACK") /\ Goto(c, "toclient")
       \/ writer = "run" /\ ~Room /\ Goto(c, "acking") /\ UNCHANGED wq
       \/ writer = "gone" /\ Goto(c, "drop") /\ UNCHANGED wq
    /\ UNCHANGED <<port, reads, got, muxVars, writer, reader, downVars, devVars>>

RecvDisconnected(c) ==
    /\ pc[c] = "select" /\ chan[c] = <<>> /\ ~HasSender(c)
    /\ Goto(c, "drop")
    /\ UNCHANGED <<port, chan, reads, got, hand, muxVars, loopVars, downVars, devVars>>

AckSent(c) ==
    /\ pc[c] = "acking"
    /\ \/ Room /\ Send(c, "ACK") /\ Goto(c, "toclient")
       \/ writer = "gone" /\ Goto(c, "drop") /\ UNCHANGED wq
    /\ UNCHANGED <<port, chan, reads, got, hand, muxVars, writer, reader, downVars, devVars>>

\* client_send: the client takes the packet, or the write fails.
ClientSend(c) ==
    /\ pc[c] = "toclient"
    /\ hand' = [hand EXCEPT ![c] = 0]
    /\ \/ /\ Goto(c, "select")
          /\ got' = [got EXCEPT ![c] = IF hand[c] = 0 THEN @ ELSE hand[c]]
       \/ Goto(c, "drop") /\ UNCHANGED got
    /\ UNCHANGED <<port, chan, reads, muxVars, loopVars, downVars, devVars>>

\* client_read returns bytes and send_bytes queues them.
ClientRead(c) ==
    /\ pc[c] \in {"select", "acking"} /\ reads < MaxReads
    /\ reads' = reads + 1
    /\ hand' = [hand EXCEPT ![c] = 0]
    /\ \/ Room /\ Send(c, "DATA") /\ Goto(c, "select")
       \/ writer = "run" /\ ~Room /\ Goto(c, "sending") /\ UNCHANGED wq
       \/ writer = "gone" /\ Goto(c, "drop") /\ UNCHANGED wq
    /\ UNCHANGED <<port, chan, got, muxVars, writer, reader, downVars, devVars>>

SendPending(c) ==
    /\ pc[c] = "sending"
    /\ \/ Room /\ Send(c, "DATA") /\ Goto(c, "select")
       \/ writer = "gone" /\ Goto(c, "drop") /\ UNCHANGED wq
    /\ UNCHANGED <<port, chan, reads, got, hand, muxVars, writer, reader, downVars, devVars>>

\* Faulty: the token is only polled while an acknowledgement waits.
SeeShutdown_WhileAcking(c) ==
    /\ pc[c] = "acking" /\ canceled
    /\ hand' = [hand EXCEPT ![c] = 0]
    /\ Goto(c, "drop")
    /\ UNCHANGED <<port, chan, reads, got, muxVars, loopVars, downVars, devVars>>

\* wait_shutdown wins: the handler returns and the connection is dropped.
SeeShutdown(c) ==
    /\ pc[c] \in {"select", "acking"} /\ canceled
    /\ hand' = [hand EXCEPT ![c] = 0]
    /\ Goto(c, "drop")
    /\ UNCHANGED <<port, chan, reads, got, muxVars, loopVars, downVars, devVars>>

\* client_read returns nothing, which leads to close(), or fails.
ClientEof(c) ==
    /\ pc[c] \in {"select", "acking"}
    /\ hand' = [hand EXCEPT ![c] = 0]
    /\ Goto(c, "rst") \/ Goto(c, "drop")
    /\ UNCHANGED <<port, chan, reads, got, muxVars, loopVars, downVars, devVars>>

\* Faulty: close() unregisters the route before it has sent the RST.
SendRst_UnregistersFirst(c) ==
    /\ pc[c] = "rst" /\ ~Locked(port[c])
    /\ router' = [router EXCEPT ![port[c]] = None]
    /\ \/ Room /\ Send(c, "RST") /\ Goto(c, "unreg") /\ UNCHANGED <<chan, got, hand>>
       \/ writer = "gone" /\ End(c, "done") /\ UNCHANGED wq
    /\ UNCHANGED <<port, reads, next_source_port, conns, writer, reader, downVars, devVars>>

\* close(): send_rst waits for room; when it fails the route is left registered.
SendRst(c) ==
    /\ pc[c] = "rst"
    /\ \/ Room /\ Send(c, "RST") /\ Goto(c, "unreg") /\ UNCHANGED <<chan, got, hand>>
       \/ writer = "gone" /\ End(c, "done") /\ UNCHANGED wq
    /\ UNCHANGED <<port, reads, muxVars, writer, reader, downVars, devVars>>

\* Drop, close_blocking: send_rst_blocking only tries; when it fails the route is left too.
DropConn(c) ==
    /\ pc[c] = "drop"
    /\ \/ Room /\ Send(c, "RST") /\ Goto(c, "unreg") /\ UNCHANGED <<chan, got, hand>>
       \/ ~Room /\ End(c, "done") /\ UNCHANGED wq
    /\ UNCHANGED <<port, reads, muxVars, writer, reader, downVars, devVars>>

\* unregister: takes the shard's write lock and removes whatever the port has.
Unregister(c) ==
    /\ pc[c] = "unreg" /\ ~Locked(port[c])
    /\ router' = [router EXCEPT ![port[c]] = None]
    /\ End(c, "done")
    /\ UNCHANGED <<port, reads, next_source_port, conns, loopVars, downVars,
                   devVars>>

Handler(c) ==
    \/ Register(c) \/ SendSyn(c) \/ RecvSynAck(c) \/ SendHandshakeAck(c)
    \/ Recv(c) \/ RecvDisconnected(c) \/ AckSent(c) \/ ClientSend(c) \/ SendPending(c)
    \/ SeeShutdown(c)
    \/ SendRst(c) \/ DropConn(c) \/ Unregister(c)

--------------------------------------------------------------------------------
(* The two loops of the device.                                            *)

Writer ==
    /\ writer = "run" /\ wq # <<>>
    /\ wq' = Tail(wq)
    /\ LET p == Head(wq) IN
       IF unplugged   \* the write fails, and the loop goes on
       THEN UNCHANGED <<peer, devSyn>>
       ELSE /\ devSyn' = IF p.kind = "SYN" THEN devSyn \cup {p.port} ELSE devSyn
            /\ peer' = [peer EXCEPT ![p.port] = IF p.kind = "SYN" THEN p.conn
                                                ELSE IF p.kind = "RST" THEN None ELSE @]
    /\ UNCHANGED <<handlerVars, muxVars, writer, reader, downVars, unplugged, devOut, devSent,
                   reset>>

\* Faulty: the lookup takes the wrong port of the header, which can be anybody's.
Route_WrongPort(pkt) ==
    \E p \in Ports : LET c == router[p] IN
    \/ /\ c = None
       /\ reader' = Idle /\ UNCHANGED chan
    \/ /\ c # None /\ pc[c] \notin Alive
       /\ reader' = [pkt EXCEPT !.st = "wedged"] /\ UNCHANGED chan
    \/ /\ c # None /\ pc[c] \in Alive /\ Len(chan[c]) < RxCap
       /\ chan' = [chan EXCEPT ![c] = Append(@, [conn |-> pkt.conn, n |-> pkt.n])]
       /\ reader' = Idle

\* One packet of the device: an RST is dropped, the others are routed.  route() keeps its
\* reference into the map while it waits for room, and when the receiver is gone it calls
\* unregister under that same reference.
Route(pkt) ==
    LET c == router[pkt.port] IN
    \/ /\ c = None
       /\ reader' = Idle /\ UNCHANGED chan
    \/ /\ c # None /\ pc[c] \notin Alive
       /\ reader' = [pkt EXCEPT !.st = "wedged"] /\ UNCHANGED chan
    \/ /\ c # None /\ pc[c] \in Alive /\ Len(chan[c]) < RxCap
       /\ chan' = [chan EXCEPT ![c] = Append(@, [conn |-> pkt.conn, n |-> pkt.n])]
       /\ reader' = Idle
    \/ /\ c # None /\ pc[c] \in Alive /\ Len(chan[c]) >= RxCap
       /\ reader' = [pkt EXCEPT !.st = "blocked"] /\ UNCHANGED chan

\* Faulty: an RST is routed like any other packet.
ReaderPacket_RoutesRst ==
    /\ reader.st = "read" /\ devOut # <<>>
    /\ devOut' = Tail(devOut)
    /\ LET p == Head(devOut) IN
       Route([st |-> "read", kind |-> p.kind, port |-> p.port, conn |-> p.conn, n |-> p.n])
    /\ UNCHANGED <<pc, port, reads, got, hand, muxVars, wq, writer, downVars, unplugged, peer,
                   devSyn, devSent, reset>>

ReaderPacket ==
    /\ reader.st = "read" /\ devOut # <<>>
    /\ devOut' = Tail(devOut)
    /\ LET p == Head(devOut) IN
       IF p.kind = "RST"
       THEN UNCHANGED <<reader, chan>>
       ELSE Route([st |-> "read", kind |-> p.kind, port |-> p.port, conn |-> p.conn, n |-> p.n])
    /\ UNCHANGED <<pc, port, reads, got, hand, muxVars, wq, writer, downVars, unplugged, peer,
                   devSyn, devSent, reset>>

\* The wait in route() ends: there is room, or the receiver is gone.
ReaderResume ==
    /\ reader.st = "blocked"
    /\ LET c == router[reader.port] IN pc[c] \notin Alive \/ Len(chan[c]) < RxCap
    /\ Route(reader)
    /\ UNCHANGED <<pc, port, reads, got, hand, muxVars, wq, writer, downVars, devVars>>

\* An I/O error of the endpoint: the watcher is told and the loop ends.
ReaderIoError ==
    /\ reader.st = "read" /\ unplugged
    /\ reader' = [Idle EXCEPT !.st = "ioerror"]
    /\ UNCHANGED <<handlerVars, muxVars, wq, writer, downVars, devVars>>

\* Both loops also wait for the cancellation token and are aborted by shutdown().  A
\* reader that waits for a lock does not notice.
ReaderStops ==
    /\ canceled /\ reader.st \in {"read", "blocked"}
    /\ reader' = [Idle EXCEPT !.st = "gone"]
    /\ UNCHANGED <<handlerVars, muxVars, wq, writer, downVars, devVars>>

WriterStops ==
    /\ canceled /\ writer = "run"
    /\ writer' = "gone" /\ wq' = <<>>
    /\ UNCHANGED <<handlerVars, muxVars, reader, downVars, devVars>>

--------------------------------------------------------------------------------
(* The end of the device.                                                  *)

Shutdown ==
    /\ closing = "no"
    /\ canceled' = TRUE
    /\ closing' = "rst"
    /\ todo' = {c \in Conns : \E p \in Ports : conns[p] = c}

\* remove_device, on a hotplug Disconnected: the entry is removed, which waits for every Ref into the map.
RemoveDevice ==
    /\ unplugged /\ registered /\ \A c \in Conns : pc[c] \notin Connecting
    /\ registered' = FALSE
    /\ Shutdown
    /\ UNCHANGED <<handlerVars, muxVars, loopVars, devVars>>

\* cleanup() of the daemon: the entry stays.
Cleanup ==
    /\ "cleanup" \in Endings /\ registered /\ UNCHANGED registered
    /\ Shutdown
    /\ UNCHANGED <<handlerVars, muxVars, loopVars, devVars>>

\* The I/O-error arm of the USB watcher drops the entry; nobody calls shutdown().
ForgetDevice ==
    /\ registered /\ reader.st = "ioerror" /\ \A c \in Conns : pc[c] \notin Connecting
    /\ registered' = FALSE
    /\ UNCHANGED <<handlerVars, muxVars, loopVars, canceled, closing, todo, devVars>>

\* close_all: RST to every connection still there; an error returns before the clear.
CloseAllRst(c) ==
    /\ closing = "rst" /\ c \in todo
    /\ \/ pc[c] \in Ended /\ UNCHANGED <<wq, closing>>
       \/ pc[c] \notin Ended /\ Room /\ Send(c, "RST") /\ UNCHANGED closing
       \/ pc[c] \notin Ended /\ writer = "gone" /\ closing' = "err" /\ UNCHANGED wq
    /\ todo' = todo \ {c}
    /\ UNCHANGED <<handlerVars, muxVars, writer, reader, canceled, registered, devVars>>

\* router.clear() and conns.clear().
CloseAllClear ==
    /\ closing = "rst" /\ todo = {} /\ \A p \in Ports : ~Locked(p)
    /\ router' = [p \in Ports |-> None] /\ conns' = [p \in Ports |-> None]
    /\ closing' = "done"
    /\ UNCHANGED <<handlerVars, next_source_port, loopVars, canceled, todo, registered, devVars>>

--------------------------------------------------------------------------------
(* External: the device.                                                   *)

DevSend(pkt) == Len(devOut) < DevCap /\ devOut' = Append(devOut, pkt)

\* It accepts a SYN, or refuses it with RST.
DevAnswer(p) ==
    /\ ~unplugged /\ p \in devSyn
    /\ \/ DevSend(Packet("SYNACK", p, peer[p], 0)) /\ UNCHANGED peer
       \/ DevSend(Packet("RST", p, peer[p], 0)) /\ peer' = [peer EXCEPT ![p] = None]
    /\ devSyn' = devSyn \ {p}
    /\ UNCHANGED <<handlerVars, muxVars, loopVars, downVars, unplugged, devSent, reset>>

DevData(p) ==
    /\ ~unplugged /\ p \notin devSyn /\ peer[p] # None /\ devSent < MaxData
    /\ DevSend(Packet("DATA", p, peer[p], devSent + 1))
    /\ devSent' = devSent + 1
    /\ UNCHANGED <<handlerVars, muxVars, loopVars, downVars, unplugged, peer, devSyn,
                   reset>>

\* It resets a connection it had accepted, at any time.  What the host still sends on it, the
\* device answers with RSTs that are dropped like this one; they are left out.
DevReset(p) ==
    /\ ~unplugged /\ p \notin devSyn /\ peer[p] # None /\ Cardinality(reset) < MaxResets
    /\ DevSend(Packet("RST", p, peer[p], 0))
    /\ peer' = [peer EXCEPT ![p] = None] /\ reset' = reset \cup {peer[p]}
    /\ UNCHANGED <<handlerVars, muxVars, loopVars, downVars, unplugged, devSyn, devSent>>

Unplug ==
    /\ "unplug" \in Endings /\ ~unplugged
    /\ unplugged' = TRUE
    /\ devOut' = <<>> /\ devSyn' = {} /\ peer' = [p \in Ports |-> None]
    /\ UNCHANGED <<handlerVars, muxVars, loopVars, downVars, devSent, reset>>

Clients == \E c \in Conns : AllocPort(c) \/ ClientRead(c) \/ ClientEof(c)
ReaderTask == ReaderPacket \/ ReaderResume \/ ReaderIoError \/ ReaderStops
WriterTask == Writer \/ WriterStops
CloseAll == CloseAllClear \/ \E c \in Conns : CloseAllRst(c)
Ending == RemoveDevice \/ Cleanup \/ ForgetDevice
Answer == \E p \in Ports : DevAnswer(p)
Device == Unplug \/ \E p \in Ports : DevData(p) \/ DevReset(p)

Next ==
    \/ \E c \in Conns : Handler(c)
    \/ Clients \/ ReaderTask \/ WriterTask \/ CloseAll \/ Ending \/ Answer \/ Device

(***************************************************************************)
(* One weak fairness condition per task: the runtime polls every task that *)
(* can go on, and a free lock is granted.  The device answers SYNs, and    *)
(* the watcher handles the end of the reader.  A client takes what it is   *)
(* sent or goes away; whether it connects, writes or closes is up to it,   *)
(* and so is whether the device is removed.                                *)
(***************************************************************************)
Fairness ==
    /\ \A c \in Conns : WF_vars(Handler(c))
    /\ WF_vars(ReaderTask) /\ WF_vars(WriterTask) /\ WF_vars(CloseAll)
    /\ WF_vars(ForgetDevice) /\ WF_vars(Answer)

Spec == Init /\ [][Next]_vars /\ Fairness

--------------------------------------------------------------------------------
(* Properties                                                              *)

\* Type invariant of the handlers, the router, the loops and the device.
TypeOK ==
    /\ pc \in [Conns -> {"idle"} \cup Connecting \cup Open \cup {"rst", "drop", "unreg"} \cup Ended]
    /\ port \in [Conns -> 0 .. PortMod - 1]
    /\ chan \in [Conns -> Seq([conn : Conns \cup {None}, n : 0 .. MaxData])]
    /\ \A c \in Conns : Len(chan[c]) <= RxCap
    /\ reads \in 0 .. MaxReads
    /\ got \in [Conns -> 0 .. MaxData] /\ hand \in [Conns -> 0 .. MaxData]
    /\ next_source_port \in 0 .. PortMod - 1
    /\ router \in [Ports -> Conns \cup {None}] /\ conns \in [Ports -> Conns \cup {None}]
    /\ wq \in Seq([kind : {"SYN", "ACK", "DATA", "RST"}, port : Ports, conn : Conns, n : {0}])
    /\ Len(wq) <= TxCap
    /\ writer \in {"run", "gone"}
    /\ reader.st \in {"read", "blocked", "wedged", "ioerror", "gone"}
    /\ reader.st \in {"blocked", "wedged"} => reader.port \in Ports
    /\ canceled \in BOOLEAN /\ registered \in BOOLEAN /\ unplugged \in BOOLEAN
    /\ closing \in {"no", "rst", "done", "err"} /\ todo \subseteq Conns
    /\ peer \in [Ports -> Conns \cup {None}] /\ devSyn \subseteq Ports
    /\ devSent \in 0 .. MaxData /\ reset \subseteq Conns

\* No two connections were given the same source port.
PortsDistinct == \A c, d \in Conns : c # d /\ port[c] = port[d] => port[c] = 0

\* As long as the port counter has not come round, a connection keeps its route from
\* register() until it unregisters itself or close_all clears the router.
LiveConnRouted ==
    PortsDistinct /\ closing # "done" => \A c \in Conns : pc[c] \in Alive => router[port[c]] = c

\* A connection's channel holds only packets the device sent on that connection, in the
\* order it sent them, and none that the client already has.
StreamsInOrder ==
    PortsDistinct => \A c \in Conns :
        /\ \A i \in 1 .. Len(chan[c]) : chan[c][i].conn = c /\ (chan[c][i].n > 0 => chan[c][i].n > got[c])
        /\ \A i, j \in 1 .. Len(chan[c]) : i < j => chan[c][i].n < chan[c][j].n
        /\ hand[c] > 0 => hand[c] > got[c]

\* Until the device is shut down or unplugged, what a connection queues after its SYN
\* finds the connection open on the device: nothing follows its own RST, and nothing is sent
\* for a connection the device refused.  Only one that the device accepted and reset later
\* goes on sending, because the reader loop drops the RST.
PacketsForOpenPeers ==
    ~canceled /\ ~unplugged /\ PortsDistinct =>
        \A i \in 1 .. Len(wq) : wq[i].kind # "SYN" =>
            /\ peer[wq[i].port] = wq[i].conn \/ wq[i].conn \in reset
            /\ \A j \in 1 .. i - 1 : wq[j].conn = wq[i].conn => wq[j].kind # "RST"

\* The reader waits for a lock it keeps others from releasing: for the write lock of the
\* shard it reads, or for room in the channel of a connection that waits for that shard.
RouterStuck ==
    \/ reader.st = "wedged"
    \/ reader.st = "blocked" /\ pc[router[reader.port]] = "unreg"

\* A connection that is being closed gets closed, unless the router is stuck.
CloseCompletesUnlessStuck ==
    \A c \in Conns : pc[c] = "unreg" ~> (pc[c] = "done" \/ RouterStuck)

\* The same without the proviso ("Clean connection shutdown", TODO.md).
CloseCompletes == \A c \in Conns : pc[c] = "unreg" ~> pc[c] = "done"

\* Shutting the device down ends every established connection, one that waits in the
\* cycle of RouterStuck included; only a reader wedged on its own reference prevents it.
ShutdownEndsConnections ==
    \A c \in Conns : canceled /\ pc[c] \in Open ~> (pc[c] = "done" \/ reader.st = "wedged")

\* A device that was unplugged disappears from the registry ("Handle device unplug
\* safely", TODO.md).
UnplugForgetsDevice == unplugged ~> ~registered
================================================================================
