------------------------------ MODULE FlowControl ------------------------------
(***************************************************************************)
(* One established USB connection, byte for byte: UsbDeviceConn            *)
(* (src/src/conn/usb.rs) driven by handle_usb_device_connect               *)
(* (src/src/handler/connect.rs), the client on one side and the device's   *)
(* TCP-like endpoint on the other.                                         *)
(*                                                                         *)
(* A step of the handler is what runs between two awaits.  tx is the       *)
(* bounded channel to the writer loop, and what the writer has taken from  *)
(* it is at the device at once; rx is the bounded channel the router fills *)
(* for this connection.  Sequence numbers are counters of modulus W, 2^32  *)
(* in the code.                                                            *)
(***************************************************************************)
EXTENDS Integers, Sequences

CONSTANTS
    W,            \* modulus of the byte counters (AtomicU32: 2^32)
    Unit,         \* bytes one unit of the advertised window stands for (<< 8: 256)
    MaxPayload,   \* MAX_PACKET_PAYLOAD_SIZE
    TxCap,        \* capacity of the writer channel (256)
    RxCap,        \* capacity of the connection's channel (256)
    Buf,          \* external: bytes the device buffers for this connection
    HostWindow,   \* WINDOW_SIZE << 8, the window the host advertises
    ClientBytes,  \* bound: bytes the client writes before it closes
    DevBytes,     \* bound: bytes the device writes
    MaxRead       \* bound: bytes one read of the client's socket returns

ASSUME ConstantsAssumption ==
    /\ W \in Nat /\ Unit \in Nat \ {0} /\ MaxPayload \in Nat \ {0}
    /\ TxCap \in Nat \ {0} /\ RxCap \in Nat \ {0} /\ MaxRead \in Nat \ {0}
    /\ Buf \in Nat /\ HostWindow \in Nat /\ ClientBytes \in Nat /\ DevBytes \in Nat
    /\ W > 1 /\ MaxPayload < W /\ Buf >= Unit

VARIABLES
    pc,         \* where the handler task is
    sent_bytes, received_bytes, sendable_bytes,            \* UsbDeviceConn
    device_last_window_size, device_last_received_bytes,   \* UsbDeviceConn
    tx, rx,     \* the two channels
    hand,       \* length of the packet recv() has popped and not yet written to the client
    out,        \* the data packet that waits for room in tx; NoPacket when none does
    read_buf,   \* bytes read from the client and not yet sent
    clientLeft, \* bytes the client has still to write
    devPhase, devRcvd, devRead, devSent, devAcked, devTold, \* external: the device
    sentTotal,  \* history: payload bytes accepted into tx, not reduced modulo W
    delivered,  \* history: payload bytes written to the client
    lost        \* history: payload bytes popped by a recv() that was cancelled

connVars   == <<sent_bytes, received_bytes, sendable_bytes,
                device_last_window_size, device_last_received_bytes>>
clientVars == <<read_buf, clientLeft>>
devVars    == <<devPhase, devRcvd, devRead, devSent, devAcked, devTold>>
ghosts     == <<sentTotal, delivered, lost>>
vars == <<pc, connVars, tx, rx, hand, out, clientVars, devVars, ghosts>>

SmallerOf(a, b) == IF a <= b THEN a ELSE b

Packet == [flags : {"SYN", "ACK", "RST"}, seq : 0 .. W - 1, ack : 0 .. W - 1, len : 0 .. MaxPayload]
DevicePacket == [seq : 0 .. W - 1, ack : 0 .. W - 1, win : 0 .. Buf, len : Nat]

NoPacket == [flags |-> "ACK", seq |-> 0, ack |-> 0, len |-> 0]

Room == Len(tx) < TxCap

\* The header every packet of the connection is built with.
HostPacket(flags, len) == [flags |-> flags, seq |-> sent_bytes, ack |-> received_bytes, len |-> len]

\* Faulty variant: a plain subtraction where the code compares and saturates.
calc_sendable_bytes_Unchecked(sent, window, received) ==
    SmallerOf(window * Unit - (sent - received), MaxPayload)

calc_sendable_bytes(sent, window, received) ==
    LET unacked == IF sent > received THEN sent - received ELSE 0   \* saturating_sub
    IN  IF window * Unit > unacked
        THEN SmallerOf(window * Unit - unacked, MaxPayload)
        ELSE 0

Init ==
    /\ pc = "connect"
    /\ sent_bytes = 0 /\ received_bytes = 0 /\ sendable_bytes = 0
    /\ device_last_window_size = 0 /\ device_last_received_bytes = 0
    /\ tx = <<>> /\ rx = <<>> /\ hand = 0
    /\ out = NoPacket
    /\ read_buf = 0 /\ clientLeft = ClientBytes
    /\ devPhase = "listen"
    /\ devRcvd = 0 /\ devRead = 0 /\ devSent = 0 /\ devAcked = 0 /\ devTold = <<0, 0>>
    /\ sentTotal = 0 /\ delivered = 0 /\ lost = 0

--------------------------------------------------------------------------------
(* The handshake, UsbDeviceConn::new.                                      *)

SendSyn ==
    /\ pc = "connect" /\ Room
    /\ tx' = Append(tx, HostPacket("SYN", 0))
    /\ pc' = "synack"
    /\ UNCHANGED <<connVars, rx, hand, out, clientVars, devVars, ghosts>>

RecvSynAck ==
    /\ pc = "synack" /\ rx # <<>>
    /\ sent_bytes' = (sent_bytes + Head(rx).ack) % W
    /\ received_bytes' = (received_bytes + Head(rx).seq) % W
    /\ device_last_window_size' = Head(rx).win
    /\ device_last_received_bytes' = Head(rx).ack
    /\ rx' = Tail(rx)
    /\ pc' = "hsack"
    /\ UNCHANGED <<sendable_bytes, tx, hand, out, clientVars, devVars, ghosts>>

SendHandshakeAck ==
    /\ pc = "hsack" /\ Room
    /\ tx' = Append(tx, HostPacket("ACK", 0))
    /\ sendable_bytes' = calc_sendable_bytes(sent_bytes, device_last_window_size,
                                             device_last_received_bytes)
    /\ pc' = "select"
    /\ UNCHANGED <<sent_bytes, received_bytes, device_last_window_size,
                   device_last_received_bytes, rx, hand, out, clientVars, devVars, ghosts>>

--------------------------------------------------------------------------------
(* recv(): the packet is popped and the counters are set; then ack() waits *)
(* for room, and only after it sendable_bytes is recomputed.  With room    *)
(* all of it is one poll.                                                  *)

\* Faulty variant: acknowledges the packet's own bytes before they are written anywhere.
SetFromHeader_AcksWholePacket(p) ==
    /\ received_bytes' = (p.seq + p.len) % W
    /\ device_last_received_bytes' = p.ack
    /\ device_last_window_size' = p.win
    /\ UNCHANGED sent_bytes

\* received_bytes takes the sequence number of the packet, not that of the byte after it.
SetFromHeader(p) ==
    /\ received_bytes' = p.seq
    /\ device_last_received_bytes' = p.ack
    /\ device_last_window_size' = p.win
    /\ UNCHANGED sent_bytes

\* Faulty variant: returns without update_sendable_bytes.
RecvAndAck_KeepsSendable ==
    /\ pc = "select" /\ rx # <<>> /\ Room
    /\ SetFromHeader(Head(rx))
    /\ tx' = Append(tx, [HostPacket("ACK", 0) EXCEPT !.ack = received_bytes'])
    /\ hand' = Head(rx).len
    /\ rx' = Tail(rx)
    /\ pc' = "toclient"
    /\ UNCHANGED <<sendable_bytes, out, clientVars, devVars, ghosts>>

RecvAndAck ==
    /\ pc = "select" /\ rx # <<>> /\ Room
    /\ SetFromHeader(Head(rx))
    /\ tx' = Append(tx, [HostPacket("ACK", 0) EXCEPT !.ack = received_bytes'])
    /\ sendable_bytes' = calc_sendable_bytes(sent_bytes, Head(rx).win, Head(rx).ack)
    /\ hand' = Head(rx).len
    /\ rx' = Tail(rx)
    /\ pc' = "toclient"
    /\ UNCHANGED <<out, clientVars, devVars, ghosts>>

RecvAckPending ==
    /\ pc = "select" /\ rx # <<>> /\ ~Room
    /\ SetFromHeader(Head(rx))
    /\ hand' = Head(rx).len
    /\ rx' = Tail(rx)
    /\ pc' = "acking"
    /\ UNCHANGED <<sendable_bytes, tx, out, clientVars, devVars, ghosts>>

\* Faulty variant: an acknowledgement that had to wait is taken for the end of recv().
AckSent_SkipsClient ==
    /\ pc = "acking" /\ Room
    /\ tx' = Append(tx, HostPacket("ACK", 0))
    /\ pc' = "select"
    /\ UNCHANGED <<connVars, rx, hand, out, clientVars, devVars, ghosts>>

AckSent ==
    /\ pc = "acking" /\ Room
    /\ tx' = Append(tx, HostPacket("ACK", 0))
    /\ sendable_bytes' = calc_sendable_bytes(sent_bytes, device_last_window_size,
                                             device_last_received_bytes)
    /\ pc' = "toclient"
    /\ UNCHANGED <<sent_bytes, received_bytes, device_last_window_size,
                   device_last_received_bytes, rx, hand, out, clientVars, devVars, ghosts>>

\* client_send: write_all to the client, outside the select!.
ClientSend ==
    /\ pc = "toclient"
    /\ delivered' = delivered + hand
    /\ hand' = 0
    /\ pc' = "select"
    /\ UNCHANGED <<connVars, tx, rx, out, clientVars, devVars, sentTotal, lost>>

--------------------------------------------------------------------------------
(* The client_read branch of the select!, polled while recv() is idle or   *)
(* waits in ack(); when it wins, the recv() future is dropped together     *)
(* with the packet it holds.                                               *)

Selecting == pc \in {"select", "acking"} /\ sendable_bytes > 0

CancelRecv ==
    /\ lost' = lost + hand
    /\ hand' = 0

\* Faulty variant: the cached sendable_bytes is left as it was.
Enqueue_KeepsSendable(p) ==
    /\ tx' = Append(tx, p)
    /\ sent_bytes' = (sent_bytes + p.len) % W
    /\ sentTotal' = sentTotal + p.len
    /\ pc' = "select"
    /\ UNCHANGED sendable_bytes

\* tx.send of a data packet, add_sent_bytes, update_sendable_bytes: one poll.
Enqueue(p) ==
    /\ tx' = Append(tx, p)
    /\ sent_bytes' = (sent_bytes + p.len) % W
    /\ sentTotal' = sentTotal + p.len
    /\ sendable_bytes' = calc_sendable_bytes(sent_bytes', device_last_window_size,
                                             device_last_received_bytes)
    /\ pc' = "select"

\* send_bytes(n bytes): the header is built now, the packet may have to wait for room.
SendBytes(n) ==
    \/ Room /\ Enqueue(HostPacket("ACK", n)) /\ UNCHANGED out
    \/ /\ ~Room
       /\ out' = HostPacket("ACK", n)
       /\ pc' = "sending"
       /\ UNCHANGED <<tx, sent_bytes, sentTotal, sendable_bytes>>

\* client_read: what an earlier read left over comes first, then the socket;
\* at most sendable_bytes are split off.
ClientRead(k) ==
    /\ Selecting
    /\ IF read_buf > 0 THEN k = 0 ELSE k \in 1 .. SmallerOf(clientLeft, MaxRead)
    /\ LET n == SmallerOf(sendable_bytes, read_buf + k)
       IN  /\ read_buf' = read_buf + k - n
           /\ clientLeft' = clientLeft - k
           /\ SendBytes(n)
    /\ CancelRecv
    /\ UNCHANGED <<received_bytes, device_last_window_size, device_last_received_bytes,
                   rx, devVars, delivered>>

\* Faulty variant: a packet that had to wait is not counted by add_sent_bytes.
SendPending_NotCounted ==
    /\ pc = "sending" /\ Room
    /\ tx' = Append(tx, out)
    /\ out' = NoPacket
    /\ pc' = "select"
    /\ UNCHANGED <<connVars, rx, hand, clientVars, devVars, ghosts>>

SendPending ==
    /\ pc = "sending" /\ Room
    /\ Enqueue(out)
    /\ out' = NoPacket
    /\ UNCHANGED <<received_bytes, device_last_window_size, device_last_received_bytes,
                   rx, hand, clientVars, devVars, delivered, lost>>

--------------------------------------------------------------------------------
(* The end of the connection.  Once it is closed its rx is dropped.        *)

\* An empty read: close() sends RST, and waits for room to do it.
ClientEof ==
    /\ Selecting /\ read_buf = 0 /\ clientLeft = 0
    /\ CancelRecv
    /\ pc' = "rst"
    /\ UNCHANGED <<connVars, tx, rx, out, clientVars, devVars, sentTotal, delivered>>

SendRst ==
    /\ pc = "rst" /\ Room
    /\ tx' = Append(tx, HostPacket("RST", 0))
    /\ pc' = "closed"
    /\ UNCHANGED <<connVars, rx, hand, out, clientVars, devVars, ghosts>>

\* client_send or the read of client_read fails: the connection is dropped, and
\* close_blocking only tries to send RST.
ClientFails ==
    /\ pc = "toclient" \/ (Selecting /\ read_buf = 0)
    /\ tx' = IF Room THEN Append(tx, HostPacket("RST", 0)) ELSE tx
    /\ pc' = "closed"
    /\ UNCHANGED <<connVars, rx, hand, out, clientVars, devVars, ghosts>>

Handler ==
    \/ SendSyn \/ RecvSynAck \/ SendHandshakeAck
    \/ RecvAndAck \/ RecvAckPending \/ AckSent \/ ClientSend
    \/ SendPending \/ SendRst

Client ==
    \/ \E k \in 0 .. MaxRead : ClientRead(k)
    \/ ClientEof \/ ClientFails

--------------------------------------------------------------------------------
(* External: the device's endpoint, known from how the code talks to it.   *)
(* It acknowledges what it has received and advertises the free part of    *)
(* its buffer, rounded down to window units.                               *)

DevFree == IF devRcvd - devRead < Buf THEN Buf - (devRcvd - devRead) ELSE 0
DevView == <<(1 + devRcvd) % W, DevFree \div Unit>>

DeviceReceive ==
    /\ tx # <<>>
    /\ LET p == Head(tx) IN
         /\ devRcvd' = devRcvd + p.len
         /\ devAcked' = p.ack
         /\ devPhase' = IF p.flags = "SYN" THEN "synrcvd"
                        ELSE IF p.flags = "RST" THEN "reset" ELSE devPhase
    /\ tx' = Tail(tx)
    /\ UNCHANGED <<pc, connVars, rx, hand, out, clientVars, devRead, devSent, devTold, ghosts>>

DeviceSynAck ==
    /\ devPhase = "synrcvd" /\ Len(rx) < RxCap
    /\ rx' = Append(rx, [seq |-> 0, ack |-> DevView[1], win |-> DevView[2], len |-> 0])
    /\ devPhase' = "open"
    /\ devTold' = DevView
    /\ UNCHANGED <<pc, connVars, tx, hand, out, clientVars, devRcvd, devRead, devSent,
                   devAcked, ghosts>>

\* A data packet (n > 0, within the host's window) or a bare acknowledgement (n = 0).
DeviceSend(n) ==
    /\ devPhase = "open" /\ Len(rx) < RxCap
    /\ n > 0 => /\ devSent + n <= DevBytes
                /\ ((1 + devSent - devAcked) % W) + n <= HostWindow
    /\ rx' = Append(rx, [seq |-> (1 + devSent) % W, ack |-> DevView[1],
                         win |-> DevView[2], len |-> n])
    /\ devSent' = devSent + n
    /\ devTold' = DevView
    /\ UNCHANGED <<pc, connVars, tx, hand, out, clientVars, devPhase, devRcvd, devRead,
                   devAcked, ghosts>>

\* The host has not been told what the device has received or freed since.
DeviceUpdate == devTold # DevView /\ DeviceSend(0)

\* The application on the device reads.
DeviceRead(n) ==
    /\ n \in 1 .. devRcvd - devRead
    /\ devRead' = devRead + n
    /\ UNCHANGED <<pc, connVars, tx, rx, hand, out, clientVars, devPhase, devRcvd, devSent,
                   devAcked, devTold, ghosts>>

Device ==
    \/ DeviceReceive \/ DeviceSynAck \/ DeviceUpdate
    \/ \E n \in 1 .. DevBytes : DeviceSend(n)
    \/ \E n \in 1 .. ClientBytes : DeviceRead(n)

Next == Handler \/ Client \/ Device

(***************************************************************************)
(* The runtime polls a task that can go on, the writer keeps draining, and *)
(* the device answers and its application reads.  Nothing is assumed of    *)
(* the client.                                                             *)
(***************************************************************************)
Fairness ==
    /\ WF_vars(Handler)
    /\ WF_vars(DeviceReceive) /\ WF_vars(DeviceSynAck) /\ WF_vars(DeviceUpdate)
    /\ WF_vars(\E n \in 1 .. ClientBytes : DeviceRead(n))

Spec == Init /\ [][Next]_vars /\ Fairness

--------------------------------------------------------------------------------
(* Properties                                                              *)

\* Type invariant of the connection, the channels and the device.
TypeOK ==
    /\ pc \in {"connect", "synack", "hsack", "select", "acking", "toclient", "sending",
               "rst", "closed"}
    /\ sent_bytes \in 0 .. W - 1 /\ received_bytes \in 0 .. W - 1
    /\ device_last_received_bytes \in 0 .. W - 1
    /\ sendable_bytes \in 0 .. MaxPayload
    /\ device_last_window_size \in 0 .. Buf
    /\ tx \in Seq(Packet) /\ Len(tx) <= TxCap
    /\ rx \in Seq(DevicePacket) /\ Len(rx) <= RxCap
    /\ out \in Packet
    /\ hand \in Nat /\ read_buf \in Nat /\ clientLeft \in Nat
    /\ devRcvd \in Nat /\ devSent \in Nat
    /\ sentTotal \in Nat /\ delivered \in Nat /\ lost \in Nat
    /\ devRead \in 0 .. devRcvd
    /\ devPhase \in {"listen", "synrcvd", "open", "reset"}
    /\ devAcked \in 0 .. W - 1
    /\ devTold \in Nat \X Nat

SentUnwrapped == 1 + sentTotal < W

\* The bytes the connection has accepted for the device and the device's application has
\* not read fit the device's buffer, however stale the cached sendable_bytes and the last
\* window are, as long as sent_bytes has not wrapped (send_packet, calc_sendable_bytes).
WindowRespected == SentUnwrapped => sentTotal - devRead <= Buf

\* Data reaches the device in order, without a gap or an overlap: the header of a packet,
\* built before its wait for room, still names the next byte when the packet is received.
DeviceSeesContiguousBytes ==
    tx # <<>> /\ Head(tx).flags # "SYN" => Head(tx).seq = (1 + devRcvd) % W

\* The device is never told that a byte has arrived which no recv() has taken out of the
\* channel and finished with: received_bytes lags by the packet in hand.
AckedBytesTaken == 1 + devSent < W => devAcked <= 1 + delivered + lost

\* With the channel drained, every byte the device sent was written to the client, is in
\* the handler's hand, or was in a recv() that lost the select! while it waited in ack().
NothingElseLost == rx = <<>> => devSent = delivered + lost + hand

\* A connection that may not send because the window is full may send again, or ends:
\* every path through recv() that learns of a new window recomputes sendable_bytes.
StallEnds == (pc = "select" /\ sendable_bytes = 0) ~> (sendable_bytes > 0 \/ pc = "closed")
================================================================================
